-------------------------- MODULE TokenFactoryProofs --------------------------
(***************************************************************************)
(* What the token factory guarantees for any number of accounts,           *)
(* proposals, changes, signed actions and vaults: proposals take effect    *)
(* only if they passed and their delay is over, verdicts stand, the queues *)
(* of the action types stay sound, nothing that matters is written without *)
(* notice, vaults pay once and change hands by agreement, and withdrawals  *)
(* from the treasury stay within twice the cap.                            *)
(*                                                                         *)
(* The invariant ties the tallies of a proposal to the ballots behind them *)
(* and its state to its delay, and says that the slots which the counters  *)
(* have not reached are empty: what is created overwrites nothing.         *)
(***************************************************************************)
EXTENDS TokenFactoryProps, SumTheorems, SequenceTheorems

Names == {"admin", "treasury", "baseFee", "metadataFee", "paused", "policy"}

States == {"Created", "Active", "Succeeded", "Defeated", "Failed", "Queued",
           "Executed", "Cancelled"}

Effects == UNION {Payload(t) : t \in ActionType}

Proposal ==
    [state : States, type : ActionType, effect : Effects, proposer : Account,
     createdAt : Nat, start : Nat, end : Nat, eta : Nat, supply : Nat,
     for : Nat, against : Nat, abstain : Nat]

Change ==
    [state : {"Pending", "Executed"}, effect : Schedulable, scheduledAt : Nat, executeAt : Nat]

Signed ==
    [state : {"Pending", "Executed", "Cancelled"}, effect : Signable, proposer : Account,
     approvals : SUBSET Account]

SettingsInv ==
    /\ DOMAIN settings = Names /\ settings.admin \in Account
    /\ pendingAdmin = NoAdmin \/ pendingAdmin.to \in Account
    /\ PendingAdminIsCurrent

ProposalTypes ==
    /\ now \in Nat /\ proposalCount \in Nat
    /\ proposals \in [ProposalId -> Proposal \cup {Nothing}]
    /\ ballots \in [ProposalId -> [Account -> Choice \cup {"None"}]]
    /\ typeQueue \in [ActionType -> Seq(ProposalId)]

(* Slots that the counter has not reached are empty, and nobody voted on   *)
(* what does not exist.                                                    *)
SlotsFree ==
    /\ \A p \in ProposalId : p >= proposalCount => proposals[p] = Nothing
    /\ \A p \in ProposalId : proposals[p] = Nothing => \A a \in Account : ballots[p][a] = "None"

ProposalSound(p) ==
    /\ proposals[p].for = Cardinality(Voters(p, "For"))
    /\ proposals[p].against = Cardinality(Voters(p, "Against"))
    /\ proposals[p].createdAt < proposals[p].end
    /\ proposals[p].end + MinTimelock <= proposals[p].eta
    /\ proposals[p].state \in {"Queued", "Executed"} =>
          proposals[p].for > proposals[p].against
    /\ proposals[p].state = "Executed" => now >= proposals[p].eta

ProposalsSound == \A p \in ProposalId : proposals[p] # Nothing => ProposalSound(p)

QueuesSound ==
    \A t \in ActionType :
        /\ IsInjective(typeQueue[t])
        /\ \A p \in Range(typeQueue[t]) : proposals[p].state = "Queued" /\ proposals[p].type = t

ProposalInv == ProposalTypes /\ SlotsFree /\ ProposalsSound /\ QueuesSound

ChangeInv ==
    /\ changeCount \in Nat
    /\ changes \in [ChangeId -> Change \cup {Nothing}]
    /\ \A c \in ChangeId :
          /\ c >= changeCount => changes[c] = Nothing
          /\ changes[c] # Nothing => changes[c].scheduledAt + ChangeDelay <= changes[c].executeAt

ActionInv ==
    /\ actionCount \in Nat
    /\ actions \in [ActionId -> Signed \cup {Nothing}]
    /\ \A m \in ActionId : m >= actionCount => actions[m] = Nothing
    /\ multisig.signers \subseteq Account /\ multisig.threshold \in Nat

Administered == SettingsInv /\ ProposalInv /\ ChangeInv /\ ActionInv

(* What a step of the contract does to the administration: a call of the   *)
(* administration, the policy of the treasury initialized, or nothing.     *)
PolicyStep ==
    /\ \E policy \in Policies : Apply([policy |-> policy])
    /\ UNCHANGED <<now, pendingAdmin, proposalVars, changeVars, multisigVars>>

AdminStep == AdminNext \/ PolicyStep \/ UNCHANGED adminVars

-----------------------------------------------------------------------------
(* Data.                                                                   *)

LEMMA NothingIsNone == Nothing.state = "None" /\ Nothing \notin Proposal \cup Change \cup Signed
BY DEF Nothing, Proposal, Change, Signed, States

LEMMA EffectsSpareAdmin ==
    /\ \A e \in Effects : "admin" \notin DOMAIN e
    /\ \A e \in Schedulable : "admin" \notin DOMAIN e
<1>1. /\ \A e \in FeePair : "admin" \notin DOMAIN e
      /\ \A e \in Pausing : "admin" \notin DOMAIN e
      /\ \A e \in NewTreasury : "admin" \notin DOMAIN e
      /\ \A e \in [baseFee : Fees] : "admin" \notin DOMAIN e
      /\ \A e \in [metadataFee : Fees] : "admin" \notin DOMAIN e
  BY DEF FeePair, Pausing, NewTreasury
<1>2. ASSUME NEW t \in ActionType, NEW e \in Payload(t) PROVE "admin" \notin DOMAIN e
  <2>1. CASE t = "FeeChange" BY <1>1, <1>2, <2>1 DEF Payload
  <2>2. CASE t = "TreasuryChange" BY <1>1, <1>2, <2>2 DEF Payload
  <2>3. CASE t = "PauseContract"
    <3>1. e \in [paused : {TRUE}] BY <1>2, <2>3 DEF Payload
    <3> QED BY <3>1
  <2>4. CASE t = "UnpauseContract"
    <3>1. e \in [paused : {FALSE}] BY <1>2, <2>4 DEF Payload
    <3> QED BY <3>1
  <2>5. CASE t = "PolicyUpdate"
    <3>1. e \in [policy : Policies] BY <1>2, <2>5 DEF Payload
    <3> QED BY <3>1
  <2>6. CASE t = "ParameterChange"
    <3>1. e = <<>> BY <1>2, <2>6 DEF Payload
    <3>2. DOMAIN <<>> = {} OBVIOUS
    <3> QED BY <3>1, <3>2
  <2> QED BY <2>1, <2>2, <2>3, <2>4, <2>5, <2>6 DEF ActionType
<1>3. \A e \in Effects : "admin" \notin DOMAIN e BY <1>2 DEF Effects
<1>4. \A e \in Schedulable : "admin" \notin DOMAIN e BY <1>1 DEF Schedulable
<1> QED BY <1>3, <1>4

LEMMA SignableAdmins ==
    ASSUME NEW e \in Signable, "admin" \in DOMAIN e
    PROVE  e.admin \in Account
<1>1. /\ \A x \in FeePair : "admin" \notin DOMAIN x
      /\ \A x \in Pausing : "admin" \notin DOMAIN x
  BY DEF FeePair, Pausing
<1>2. e \in [admin : Account] BY <1>1 DEF Signable
<1> QED BY <1>2

(* Taking a proposal out of a queue.                                       *)
LEMMA WithoutProperties ==
    ASSUME NEW q \in Seq(ProposalId), IsInjective(q), NEW p
    PROVE  /\ Without(p, q) \in Seq(ProposalId) /\ IsInjective(Without(p, q))
           /\ Range(Without(p, q)) = Range(q) \ {p}
<1> DEFINE L == Len(q)
<1>1. L \in Nat /\ DOMAIN q = 1..L /\ \A k \in 1..L : q[k] \in ProposalId
  BY LenProperties, ElementOfSeq
<1>2. IsIn(p, q) <=> p \in Range(q) BY <1>1 DEF IsIn, Range
<1>3. CASE ~IsIn(p, q)
  BY <1>2, <1>3 DEF Without
<1>4. CASE IsIn(p, q)
  <2> DEFINE at == CHOOSE k \in 1..L : q[k] = p
             r == [k \in 1..(L - 1) |-> IF k < at THEN q[k] ELSE q[k + 1]]
  <2>1. at \in 1..L /\ q[at] = p BY <1>4 DEF IsIn
  <2>2. Without(p, q) = r BY <1>4 DEF Without
  <2> HIDE DEF at
  <2>3. \A k \in 1..(L - 1) : r[k] = IF k < at THEN q[k] ELSE q[k + 1] OBVIOUS
  <2>4. r \in [1..(L - 1) -> ProposalId] /\ L - 1 \in Nat BY <1>1, <2>1
  <2> HIDE DEF r
  <2>5. r \in Seq(ProposalId) BY <2>4, SeqDef
  <2>6. DOMAIN r = 1..(L - 1) BY <2>4
  <2>7. IsInjective(r)
    <3> SUFFICES ASSUME NEW j \in 1..(L - 1), NEW k \in 1..(L - 1), r[j] = r[k] PROVE j = k
      BY <2>6 DEF IsInjective
    <3>1. CASE j < at /\ k < at
      BY <1>1, <2>1, <2>3, <3>1 DEF IsInjective
    <3>2. CASE j < at /\ k >= at
      <4>1. j \in 1..L /\ k + 1 \in 1..L /\ q[j] = q[k + 1] BY <1>1, <2>1, <2>3, <3>2
      <4>2. j = k + 1 BY <1>1, <4>1 DEF IsInjective
      <4> QED BY <2>1, <3>2, <4>2
    <3>3. CASE j >= at /\ k < at
      <4>1. k \in 1..L /\ j + 1 \in 1..L /\ q[k] = q[j + 1] BY <1>1, <2>1, <2>3, <3>3
      <4>2. k = j + 1 BY <1>1, <4>1 DEF IsInjective
      <4> QED BY <2>1, <3>3, <4>2
    <3>4. CASE j >= at /\ k >= at
      <4>1. k + 1 \in 1..L /\ j + 1 \in 1..L /\ q[k + 1] = q[j + 1] BY <1>1, <2>1, <2>3, <3>4
      <4>2. k + 1 = j + 1 BY <1>1, <4>1 DEF IsInjective
      <4> QED BY <4>2
    <3> QED BY <2>1, <3>1, <3>2, <3>3, <3>4
  <2>8. ASSUME NEW k \in 1..(L - 1) PROVE r[k] \in Range(q) \ {p}
    <3>1. PICK l \in 1..L : l # at /\ r[k] = q[l]
      <4>1. CASE k < at BY <1>1, <2>1, <2>3, <4>1
      <4>2. CASE k >= at BY <1>1, <2>1, <2>3, <4>2
      <4> QED BY <2>1, <4>1, <4>2
    <3> QED BY <1>1, <2>1, <3>1 DEF IsInjective, Range
  <2>9. ASSUME NEW y \in Range(q) \ {p} PROVE \E k \in 1..(L - 1) : r[k] = y
    <3>1. PICK l \in 1..L : q[l] = y BY <1>1 DEF Range
    <3>2. l # at BY <2>1, <3>1
    <3>3. CASE l < at BY <1>1, <2>1, <2>3, <3>1, <3>3
    <3>4. CASE l > at
      <4>1. l - 1 \in 1..(L - 1) /\ l - 1 >= at /\ (l - 1) + 1 = l
        BY <1>1, <2>1, <3>1, <3>4
      <4>2. r[l - 1] = IF l - 1 < at THEN q[l - 1] ELSE q[(l - 1) + 1] BY <2>3, <4>1
      <4>3. ~(l - 1 < at) /\ q[(l - 1) + 1] = q[l] BY <2>1, <4>1
      <4>4. r[l - 1] = q[l] BY <4>2, <4>3
      <4> QED BY <3>1, <4>1, <4>4
    <3> QED BY <2>1, <3>1, <3>2, <3>3, <3>4
  <2>10. Range(r) = Range(q) \ {p} BY <2>6, <2>8, <2>9 DEF Range
  <2> QED BY <2>2, <2>5, <2>7, <2>10
<1> QED BY <1>3, <1>4

LEMMA AppendedProperties ==
    ASSUME NEW q \in Seq(ProposalId), IsInjective(q), NEW p \in ProposalId, ~IsIn(p, q)
    PROVE  /\ Append(q, p) \in Seq(ProposalId) /\ IsInjective(Append(q, p))
           /\ Range(Append(q, p)) = Range(q) \cup {p}
<1> DEFINE L == Len(q)
           r == Append(q, p)
<1>1. L \in Nat /\ DOMAIN q = 1..L BY LenProperties
<1>2. r \in Seq(ProposalId) /\ Len(r) = L + 1 /\ r[L + 1] = p /\ \A i \in 1..L : r[i] = q[i]
  BY AppendProperties
<1>3. DOMAIN r = 1..(L + 1) BY <1>2, LenProperties
<1> HIDE DEF r
<1>4. \A k \in 1..L : q[k] # p BY DEF IsIn
<1>5. IsInjective(r)
  <2> SUFFICES ASSUME NEW i \in 1..(L + 1), NEW j \in 1..(L + 1), r[i] = r[j] PROVE i = j
    BY <1>3 DEF IsInjective
  <2>1. CASE i \in 1..L /\ j \in 1..L BY <1>1, <1>2, <2>1 DEF IsInjective
  <2>2. CASE i = L + 1 /\ j \in 1..L BY <1>2, <1>4, <2>2
  <2>3. CASE j = L + 1 /\ i \in 1..L BY <1>2, <1>4, <2>3
  <2> QED BY <1>1, <2>1, <2>2, <2>3
<1>6. Range(r) = Range(q) \cup {p}
  <2>1. \A i \in 1..(L + 1) : r[i] \in Range(q) \cup {p} BY <1>1, <1>2 DEF Range
  <2>2. \A y \in Range(q) : \E i \in 1..(L + 1) : r[i] = y BY <1>1, <1>2 DEF Range
  <2>3. L + 1 \in 1..(L + 1) BY <1>1
  <2> QED BY <1>2, <1>3, <2>1, <2>2, <2>3 DEF Range
<1> QED BY <1>2, <1>5, <1>6 DEF r

-----------------------------------------------------------------------------
(* Settings.                                                               *)

LEMMA SparingApply ==
    ASSUME SettingsInv, NEW e, "admin" \notin DOMAIN e, Apply(e), UNCHANGED pendingAdmin
    PROVE  SettingsInv'
<1>1. DOMAIN settings' = Names /\ settings'.admin = settings.admin
  BY DEF SettingsInv, Apply, Names
<1> QED BY <1>1 DEF SettingsInv, PendingAdminIsCurrent

LEMMA AdminApply ==
    ASSUME SettingsInv, NEW e, "admin" \in DOMAIN e, e.admin \in Account, Apply(e),
           pendingAdmin' = NoAdmin
    PROVE  SettingsInv'
<1>1. DOMAIN settings' = Names /\ settings'.admin = e.admin
  BY DEF SettingsInv, Apply, Names
<1> QED BY <1>1 DEF SettingsInv, PendingAdminIsCurrent

LEMMA CarriedOutSettings ==
    ASSUME SettingsInv, NEW e \in Signable, CarryOut(e)
    PROVE  SettingsInv'
<1>1. CASE "admin" \in DOMAIN e BY <1>1, AdminApply, SignableAdmins DEF CarryOut
<1>2. CASE "admin" \notin DOMAIN e BY <1>2, SparingApply DEF CarryOut
<1> QED BY <1>1, <1>2

LEMMA SettingsFrame ==
    ASSUME AdminStep
    PROVE  \/ UNCHANGED <<settings, pendingAdmin>>
           \/ \E p \in ProposalId : Execute(p)
           \/ \E c \in ChangeId : ExecuteChange(c)
           \/ \E s \in Account, m \in ActionId : ApproveAction(s, m) \/ ExecuteAction(s, m)
           \/ \E paused \in BOOLEAN : SetPaused(paused)
           \/ \E policy \in Policies : Apply([policy |-> policy]) /\ UNCHANGED pendingAdmin
           \/ \E a \in Account : TransferAdmin(a) \/ ProposeAdmin(a)
           \/ AcceptAdmin \/ CancelAdmin
<1>1. CASE Announces
  BY <1>1 DEF Announces, CreateProposal, Schedule, ProposeAction
<1>2. CASE Proceeds
  <2>1. CASE Tick BY <2>1 DEF Tick
  <2>2. ASSUME NEW p \in ProposalId,
               \/ \E a \in Account, choice \in Choice : Vote(a, p, choice)
               \/ Finalize(p) \/ QueueProposal(p) \/ Enqueue(p)
               \/ \E a \in Account : Cancel(a, p)
        PROVE UNCHANGED <<settings, pendingAdmin>>
    BY <2>2 DEF Vote, Finalize, QueueProposal, Enqueue, Cancel
  <2>3. ASSUME NEW c \in ChangeId, CancelChange(c) PROVE UNCHANGED <<settings, pendingAdmin>>
    BY <2>3 DEF CancelChange
  <2>4. ASSUME NEW s, NEW m, CancelAction(s, m) PROVE UNCHANGED <<settings, pendingAdmin>>
    BY <2>4 DEF CancelAction
  <2> QED BY <1>2, <2>1, <2>2, <2>3, <2>4 DEF Proceeds
<1>3. CASE Intervenes
  BY <1>3 DEF Intervenes, ConfigureMultisig, UpdatePolicy, SetConfig
<1>4. CASE PolicyStep BY <1>4 DEF PolicyStep
<1>5. CASE UNCHANGED adminVars BY <1>5 DEF adminVars
<1> QED BY <1>1, <1>2, <1>3, <1>4, <1>5 DEF AdminStep, AdminNext

LEMMA SettingsStep ==
    ASSUME Administered, AdminStep
    PROVE  SettingsInv'
<1> USE DEF Administered
<1>1. CASE UNCHANGED <<settings, pendingAdmin>>
  BY <1>1 DEF SettingsInv, PendingAdminIsCurrent
<1>2. ASSUME NEW p \in ProposalId, Execute(p) PROVE SettingsInv'
  <2>1. proposals[p] \in Proposal BY <1>2 DEF Execute, ProposalInv, ProposalTypes, Nothing
  <2>2. "admin" \notin DOMAIN proposals[p].effect BY <2>1, EffectsSpareAdmin DEF Proposal
  <2> QED BY <1>2, <2>2, SparingApply DEF Execute
<1>3. ASSUME NEW c \in ChangeId, ExecuteChange(c) PROVE SettingsInv'
  <2>1. changes[c] \in Change BY <1>3 DEF ExecuteChange, ChangeInv, Nothing
  <2>2. "admin" \notin DOMAIN changes[c].effect BY <2>1, EffectsSpareAdmin DEF Change
  <2> QED BY <1>3, <2>2, SparingApply DEF ExecuteChange
<1>4. ASSUME NEW s \in Account, NEW m \in ActionId, ApproveAction(s, m) \/ ExecuteAction(s, m)
      PROVE SettingsInv'
  <2>1. actions[m] \in Signed
    BY <1>4 DEF ApproveAction, ExecuteAction, ActionInv, Nothing
  <2>2. actions[m].effect \in Signable BY <2>1 DEF Signed
  <2>3. CarryOut(actions[m].effect) \/ UNCHANGED <<settings, pendingAdmin>>
    BY <1>4 DEF ApproveAction, ExecuteAction
  <2> QED BY <1>1, <2>2, <2>3, CarriedOutSettings
<1>5. ASSUME NEW paused \in BOOLEAN, SetPaused(paused) PROVE SettingsInv'
  BY <1>5, SparingApply DEF SetPaused
<1>6. ASSUME NEW policy \in Policies, Apply([policy |-> policy]), UNCHANGED pendingAdmin
      PROVE SettingsInv'
  BY <1>6, SparingApply
<1>7. ASSUME NEW a \in Account, TransferAdmin(a) PROVE SettingsInv'
  BY <1>7, AdminApply DEF TransferAdmin
<1>8. ASSUME NEW a \in Account, ProposeAdmin(a) PROVE SettingsInv'
  BY <1>8 DEF ProposeAdmin, SettingsInv, PendingAdminIsCurrent
<1>9. CASE AcceptAdmin
  <2>1. pendingAdmin.to \in Account BY <1>9 DEF AcceptAdmin, SettingsInv
  <2> QED BY <1>9, <2>1, AdminApply DEF AcceptAdmin
<1>10. CASE CancelAdmin
  BY <1>10 DEF CancelAdmin, SettingsInv, PendingAdminIsCurrent
<1> QED BY <1>1, <1>2, <1>3, <1>4, <1>5, <1>6, <1>7, <1>8, <1>9, <1>10, SettingsFrame

-----------------------------------------------------------------------------
(* Pending changes and signed actions.                                     *)

LEMMA ChangeFrame ==
    ASSUME AdminStep
    PROVE  \/ UNCHANGED changeVars
           \/ \E effect \in Schedulable : Schedule(effect)
           \/ \E c \in ChangeId : ExecuteChange(c) \/ CancelChange(c)
<1>1. CASE Announces
  BY <1>1 DEF Announces, CreateProposal, Schedule, ProposeAction
<1>2. CASE Proceeds
  <2>1. CASE Tick BY <2>1 DEF Tick
  <2>2. ASSUME NEW p \in ProposalId,
               \/ \E a \in Account, choice \in Choice : Vote(a, p, choice)
               \/ Finalize(p) \/ QueueProposal(p) \/ Enqueue(p) \/ Execute(p)
               \/ \E a \in Account : Cancel(a, p)
        PROVE UNCHANGED changeVars
    BY <2>2 DEF Vote, Finalize, QueueProposal, Enqueue, Execute, Cancel
  <2>3. ASSUME NEW s, NEW m, ApproveAction(s, m) \/ ExecuteAction(s, m) \/ CancelAction(s, m)
        PROVE UNCHANGED changeVars
    BY <2>3 DEF ApproveAction, ExecuteAction, CancelAction
  <2> QED BY <1>2, <2>1, <2>2, <2>3 DEF Proceeds
<1>3. CASE Intervenes
  BY <1>3 DEF Intervenes, ConfigureMultisig, SetPaused, UpdatePolicy, SetConfig, TransferAdmin,
     ProposeAdmin, AcceptAdmin, CancelAdmin
<1>4. CASE PolicyStep BY <1>4 DEF PolicyStep
<1>5. CASE UNCHANGED adminVars BY <1>5 DEF adminVars
<1> QED BY <1>1, <1>2, <1>3, <1>4, <1>5 DEF AdminStep, AdminNext

LEMMA ChangeStep ==
    ASSUME Administered, AdminStep
    PROVE  ChangeInv'
<1> USE DEF Administered
<1>1. CASE UNCHANGED changeVars BY <1>1 DEF ChangeInv, changeVars
<1>2. ASSUME NEW effect \in Schedulable, Schedule(effect) PROVE ChangeInv'
  <2> DEFINE new == [state |-> "Pending", effect |-> effect, scheduledAt |-> now,
                     executeAt |-> now + ChangeDelay]
  <2>1. now \in Nat /\ changeCount \in Nat BY DEF ProposalInv, ProposalTypes, ChangeInv
  <2>2. new \in Change /\ new.scheduledAt + ChangeDelay <= new.executeAt
    BY <2>1, FactoryAdminAssumption DEF Change
  <2>3. changes' = [changes EXCEPT ![changeCount] = new] /\ changeCount' = changeCount + 1
    BY <1>2 DEF Schedule
  <2> HIDE DEF new
  <2>4. changes' \in [ChangeId -> Change \cup {Nothing}] BY <2>2, <2>3 DEF ChangeInv
  <2>5. ASSUME NEW c \in ChangeId
        PROVE /\ c >= changeCount' => changes'[c] = Nothing
              /\ changes'[c] # Nothing => changes'[c].scheduledAt + ChangeDelay <= changes'[c].executeAt
    <3>1. CASE c = changeCount
      <4>1. changes'[c] = new BY <2>3, <3>1 DEF ChangeInv
      <4> QED BY <2>1, <2>2, <2>3, <3>1, <4>1
    <3>2. CASE c # changeCount
      <4>1. changes'[c] = changes[c] BY <2>3, <3>2 DEF ChangeInv
      <4>2. c \in Int BY DEF ChangeId
      <4> QED BY <2>1, <2>3, <3>2, <4>1, <4>2 DEF ChangeInv
    <3> QED BY <3>1, <3>2
  <2> QED BY <2>1, <2>3, <2>4, <2>5 DEF ChangeInv
<1>3. ASSUME NEW c \in ChangeId, ExecuteChange(c) PROVE ChangeInv'
  <2>1. changes[c] \in Change BY <1>3 DEF ExecuteChange, ChangeInv, Nothing
  <2> DEFINE new == [changes[c] EXCEPT !.state = "Executed"]
  <2>2. new \in Change /\ new.scheduledAt = changes[c].scheduledAt
        /\ new.executeAt = changes[c].executeAt
    BY <2>1 DEF Change
  <2>3. changes' = [changes EXCEPT ![c] = new] /\ changeCount' = changeCount
    BY <1>3 DEF ExecuteChange
  <2>4. changes[c] # Nothing BY <2>1, NothingIsNone
  <2> HIDE DEF new
  <2> QED BY <2>2, <2>3, <2>4 DEF ChangeInv
<1>4. ASSUME NEW c \in ChangeId, CancelChange(c) PROVE ChangeInv'
  BY <1>4 DEF CancelChange, ChangeInv
<1> QED BY <1>1, <1>2, <1>3, <1>4, ChangeFrame

LEMMA ActionFrame ==
    ASSUME AdminStep
    PROVE  \/ UNCHANGED multisigVars
           \/ \E s \in Account, effect \in Signable : ProposeAction(s, effect)
           \/ \E s \in Account, m \in ActionId :
                 ApproveAction(s, m) \/ ExecuteAction(s, m) \/ CancelAction(s, m)
           \/ \E signers \in SUBSET Account, n \in 1..Cardinality(Account) :
                 ConfigureMultisig(signers, n)
<1>1. CASE Announces
  BY <1>1 DEF Announces, CreateProposal, Schedule
<1>2. CASE Proceeds
  <2>1. CASE Tick BY <2>1 DEF Tick
  <2>2. ASSUME NEW p \in ProposalId,
               \/ \E a \in Account, choice \in Choice : Vote(a, p, choice)
               \/ Finalize(p) \/ QueueProposal(p) \/ Enqueue(p) \/ Execute(p)
               \/ \E a \in Account : Cancel(a, p)
        PROVE UNCHANGED multisigVars
    BY <2>2 DEF Vote, Finalize, QueueProposal, Enqueue, Execute, Cancel
  <2>3. ASSUME NEW c, ExecuteChange(c) \/ CancelChange(c) PROVE UNCHANGED multisigVars
    BY <2>3 DEF ExecuteChange, CancelChange
  <2> QED BY <1>2, <2>1, <2>2, <2>3 DEF Proceeds
<1>3. CASE Intervenes
  BY <1>3 DEF Intervenes, SetPaused, UpdatePolicy, SetConfig, TransferAdmin,
     ProposeAdmin, AcceptAdmin, CancelAdmin
<1>4. CASE PolicyStep BY <1>4 DEF PolicyStep
<1>5. CASE UNCHANGED adminVars BY <1>5 DEF adminVars
<1> QED BY <1>1, <1>2, <1>3, <1>4, <1>5 DEF AdminStep, AdminNext

LEMMA ActionStep ==
    ASSUME Administered, AdminStep
    PROVE  ActionInv'
<1> USE DEF Administered
<1>1. CASE UNCHANGED multisigVars BY <1>1 DEF ActionInv, multisigVars
<1>2. ASSUME NEW s \in Account, NEW effect \in Signable, ProposeAction(s, effect)
      PROVE ActionInv'
  <2> DEFINE new == [state |-> "Pending", effect |-> effect, proposer |-> s, approvals |-> {}]
  <2>1. new \in Signed BY DEF Signed
  <2>2. actions' = [actions EXCEPT ![actionCount] = new] /\ actionCount' = actionCount + 1
        /\ multisig' = multisig
    BY <1>2 DEF ProposeAction
  <2> HIDE DEF new
  <2>3. actions' \in [ActionId -> Signed \cup {Nothing}] BY <2>1, <2>2 DEF ActionInv
  <2>4. ASSUME NEW m \in ActionId, m >= actionCount' PROVE actions'[m] = Nothing
    <3>1. m \in Int /\ actionCount \in Nat BY DEF ActionId, ActionInv
    <3>2. m # actionCount /\ m >= actionCount BY <2>2, <2>4, <3>1
    <3> QED BY <2>2, <3>2 DEF ActionInv
  <2> QED BY <2>2, <2>3, <2>4 DEF ActionInv
<1>3. ASSUME NEW m \in ActionId, NEW r \in Signed, actions[m] # Nothing,
             actions' = [actions EXCEPT ![m] = r], UNCHANGED <<multisig, actionCount>>
      PROVE ActionInv'
  BY <1>3 DEF ActionInv
<1>4. ASSUME NEW s \in Account, NEW m \in ActionId,
             ApproveAction(s, m) \/ ExecuteAction(s, m) \/ CancelAction(s, m)
      PROVE ActionInv'
  <2>1. actions[m] \in Signed /\ actions[m] # Nothing
    BY <1>4 DEF ApproveAction, ExecuteAction, CancelAction, ActionInv, Nothing
  <2>2. CASE ApproveAction(s, m)
    <3> DEFINE new == [actions[m] EXCEPT !.approvals = actions[m].approvals \cup {s},
                          !.state = IF Reached(Cardinality(actions[m].approvals \cup {s}))
                                    THEN "Executed" ELSE @]
    <3>1. new \in Signed BY <2>1 DEF Signed
    <3>2. actions' = [actions EXCEPT ![m] = new] BY <2>2, <2>1 DEF ApproveAction, Signed
    <3>3. UNCHANGED <<multisig, actionCount>> BY <2>2 DEF ApproveAction
    <3> HIDE DEF new
    <3> QED BY <1>3, <2>1, <3>1, <3>2, <3>3
  <2>3. CASE ExecuteAction(s, m)
    <3>1. [actions[m] EXCEPT !.state = "Executed"] \in Signed BY <2>1 DEF Signed
    <3> QED BY <1>3, <2>1, <2>3, <3>1 DEF ExecuteAction
  <2>4. CASE CancelAction(s, m)
    <3>1. [actions[m] EXCEPT !.state = "Cancelled"] \in Signed BY <2>1 DEF Signed
    <3> QED BY <1>3, <2>1, <2>4, <3>1 DEF CancelAction
  <2> QED BY <1>4, <2>2, <2>3, <2>4
<1>5. ASSUME NEW signers \in SUBSET Account, NEW n \in 1..Cardinality(Account),
             ConfigureMultisig(signers, n)
      PROVE ActionInv'
  <2>1. multisig' = [signers |-> signers, threshold |-> n] /\ UNCHANGED <<actions, actionCount>>
    BY <1>5 DEF ConfigureMultisig
  <2> QED BY <2>1 DEF ActionInv
<1> QED BY <1>1, <1>2, <1>4, <1>5, ActionFrame

-----------------------------------------------------------------------------
(* Proposals.                                                              *)

ballotVars == <<now, proposals, proposalCount, ballots, typeQueue>>

LEMMA ProposalFrame ==
    ASSUME AdminStep
    PROVE  \/ UNCHANGED ballotVars
           \/ Tick
           \/ \E type \in Types, start, end, eta \in now..MaxTime, supply \in Supplies :
                 \E effect \in Payload(type) : CreateProposal(type, effect, start, end, eta, supply)
           \/ \E p \in ProposalId :
                 \/ \E a \in Account, choice \in Choice : Vote(a, p, choice)
                 \/ Finalize(p) \/ QueueProposal(p) \/ Enqueue(p) \/ Execute(p)
                 \/ \E a \in Account : Cancel(a, p)
<1> USE DEF ballotVars, proposalVars
<1>1. CASE Announces
  BY <1>1 DEF Announces, Schedule, ProposeAction
<1>2. CASE Proceeds
  <2>1. ASSUME NEW c, ExecuteChange(c) \/ CancelChange(c) PROVE UNCHANGED ballotVars
    BY <2>1 DEF ExecuteChange, CancelChange
  <2>2. ASSUME NEW s, NEW m, ApproveAction(s, m) \/ ExecuteAction(s, m) \/ CancelAction(s, m)
        PROVE UNCHANGED ballotVars
    BY <2>2 DEF ApproveAction, ExecuteAction, CancelAction
  <2> QED BY <1>2, <2>1, <2>2 DEF Proceeds
<1>3. CASE Intervenes
  BY <1>3 DEF Intervenes, ConfigureMultisig, SetPaused, UpdatePolicy, SetConfig, TransferAdmin,
     ProposeAdmin, AcceptAdmin, CancelAdmin
<1>4. CASE PolicyStep BY <1>4 DEF PolicyStep
<1>5. CASE UNCHANGED adminVars BY <1>5 DEF adminVars
<1> QED BY <1>1, <1>2, <1>3, <1>4, <1>5 DEF AdminStep, AdminNext

LEMMA ProposalFields ==
    ASSUME ProposalTypes, NEW p \in ProposalId, proposals[p] # Nothing
    PROVE  /\ proposals[p] \in Proposal
           /\ proposals[p].state \in States /\ proposals[p].type \in ActionType
           /\ {proposals[p].createdAt, proposals[p].end, proposals[p].eta,
               proposals[p].for, proposals[p].against, proposals[p].abstain} \subseteq Nat
BY DEF ProposalTypes, Proposal

LEMMA VotersFinite ==
    ASSUME NEW p, NEW choice
    PROVE  IsFiniteSet(Voters(p, choice)) /\ Cardinality(Voters(p, choice)) \in Nat
BY FactoryAdminAssumption, FS_Subset, FS_CardinalityType DEF Voters

(* A step that only takes proposal p to another state.                     *)
LEMMA StateChange ==
    ASSUME ProposalInv, NEW p \in ProposalId, proposals[p] # Nothing, NEW s \in States,
           proposals' = [proposals EXCEPT ![p].state = s],
           UNCHANGED <<now, proposalCount, ballots>>,
           s \in {"Queued", "Executed"} => proposals[p].for > proposals[p].against,
           s = "Executed" => now >= proposals[p].eta
    PROVE  /\ proposals' \in [ProposalId -> Proposal \cup {Nothing}]
           /\ SlotsFree' /\ ProposalsSound'
<1> USE DEF ProposalInv
<1> DEFINE new == [proposals[p] EXCEPT !.state = s]
<1>1. proposals[p] \in Proposal BY ProposalFields
<1>2. new \in Proposal /\ new.state = s /\ new.for = proposals[p].for
      /\ new.against = proposals[p].against /\ new.createdAt = proposals[p].createdAt
      /\ new.end = proposals[p].end /\ new.eta = proposals[p].eta
  BY <1>1 DEF Proposal
<1>3. new # Nothing BY <1>2, NothingIsNone
<1>4. proposals' = [proposals EXCEPT ![p] = new] OBVIOUS
<1> HIDE DEF new
<1>5. proposals'[p] = new /\ \A q \in ProposalId : q # p => proposals'[q] = proposals[q]
  BY <1>4 DEF ProposalTypes
<1>6. proposals' \in [ProposalId -> Proposal \cup {Nothing}] BY <1>2, <1>4 DEF ProposalTypes
<1>7. SlotsFree' BY <1>3, <1>5 DEF SlotsFree
<1>8. \A q, c : Voters(q, c)' = Voters(q, c) BY DEF Voters
<1>9. ASSUME NEW q \in ProposalId, proposals'[q] # Nothing PROVE ProposalSound(q)'
  <2>1. CASE q = p
    <3>1. ProposalSound(p) BY DEF ProposalsSound
    <3> QED BY <1>2, <1>5, <1>8, <2>1, <3>1 DEF ProposalSound
  <2>2. CASE q # p
    <3>1. proposals'[q] = proposals[q] BY <1>5, <2>2
    <3>2. ProposalSound(q) BY <1>9, <3>1 DEF ProposalsSound
    <3> QED BY <1>8, <3>1, <3>2 DEF ProposalSound
  <2> QED BY <2>1, <2>2
<1> QED BY <1>6, <1>7, <1>9 DEF ProposalsSound

(* A step that takes no proposal out of Queued leaves the queues sound.    *)
LEMMA QueuesStand ==
    ASSUME ProposalInv, UNCHANGED typeQueue, NEW p, p \in ProposalId => proposals[p].state # "Queued",
           \A q \in ProposalId : q # p => proposals'[q] = proposals[q]
    PROVE  QueuesSound'
<1> SUFFICES ASSUME NEW t \in ActionType
             PROVE  /\ IsInjective(typeQueue[t])
                    /\ \A q \in Range(typeQueue[t]) :
                          proposals'[q].state = "Queued" /\ proposals'[q].type = t
  BY DEF QueuesSound
<1>1. typeQueue[t] \in Seq(ProposalId) BY DEF ProposalInv, ProposalTypes
<1>2. \A q \in Range(typeQueue[t]) : q \in ProposalId
  BY <1>1, LenProperties, ElementOfSeq DEF Range
<1>3. \A q \in Range(typeQueue[t]) : q # p BY <1>2 DEF ProposalInv, QueuesSound
<1> QED BY <1>2, <1>3 DEF ProposalInv, QueuesSound

(* Proposal p leaves its queue and goes to state s.                        *)
LEMMA QueuesDequeue ==
    ASSUME ProposalInv, NEW p \in ProposalId, proposals[p] # Nothing, Dequeue(p),
           \A q \in ProposalId : q # p => proposals'[q] = proposals[q]
    PROVE  typeQueue' \in [ActionType -> Seq(ProposalId)] /\ QueuesSound'
<1> DEFINE k == proposals[p].type
<1>1. k \in ActionType BY ProposalFields DEF ProposalInv
<1>2. typeQueue[k] \in Seq(ProposalId) /\ IsInjective(typeQueue[k])
  BY <1>1 DEF ProposalInv, ProposalTypes, QueuesSound
<1>3. /\ Without(p, typeQueue[k]) \in Seq(ProposalId) /\ IsInjective(Without(p, typeQueue[k]))
      /\ Range(Without(p, typeQueue[k])) = Range(typeQueue[k]) \ {p}
  BY <1>2, WithoutProperties
<1>4. typeQueue' = [typeQueue EXCEPT ![k] = Without(p, typeQueue[k])] BY DEF Dequeue, Queue
<1> HIDE DEF k
<1>5. typeQueue'[k] = Without(p, typeQueue[k])
      /\ \A t \in ActionType : t # k => typeQueue'[t] = typeQueue[t]
  BY <1>1, <1>4 DEF ProposalInv, ProposalTypes
<1>6. typeQueue' \in [ActionType -> Seq(ProposalId)]
  BY <1>1, <1>3, <1>4 DEF ProposalInv, ProposalTypes
<1>7. ASSUME NEW t \in ActionType
      PROVE  /\ IsInjective(typeQueue'[t])
             /\ \A q \in Range(typeQueue'[t]) :
                   proposals'[q].state = "Queued" /\ proposals'[q].type = t
  <2>0. IsInjective(typeQueue'[t]) BY <1>3, <1>5 DEF ProposalInv, QueuesSound
  <2>1. ASSUME NEW q \in Range(typeQueue'[t])
        PROVE proposals'[q].state = "Queued" /\ proposals'[q].type = t
    <3>1. q \in Range(typeQueue[t]) BY <1>3, <1>5
    <3>2. q # p
      <4>1. CASE t = k BY <1>3, <1>5, <4>1
      <4>2. CASE t # k BY <3>1, <4>2 DEF k, ProposalInv, QueuesSound
      <4> QED BY <4>1, <4>2
    <3>3. typeQueue[t] \in Seq(ProposalId) BY DEF ProposalInv, ProposalTypes
    <3>4. q \in ProposalId BY <3>1, <3>3, LenProperties, ElementOfSeq DEF Range
    <3> QED BY <3>1, <3>2, <3>4 DEF ProposalInv, QueuesSound
  <2> QED BY <2>0, <2>1
<1> QED BY <1>6, <1>7 DEF QueuesSound

LEMMA CreateStep ==
    ASSUME ProposalInv, SettingsInv, NEW type \in Types,
           NEW start \in now..MaxTime, NEW end \in now..MaxTime, NEW eta \in now..MaxTime,
           NEW supply \in Supplies, NEW effect \in Payload(type),
           CreateProposal(type, effect, start, end, eta, supply)
    PROVE  ProposalInv'
<1> USE DEF ProposalInv
<1> DEFINE new == [state |-> "Created", type |-> type, effect |-> effect,
                   proposer |-> settings.admin, createdAt |-> now,
                   start |-> start, end |-> end, eta |-> eta, supply |-> supply,
                   for |-> 0, against |-> 0, abstain |-> 0]
           p == proposalCount
<1>1. now \in Nat /\ p \in Nat /\ p < MaxProposals BY DEF ProposalTypes, CreateProposal
<1>2. p \in ProposalId BY <1>1, FactoryAdminAssumption DEF ProposalId
<1>3. type \in ActionType /\ effect \in Effects /\ supply \in Nat /\ settings.admin \in Account
  BY FactoryAdminAssumption DEF Effects, SettingsInv
<1>4. start \in Nat /\ end \in Nat /\ eta \in Nat BY <1>1, FactoryAdminAssumption
<1>5. new \in Proposal BY <1>1, <1>3, <1>4 DEF Proposal, States
<1>6. now < end /\ end + MinTimelock <= eta
  BY <1>1, <1>4, FactoryAdminAssumption DEF CreateProposal
<1>7. proposals' = [proposals EXCEPT ![p] = new] /\ proposalCount' = p + 1
      /\ UNCHANGED <<now, ballots, typeQueue>>
  BY DEF CreateProposal
<1>8. new # Nothing BY <1>5, NothingIsNone
<1>9. new.for = 0 /\ new.against = 0 /\ new.createdAt = now /\ new.end = end /\ new.eta = eta
      /\ new.state = "Created"
  OBVIOUS
<1> HIDE DEF new
<1>10. proposals'[p] = new /\ \A q \in ProposalId : q # p => proposals'[q] = proposals[q]
  BY <1>2, <1>7 DEF ProposalTypes
<1>11. proposals[p] = Nothing /\ \A a \in Account : ballots[p][a] = "None"
  BY <1>1, <1>2 DEF SlotsFree
<1>12. ProposalTypes'
  <2>1. proposals' \in [ProposalId -> Proposal \cup {Nothing}] BY <1>5, <1>7 DEF ProposalTypes
  <2> QED BY <1>1, <1>7, <2>1 DEF ProposalTypes
<1>13. SlotsFree'
  <2>1. \A q \in ProposalId : q \in Int BY DEF ProposalId
  <2> QED BY <1>1, <1>7, <1>8, <1>10, <2>1 DEF SlotsFree
<1>14. \A q, c : Voters(q, c)' = Voters(q, c) BY <1>7 DEF Voters
<1>15. ProposalsSound'
  <2> SUFFICES ASSUME NEW q \in ProposalId, proposals'[q] # Nothing PROVE ProposalSound(q)'
    BY DEF ProposalsSound
  <2>1. CASE q = p
    <3>1. Voters(p, "For") = {} /\ Voters(p, "Against") = {} BY <1>11 DEF Voters
    <3>2. Cardinality({}) = 0 BY FS_EmptySet
    <3> QED BY <1>6, <1>9, <1>10, <1>14, <2>1, <3>1, <3>2 DEF ProposalSound
  <2>2. CASE q # p
    <3>1. proposals'[q] = proposals[q] BY <1>10, <2>2
    <3>2. ProposalSound(q) BY <3>1 DEF ProposalsSound
    <3> QED BY <1>7, <1>14, <3>1, <3>2 DEF ProposalSound
  <2> QED BY <2>1, <2>2
<1>16. proposals[p].state # "Queued" BY <1>11 DEF Nothing
<1>17. QueuesSound' BY <1>7, <1>10, <1>16, QueuesStand
<1> QED BY <1>12, <1>13, <1>15, <1>17

LEMMA VoteStep ==
    ASSUME ProposalInv, NEW a \in Account, NEW p \in ProposalId, NEW choice \in Choice,
           Vote(a, p, choice)
    PROVE  ProposalInv'
<1> USE DEF ProposalInv
<1> DEFINE new == Tallied(p, choice)
           up(c) == IF c = choice THEN 1 ELSE 0
<1>1. proposals[p].state \in {"Created", "Active"} /\ ballots[p][a] = "None"
      /\ proposals' = [proposals EXCEPT ![p] = new]
      /\ ballots' = [ballots EXCEPT ![p][a] = choice]
      /\ UNCHANGED <<now, proposalCount, typeQueue>>
  BY DEF Vote
<1>2. proposals[p] # Nothing BY <1>1 DEF Nothing
<1>3. proposals[p] \in Proposal BY <1>2, ProposalFields
<1>4. /\ new \in Proposal /\ new.state = "Active"
      /\ new.for = proposals[p].for + up("For")
      /\ new.against = proposals[p].against + up("Against")
      /\ new.createdAt = proposals[p].createdAt /\ new.end = proposals[p].end
      /\ new.eta = proposals[p].eta
  <2> DEFINE counted == [proposals[p] EXCEPT !.state = "Active"]
  <2>1. /\ counted \in Proposal /\ counted.state = "Active"
        /\ counted.for = proposals[p].for /\ counted.against = proposals[p].against
        /\ counted.createdAt = proposals[p].createdAt /\ counted.end = proposals[p].end
        /\ counted.eta = proposals[p].eta
    BY <1>3 DEF Proposal, States
  <2>2. new = CASE choice = "For" -> [counted EXCEPT !.for = @ + 1]
                [] choice = "Against" -> [counted EXCEPT !.against = @ + 1]
                [] choice = "Abstain" -> [counted EXCEPT !.abstain = @ + 1]
    BY DEF Tallied
  <2> HIDE DEF counted, new
  <2>3. CASE choice = "For"
    <3>1. new = [counted EXCEPT !.for = counted.for + 1] BY <2>2, <2>3
    <3> QED BY <2>1, <2>3, <3>1 DEF Proposal
  <2>4. CASE choice = "Against"
    <3>1. new = [counted EXCEPT !.against = counted.against + 1] BY <2>2, <2>4
    <3> QED BY <2>1, <2>4, <3>1 DEF Proposal
  <2>5. CASE choice = "Abstain"
    <3>1. new = [counted EXCEPT !.abstain = counted.abstain + 1] BY <2>2, <2>5
    <3> QED BY <2>1, <2>5, <3>1 DEF Proposal
  <2> QED BY <2>3, <2>4, <2>5 DEF Choice
<1>5. new # Nothing BY <1>4, NothingIsNone
<1> HIDE DEF new
<1>6. proposals'[p] = new /\ \A q \in ProposalId : q # p => proposals'[q] = proposals[q]
  BY <1>1 DEF ProposalTypes
<1>7. /\ ballots'[p][a] = choice /\ \A b \in Account : b # a => ballots'[p][b] = ballots[p][b]
      /\ \A q \in ProposalId : q # p => ballots'[q] = ballots[q]
      /\ ballots' \in [ProposalId -> [Account -> Choice \cup {"None"}]]
  BY <1>1 DEF ProposalTypes
<1>8. ProposalTypes' BY <1>1, <1>4, <1>7 DEF ProposalTypes
<1>9. SlotsFree' BY <1>1, <1>2, <1>5, <1>6, <1>7 DEF SlotsFree
<1>10. ASSUME NEW c \in {"For", "Against"}
       PROVE Cardinality(Voters(p, c))' = Cardinality(Voters(p, c)) + up(c)
  <2>1. CASE c = choice
    <3>1. Voters(p, c)' = Voters(p, c) \cup {a} BY <1>7, <2>1 DEF Voters
    <3>2. a \notin Voters(p, c) BY <1>1 DEF Voters
    <3> QED BY <2>1, <3>1, <3>2, VotersFinite, FS_AddElement
  <2>2. CASE c # choice
    <3>1. Voters(p, c)' = Voters(p, c) BY <1>1, <1>7, <2>2 DEF Voters
    <3> QED BY <2>2, <3>1, VotersFinite
  <2> QED BY <2>1, <2>2
<1>11. ProposalsSound'
  <2> SUFFICES ASSUME NEW q \in ProposalId, proposals'[q] # Nothing PROVE ProposalSound(q)'
    BY DEF ProposalsSound
  <2>1. CASE q = p
    <3>1. ProposalSound(p) BY <1>2 DEF ProposalsSound
    <3>2. proposals'[p].for = Cardinality(Voters(p, "For"))'
          /\ proposals'[p].against = Cardinality(Voters(p, "Against"))'
      BY <1>4, <1>6, <1>10, <3>1 DEF ProposalSound
    <3> QED BY <1>4, <1>6, <2>1, <3>1, <3>2 DEF ProposalSound
  <2>2. CASE q # p
    <3>1. proposals'[q] = proposals[q] BY <1>6, <2>2
    <3>2. ProposalSound(q) BY <3>1 DEF ProposalsSound
    <3>3. \A c : Voters(q, c)' = Voters(q, c) BY <1>7, <2>2 DEF Voters
    <3> QED BY <1>1, <3>1, <3>2, <3>3 DEF ProposalSound
  <2> QED BY <2>1, <2>2
<1>12. QueuesSound' BY <1>1, <1>6, QueuesStand
<1> QED BY <1>8, <1>9, <1>11, <1>12

LEMMA OutcomeKnown ==
    ASSUME ProposalTypes, NEW p \in ProposalId, proposals[p] # Nothing
    PROVE  Outcome(p) \in States /\ (Undecided(p) => Outcome(p) \notin {"Queued", "Executed"})
BY ProposalFields DEF Outcome, States, Undecided

LEMMA EnqueueStep ==
    ASSUME ProposalInv, NEW p \in ProposalId, Enqueue(p)
    PROVE  ProposalInv'
<1> USE DEF ProposalInv
<1> DEFINE k == proposals[p].type
<1>1. proposals[p].state = "Queued" /\ ~IsIn(p, typeQueue[k])
      /\ typeQueue' = [typeQueue EXCEPT ![k] = Append(typeQueue[k], p)]
      /\ UNCHANGED <<now, proposals, proposalCount, ballots>>
  BY DEF Enqueue, Queue
<1>2. k \in ActionType BY <1>1, ProposalFields DEF Nothing
<1>3. typeQueue[k] \in Seq(ProposalId) /\ IsInjective(typeQueue[k])
  BY <1>2 DEF ProposalTypes, QueuesSound
<1>4. /\ Append(typeQueue[k], p) \in Seq(ProposalId) /\ IsInjective(Append(typeQueue[k], p))
      /\ Range(Append(typeQueue[k], p)) = Range(typeQueue[k]) \cup {p}
  BY <1>1, <1>3, AppendedProperties
<1>5. ProposalTypes' BY <1>1, <1>2, <1>4 DEF ProposalTypes
<1>6. SlotsFree' BY <1>1 DEF SlotsFree
<1>7. \A q, c : Voters(q, c)' = Voters(q, c) BY <1>1 DEF Voters
<1>8. ProposalsSound' BY <1>1, <1>7 DEF ProposalsSound, ProposalSound
<1>9. proposals[p].type = k OBVIOUS
<1> HIDE DEF k
<1>10. typeQueue'[k] = Append(typeQueue[k], p)
       /\ \A t \in ActionType : t # k => typeQueue'[t] = typeQueue[t]
  BY <1>1, <1>2 DEF ProposalTypes
<1>11. QueuesSound' BY <1>1, <1>4, <1>9, <1>10 DEF QueuesSound
<1> QED BY <1>5, <1>6, <1>8, <1>11

LEMMA ProposalStep ==
    ASSUME Administered, AdminStep
    PROVE  ProposalInv'
<1> USE DEF Administered
<1>1. CASE UNCHANGED ballotVars
  <2>1. \A q, c : Voters(q, c)' = Voters(q, c) BY <1>1 DEF Voters, ballotVars
  <2> QED BY <1>1, <2>1 DEF ballotVars, ProposalInv, ProposalTypes, SlotsFree, ProposalsSound,
          ProposalSound, QueuesSound
<1>2. CASE Tick
  <2>1. now \in Nat /\ now' = now + 1 /\ UNCHANGED <<proposals, proposalCount, ballots, typeQueue>>
    BY <1>2 DEF Tick, proposalVars, ProposalInv, ProposalTypes
  <2>2. \A q, c : Voters(q, c)' = Voters(q, c) BY <2>1 DEF Voters
  <2>3. ProposalsSound'
    <3> SUFFICES ASSUME NEW q \in ProposalId, proposals[q] # Nothing PROVE ProposalSound(q)'
      BY <2>1 DEF ProposalsSound
    <3>1. ProposalSound(q) BY DEF ProposalInv, ProposalsSound
    <3>2. proposals[q].eta \in Nat BY ProposalFields DEF ProposalInv
    <3> QED BY <2>1, <2>2, <3>1, <3>2 DEF ProposalSound
  <2> QED BY <2>1, <2>3 DEF ProposalInv, ProposalTypes, SlotsFree, QueuesSound
<1>3. ASSUME NEW p \in ProposalId, Finalize(p) PROVE ProposalInv'
  <2>1. proposals[p] # Nothing /\ proposals[p].state # "Queued" /\ Undecided(p)
    BY <1>3 DEF Finalize, Undecided, Nothing
  <2>2. Outcome(p) \in States \ {"Queued", "Executed"} BY <2>1, OutcomeKnown DEF ProposalInv
  <2>3. proposals' = [proposals EXCEPT ![p].state = Outcome(p)]
        /\ UNCHANGED <<now, proposalCount, ballots, typeQueue>>
    BY <1>3 DEF Finalize
  <2>4. /\ proposals' \in [ProposalId -> Proposal \cup {Nothing}] /\ SlotsFree' /\ ProposalsSound'
    BY <2>1, <2>2, <2>3, StateChange
  <2>5. QueuesSound' BY <2>1, <2>3, QueuesStand DEF ProposalInv, ProposalTypes
  <2> QED BY <2>3, <2>4, <2>5 DEF ProposalInv, ProposalTypes
<1>4. ASSUME NEW p \in ProposalId, QueueProposal(p) PROVE ProposalInv'
  <2>1. proposals[p] # Nothing /\ proposals[p].for > proposals[p].against
        /\ proposals' = [proposals EXCEPT ![p].state = "Queued"]
        /\ UNCHANGED <<now, proposalCount, ballots, typeQueue>>
    BY <1>4 DEF QueueProposal
  <2>2. proposals[p].state # "Queued" BY <1>4 DEF QueueProposal, Outcome, Undecided
  <2>3. /\ proposals' \in [ProposalId -> Proposal \cup {Nothing}] /\ SlotsFree' /\ ProposalsSound'
    BY <2>1, StateChange DEF States
  <2>4. QueuesSound' BY <2>1, <2>2, QueuesStand DEF ProposalInv, ProposalTypes
  <2> QED BY <2>1, <2>3, <2>4 DEF ProposalInv, ProposalTypes
<1>5. ASSUME NEW p \in ProposalId, Execute(p) PROVE ProposalInv'
  <2>1. proposals[p].state = "Queued" /\ now >= proposals[p].eta /\ Dequeue(p)
        /\ proposals' = [proposals EXCEPT ![p].state = "Executed"]
        /\ UNCHANGED <<now, proposalCount, ballots>>
    BY <1>5 DEF Execute
  <2>2. proposals[p] # Nothing BY <2>1 DEF Nothing
  <2>3. ProposalSound(p) BY <2>2 DEF ProposalInv, ProposalsSound
  <2>4. /\ proposals' \in [ProposalId -> Proposal \cup {Nothing}] /\ SlotsFree' /\ ProposalsSound'
    BY <2>1, <2>2, <2>3, StateChange DEF States, ProposalSound
  <2>5. typeQueue' \in [ActionType -> Seq(ProposalId)] /\ QueuesSound'
    BY <2>1, <2>2, QueuesDequeue DEF ProposalInv, ProposalTypes
  <2> QED BY <2>1, <2>4, <2>5 DEF ProposalInv, ProposalTypes
<1>6. ASSUME NEW p \in ProposalId, NEW a \in Account, Cancel(a, p) PROVE ProposalInv'
  <2>1. proposals[p] # Nothing /\ Dequeue(p)
        /\ proposals' = [proposals EXCEPT ![p].state = "Cancelled"]
        /\ UNCHANGED <<now, proposalCount, ballots>>
    BY <1>6 DEF Cancel
  <2>2. /\ proposals' \in [ProposalId -> Proposal \cup {Nothing}] /\ SlotsFree' /\ ProposalsSound'
    BY <2>1, StateChange DEF States
  <2>3. typeQueue' \in [ActionType -> Seq(ProposalId)] /\ QueuesSound'
    BY <2>1, QueuesDequeue DEF ProposalInv, ProposalTypes
  <2> QED BY <2>1, <2>2, <2>3 DEF ProposalInv, ProposalTypes
<1> QED BY <1>1, <1>2, <1>3, <1>4, <1>5, <1>6, CreateStep, VoteStep, EnqueueStep, ProposalFrame

-----------------------------------------------------------------------------
(* The whole administration.                                               *)

LEMMA AdministeredInit == AdminInit => Administered
<1> SUFFICES ASSUME AdminInit PROVE Administered OBVIOUS
<1>1. SettingsInv
  BY DEF AdminInit, SettingsInv, Names, PendingAdminIsCurrent
<1>2. \A p \in ProposalId : proposals[p] = Nothing BY DEF AdminInit
<1>3. ProposalTypes
  <2>1. typeQueue \in [ActionType -> Seq(ProposalId)] BY EmptySeq DEF AdminInit
  <2> QED BY <2>1 DEF AdminInit, ProposalTypes
<1>4. SlotsFree /\ ProposalsSound BY <1>2 DEF AdminInit, SlotsFree, ProposalsSound
<1>5. QueuesSound
  <2>1. \A t \in ActionType : typeQueue[t] = <<>> BY DEF AdminInit
  <2>2. IsInjective(<<>>) /\ Range(<<>>) = {} BY DEF IsInjective, Range
  <2> QED BY <2>1, <2>2 DEF QueuesSound
<1>6. ChangeInv /\ ActionInv BY DEF AdminInit, ChangeInv, ActionInv
<1> QED BY <1>1, <1>3, <1>4, <1>5, <1>6 DEF Administered, ProposalInv

LEMMA StepsOfTheContract ==
    ASSUME [FactoryNext]_factoryVars
    PROVE  AdminStep
<1>1. CASE AdminNext BY <1>1 DEF AdminStep
<1>2. CASE TreasuryNext
  <2>1. CASE Withdraws BY <2>1 DEF Withdraws, WithdrawFees, QueueWithdrawal, AdminStep
  <2>2. CASE Settles BY <2>2 DEF Settles, CancelWithdrawal, ExecuteWithdrawal, AdminStep
  <2>3. CASE Regulates
    BY <2>3 DEF Regulates, SetDelay, SetAllowed, InitializePolicy, AdminStep, PolicyStep
  <2> QED BY <1>2, <2>1, <2>2, <2>3 DEF TreasuryNext
<1>3. CASE VaultNext
  <2>1. CASE Deposits BY <2>1 DEF Deposits, CreateVault, AdminStep
  <2>2. CASE Guards BY <2>2 DEF Guards, SetLimit, ResumeVaults, AdminStep
  <2>3. ASSUME NEW v \in VaultId, UsesVault(v) PROVE AdminStep
    BY <2>3 DEF UsesVault, ClaimVault, CancelVault, VerifyMilestone, ApproveOwner, ProposeOwner,
       AdminStep
  <2> QED BY <1>3, <2>1, <2>2, <2>3 DEF VaultNext
<1>4. CASE UNCHANGED factoryVars BY <1>4 DEF factoryVars, AdminStep
<1> QED BY <1>1, <1>2, <1>3, <1>4 DEF FactoryNext

LEMMA AdministeredStep == Administered /\ [FactoryNext]_factoryVars => Administered'
BY StepsOfTheContract, SettingsStep, ProposalStep, ChangeStep, ActionStep DEF Administered

(* The counters, tallies, queues and slots of the administration hold      *)
(* together in every state (timelock.rs, proposal_type_queue.rs, lib.rs).  *)
THEOREM AdministrationSound == FactorySpec => []Administered
<1>1. FactoryInit => Administered BY AdministeredInit DEF FactoryInit
<1> QED BY <1>1, AdministeredStep, PTL DEF FactorySpec

(* An executed proposal had more votes for than against, and its delay was *)
(* over, whatever the order of calls (timelock.rs:1172, 1434).             *)
THEOREM OnlyThePassedTakeEffect == FactorySpec => []PassedBeforeExecuted
<1>1. Administered => PassedBeforeExecuted
  <2> SUFFICES ASSUME Administered, NEW p \in ProposalId, proposals[p].state = "Executed"
               PROVE  /\ Cardinality(Voters(p, "For")) > Cardinality(Voters(p, "Against"))
                      /\ now >= proposals[p].end + MinTimelock
    BY DEF PassedBeforeExecuted
  <2>1. proposals[p] # Nothing BY DEF Nothing
  <2>2. ProposalSound(p) BY <2>1 DEF Administered, ProposalInv, ProposalsSound
  <2>3. proposals[p].end \in Nat /\ proposals[p].eta \in Nat /\ now \in Nat
    BY <2>1, ProposalFields DEF Administered, ProposalInv, ProposalTypes
  <2> QED BY <2>2, <2>3, FactoryAdminAssumption DEF ProposalSound
<1> QED BY <1>1, AdministrationSound, PTL

(* Whatever is enqueued, cancelled and executed in whatever order, a queue *)
(* holds proposals of its type that wait, each once                        *)
(* (proposal_type_queue.rs:74-167).                                        *)
THEOREM QueuesNeverBlock == FactorySpec => []TypeQueuesSound
<1>1. Administered => TypeQueuesSound
  <2> SUFFICES ASSUME Administered, NEW t \in ActionType, NEW k \in 1..Len(typeQueue[t])
               PROVE  /\ proposals[typeQueue[t][k]].state = "Queued"
                      /\ proposals[typeQueue[t][k]].type = t
                      /\ \A l \in 1..Len(typeQueue[t]) : l # k => typeQueue[t][l] # typeQueue[t][k]
    BY DEF TypeQueuesSound
  <2>1. typeQueue[t] \in Seq(ProposalId) BY DEF Administered, ProposalInv, ProposalTypes
  <2>2. DOMAIN typeQueue[t] = 1..Len(typeQueue[t]) BY <2>1, LenProperties
  <2>3. typeQueue[t][k] \in Range(typeQueue[t]) BY <2>2 DEF Range
  <2> QED BY <2>2, <2>3 DEF Administered, ProposalInv, QueuesSound, IsInjective
<1> QED BY <1>1, AdministrationSound, PTL

(* A change of admin by any path drops what the predecessor proposed, so   *)
(* only the present admin's choice can accept (lib.rs:585-700, 5320).      *)
THEOREM SuccessorsAreTheAdmins == FactorySpec => []PendingAdminIsCurrent
<1>1. Administered => PendingAdminIsCurrent BY DEF Administered, SettingsInv
<1> QED BY <1>1, AdministrationSound, PTL

-----------------------------------------------------------------------------
(* Verdicts, and what changes the fees and the treasury.                   *)

LEMMA DecidedProposals ==
    ASSUME Administered, AdminStep, NEW p \in ProposalId, proposals[p] # Nothing, ~Undecided(p)
    PROVE  /\ proposals'[p].state \in After(proposals[p].state)
           /\ proposals'[p] = [proposals[p] EXCEPT !.state = proposals'[p].state]
           /\ ballots'[p] = ballots[p]
<1> USE DEF Administered, ProposalInv
<1>1. proposals[p] \in Proposal /\ proposals[p].state \in States BY ProposalFields
<1>2. proposals[p].state \in After(proposals[p].state)
      /\ proposals[p] = [proposals[p] EXCEPT !.state = proposals[p].state]
  BY <1>1 DEF After, States, Undecided, Terminal, Proposal
<1>3. CASE proposals'[p] = proposals[p] /\ ballots'[p] = ballots[p]
  BY <1>2, <1>3
<1>4. ASSUME NEW s \in After(proposals[p].state), proposals' = [proposals EXCEPT ![p].state = s],
             ballots' = ballots
      PROVE  /\ proposals'[p].state \in After(proposals[p].state)
             /\ proposals'[p] = [proposals[p] EXCEPT !.state = proposals'[p].state]
             /\ ballots'[p] = ballots[p]
  <2>1. proposals'[p] = [proposals[p] EXCEPT !.state = s] BY <1>4 DEF ProposalTypes
  <2>2. proposals'[p].state = s BY <1>1, <2>1 DEF Proposal
  <2> QED BY <1>4, <2>1, <2>2
<1>5. CASE UNCHANGED ballotVars BY <1>3, <1>5 DEF ballotVars
<1>6. CASE Tick BY <1>3, <1>6 DEF Tick, proposalVars
<1>7. ASSUME NEW type, NEW start, NEW end, NEW eta, NEW supply, NEW effect,
             CreateProposal(type, effect, start, end, eta, supply)
      PROVE  proposals'[p] = proposals[p] /\ ballots'[p] = ballots[p]
  <2>1. p # proposalCount BY DEF SlotsFree, ProposalTypes
  <2> QED BY <1>7, <2>1 DEF CreateProposal, ProposalTypes
<1>8. ASSUME NEW q \in ProposalId, NEW a \in Account, NEW choice, Vote(a, q, choice)
      PROVE  proposals'[p] = proposals[p] /\ ballots'[p] = ballots[p]
  <2>1. q # p BY <1>8 DEF Vote, Undecided
  <2> QED BY <1>8, <2>1 DEF Vote, ProposalTypes
<1>9. ASSUME NEW q \in ProposalId, Finalize(q)
      PROVE  proposals'[p] = proposals[p] /\ ballots'[p] = ballots[p]
  <2>1. q # p BY <1>9 DEF Finalize
  <2> QED BY <1>9, <2>1 DEF Finalize, ProposalTypes
<1>10. ASSUME NEW q \in ProposalId, Enqueue(q)
       PROVE  proposals'[p] = proposals[p] /\ ballots'[p] = ballots[p]
  BY <1>10 DEF Enqueue
<1>11. ASSUME NEW q \in ProposalId, NEW s, q # p, proposals' = [proposals EXCEPT ![q].state = s],
              ballots' = ballots
       PROVE  proposals'[p] = proposals[p] /\ ballots'[p] = ballots[p]
  BY <1>11 DEF ProposalTypes
<1>12. CASE QueueProposal(p)
  <2>1. proposals[p].state = "Succeeded" BY <1>12 DEF QueueProposal, Outcome
  <2>2. "Queued" \in After("Succeeded") BY DEF After, Terminal
  <2>3. proposals' = [proposals EXCEPT ![p].state = "Queued"] /\ ballots' = ballots
    BY <1>12 DEF QueueProposal
  <2> QED BY <1>4, <2>1, <2>2, <2>3
<1>13. CASE Execute(p)
  <2>1. proposals[p].state = "Queued" BY <1>13 DEF Execute
  <2>2. "Executed" \in After("Queued") BY DEF After, Terminal
  <2>3. proposals' = [proposals EXCEPT ![p].state = "Executed"] /\ ballots' = ballots
    BY <1>13 DEF Execute
  <2> QED BY <1>4, <2>1, <2>2, <2>3
<1>14. ASSUME NEW a, Cancel(a, p) PROVE "Cancelled" \in After(proposals[p].state)
  BY <1>1, <1>14 DEF Cancel, After, States, Undecided, Terminal
<1>15. ASSUME NEW a, Cancel(a, p)
       PROVE  /\ proposals'[p].state \in After(proposals[p].state)
              /\ proposals'[p] = [proposals[p] EXCEPT !.state = proposals'[p].state]
              /\ ballots'[p] = ballots[p]
  BY <1>4, <1>14, <1>15 DEF Cancel
<1>16. ASSUME NEW q \in ProposalId, q # p,
              QueueProposal(q) \/ Execute(q) \/ \E a \in Account : Cancel(a, q)
       PROVE  proposals'[p] = proposals[p] /\ ballots'[p] = ballots[p]
  BY <1>11, <1>16 DEF QueueProposal, Execute, Cancel
<1> QED
  BY <1>3, <1>5, <1>6, <1>7, <1>8, <1>9, <1>10, <1>12, <1>13, <1>4, <1>15, <1>16, ProposalFrame

LEMMA ExecutedChangesStay ==
    ASSUME Administered, AdminStep, NEW c \in ChangeId, changes[c].state = "Executed"
    PROVE  changes'[c] = changes[c]
<1> USE DEF Administered, ChangeInv
<1>1. ASSUME NEW effect, Schedule(effect) PROVE changes'[c] = changes[c]
  <2>1. c # changeCount BY DEF Nothing
  <2> QED BY <1>1, <2>1 DEF Schedule
<1>2. ASSUME NEW d \in ChangeId, ExecuteChange(d) \/ CancelChange(d)
      PROVE changes'[c] = changes[c]
  <2>1. d # c BY <1>2 DEF ExecuteChange, CancelChange
  <2> QED BY <1>2, <2>1 DEF ExecuteChange, CancelChange
<1> QED BY <1>1, <1>2, ChangeFrame DEF changeVars

LEMMA FinishedActionsStay ==
    ASSUME Administered, AdminStep, NEW m \in ActionId,
           actions[m].state \in {"Executed", "Cancelled"}
    PROVE  actions'[m] = actions[m]
<1> USE DEF Administered, ActionInv
<1>1. ASSUME NEW s, NEW effect, ProposeAction(s, effect) PROVE actions'[m] = actions[m]
  <2>1. m # actionCount BY DEF Nothing
  <2> QED BY <1>1, <2>1 DEF ProposeAction
<1>2. ASSUME NEW s, NEW k \in ActionId, ApproveAction(s, k) \/ ExecuteAction(s, k) \/ CancelAction(s, k)
      PROVE actions'[m] = actions[m]
  <2>1. k # m BY <1>2 DEF ApproveAction, ExecuteAction, CancelAction
  <2> QED BY <1>2, <2>1 DEF ApproveAction, ExecuteAction, CancelAction
<1>3. ASSUME NEW signers, NEW n, ConfigureMultisig(signers, n) PROVE actions'[m] = actions[m]
  BY <1>3 DEF ConfigureMultisig
<1> QED BY <1>1, <1>2, <1>3, ActionFrame DEF multisigVars

(* A verdict, an executed change and a finished action stay as they are,   *)
(* whoever is admin or signer by then (timelock.rs:287, 1271; lib.rs:5170).*)
THEOREM VerdictsHold == FactorySpec => DecidedStands
<1> DEFINE Kept ==
      /\ \A p \in ProposalId : proposals[p] # Nothing /\ ~Undecided(p) =>
            /\ proposals'[p].state \in After(proposals[p].state)
            /\ proposals'[p] = [proposals[p] EXCEPT !.state = proposals'[p].state]
            /\ ballots'[p] = ballots[p]
      /\ \A c \in ChangeId : changes[c].state = "Executed" => changes'[c] = changes[c]
      /\ \A m \in ActionId :
            actions[m].state \in {"Executed", "Cancelled"} => actions'[m] = actions[m]
<1>1. Administered /\ [FactoryNext]_factoryVars => [Kept]_factoryVars
  BY StepsOfTheContract, DecidedProposals, ExecutedChangesStay, FinishedActionsStay
<1> QED BY <1>1, AdministrationSound, PTL DEF FactorySpec, DecidedStands

LEMMA EffectsAnnounced ==
    ASSUME Administered, AdminStep,
           <<settings.baseFee, settings.metadataFee, settings.treasury>>' #
           <<settings.baseFee, settings.metadataFee, settings.treasury>>
    PROVE  \/ \E p \in ProposalId : Carried(p) /\ proposals[p].createdAt + MinTimelock < now
           \/ \E c \in ChangeId : Matured(c) /\ changes[c].scheduledAt + ChangeDelay <= now
           \/ \E m \in ActionId : CarriedOut(m)
                 /\ Cardinality(actions'[m].approvals) >= multisig.threshold
<1> USE DEF Administered
<1> DEFINE watched == <<settings.baseFee, settings.metadataFee, settings.treasury>>
<1>1. ASSUME NEW e, Apply(e), DOMAIN e \cap {"baseFee", "metadataFee", "treasury"} = {}
      PROVE watched' = watched
  BY <1>1 DEF Apply, SettingsInv, Names
<1>2. ASSUME NEW p \in ProposalId, Execute(p)
      PROVE Carried(p) /\ proposals[p].createdAt + MinTimelock < now
  <2>1. proposals[p].state = "Queued" /\ now >= proposals[p].eta
        /\ proposals' = [proposals EXCEPT ![p].state = "Executed"]
    BY <1>2 DEF Execute
  <2>2. proposals[p] # Nothing BY <2>1 DEF Nothing
  <2>3. proposals[p] \in Proposal /\ ProposalSound(p)
    BY <2>2, ProposalFields DEF ProposalInv, ProposalsSound
  <2>4. proposals'[p] = [proposals[p] EXCEPT !.state = "Executed"]
    BY <2>1 DEF ProposalInv, ProposalTypes
  <2>5. proposals'[p].state = "Executed" BY <2>3, <2>4 DEF Proposal
  <2>6. now \in Nat /\ {proposals[p].createdAt, proposals[p].end, proposals[p].eta} \subseteq Nat
    BY <2>2, ProposalFields DEF ProposalInv, ProposalTypes
  <2>7. proposals[p].createdAt + MinTimelock < now
    BY <2>1, <2>3, <2>6, FactoryAdminAssumption DEF ProposalSound
  <2> QED BY <2>1, <2>5, <2>7 DEF Carried
<1>3. ASSUME NEW c \in ChangeId, ExecuteChange(c)
      PROVE Matured(c) /\ changes[c].scheduledAt + ChangeDelay <= now
  <2>1. changes[c] \in Change /\ changes[c] # Nothing
    BY <1>3 DEF ExecuteChange, ChangeInv, Nothing
  <2>2. changes[c].state = "Pending" /\ now >= changes[c].executeAt
        /\ changes'[c] = [changes[c] EXCEPT !.state = "Executed"]
    BY <1>3 DEF ExecuteChange, ChangeInv
  <2>3. changes'[c].state = "Executed" BY <2>1, <2>2 DEF Change
  <2>4. now \in Nat /\ {changes[c].scheduledAt, changes[c].executeAt} \subseteq Nat
    BY <2>1 DEF Change, ProposalInv, ProposalTypes
  <2>5. changes[c].scheduledAt + ChangeDelay <= changes[c].executeAt BY <2>1 DEF ChangeInv
  <2>6. changes[c].scheduledAt + ChangeDelay <= now
    BY <2>2, <2>4, <2>5, FactoryAdminAssumption
  <2> QED BY <2>2, <2>3, <2>6 DEF Matured
<1>4. ASSUME NEW s \in Account, NEW m \in ActionId, ApproveAction(s, m) \/ ExecuteAction(s, m),
             watched' # watched
      PROVE CarriedOut(m) /\ Cardinality(actions'[m].approvals) >= multisig.threshold
  <2>1. actions[m] \in Signed BY <1>4 DEF ApproveAction, ExecuteAction, ActionInv, Nothing
  <2>2. CASE ApproveAction(s, m)
    <3> DEFINE approvals == actions[m].approvals \cup {s}
    <3>1. actions[m].state = "Pending"
          /\ actions' = [actions EXCEPT ![m].approvals = approvals,
                ![m].state = IF Reached(Cardinality(approvals)) THEN "Executed" ELSE @]
          /\ (~Reached(Cardinality(approvals)) => UNCHANGED settings)
      BY <2>2 DEF ApproveAction
    <3>2. Reached(Cardinality(approvals)) BY <1>4, <3>1
    <3> HIDE DEF approvals
    <3>3. actions'[m] = [actions[m] EXCEPT !.approvals = approvals, !.state = "Executed"]
      BY <2>1, <3>1, <3>2 DEF ActionInv, Signed
    <3>4. actions'[m].state = "Executed" /\ actions'[m].approvals = approvals
      BY <2>1, <3>3 DEF Signed
    <3> QED BY <3>1, <3>2, <3>4 DEF CarriedOut, Reached
  <2>3. CASE ExecuteAction(s, m)
    <3>1. actions[m].state = "Pending" /\ Reached(Cardinality(actions[m].approvals))
          /\ actions'[m] = [actions[m] EXCEPT !.state = "Executed"]
      BY <2>3 DEF ExecuteAction, ActionInv
    <3>2. actions'[m].state = "Executed" /\ actions'[m].approvals = actions[m].approvals
      BY <2>1, <3>1 DEF Signed
    <3> QED BY <3>1, <3>2 DEF CarriedOut, Reached
  <2> QED BY <1>4, <2>2, <2>3
<1>5. ASSUME NEW paused, SetPaused(paused) PROVE watched' = watched BY <1>1, <1>5 DEF SetPaused
<1>6. ASSUME NEW policy, Apply([policy |-> policy]) PROVE watched' = watched BY <1>1, <1>6
<1>7. ASSUME NEW a, TransferAdmin(a) PROVE watched' = watched BY <1>1, <1>7 DEF TransferAdmin
<1>8. ASSUME NEW a, ProposeAdmin(a) PROVE watched' = watched BY <1>8 DEF ProposeAdmin
<1>9. AcceptAdmin => watched' = watched BY <1>1 DEF AcceptAdmin
<1>10. CancelAdmin => watched' = watched BY DEF CancelAdmin
<1>11. UNCHANGED settings => watched' = watched OBVIOUS
<1> HIDE DEF watched
<1>12. watched' # watched BY DEF watched
<1> QED BY <1>2, <1>3, <1>4, <1>5, <1>6, <1>7, <1>8, <1>9, <1>10, <1>11, <1>12, SettingsFrame

(* Fees and treasury change only by what was announced its delay earlier   *)
(* or carries the signers' approval: no other call reaches them            *)
(* (timelock.rs:283, 1434; lib.rs:5320).                                   *)
THEOREM FeesChangeAsAnnounced == FactorySpec => NothingUnannounced
<1> DEFINE Watched == <<settings.baseFee, settings.metadataFee, settings.treasury>>
           Announced ==
             \/ \E p \in ProposalId : Carried(p) /\ proposals[p].createdAt + MinTimelock < now
             \/ \E c \in ChangeId : Matured(c) /\ changes[c].scheduledAt + ChangeDelay <= now
             \/ \E m \in ActionId : CarriedOut(m)
                   /\ Cardinality(actions'[m].approvals) >= multisig.threshold
<1>1. Administered /\ [FactoryNext]_factoryVars =>
        [Watched' # Watched => Announced]_factoryVars
  BY StepsOfTheContract, EffectsAnnounced
<1> QED BY <1>1, AdministrationSound, PTL DEF FactorySpec, NothingUnannounced

-----------------------------------------------------------------------------
(* Vaults.                                                                 *)

Vault ==
    [state : {"Active", "Claimed", "Cancelled"}, creator : Account, owner : Account,
     total : Nat \ {0}, claimed : Nat, unlock : Nat, milestone : BOOLEAN,
     verifier : Account \cup {Nobody}, verified : BOOLEAN]

OwnerChange == [to : Account, byOwner : BOOLEAN, byCreator : BOOLEAN]

(* A free slot carries nothing over to the vault that will take it.        *)
SlotUnused(v) == vaults[v] = Nothing /\ paidOut[v] = 0 /\ ownerChange[v] = NoChange

VaultSound(v) ==
    /\ paidOut[v] = vaults[v].claimed
    /\ paidOut[v] = IF vaults[v].state = "Claimed" THEN vaults[v].total ELSE 0
    /\ ownerChange[v].byOwner => <<vaults[v].owner, ownerChange[v].to>> \in consents[v]
    /\ ownerChange[v].byCreator => <<vaults[v].creator, ownerChange[v].to>> \in consents[v]

VaultInv ==
    /\ vaultCount \in Nat
    /\ vaults \in [VaultId -> Vault \cup {Nothing}]
    /\ ownerChange \in [VaultId -> OwnerChange \cup {NoChange}]
    /\ paidOut \in [VaultId -> Nat]
    /\ consents \in [VaultId -> SUBSET (Account \X Account)]
    /\ \A v \in VaultId : v >= vaultCount => SlotUnused(v)
    /\ \A v \in VaultId : vaults[v] # Nothing => VaultSound(v)

LEMMA VaultInvInit == VaultInit => VaultInv
<1> SUFFICES ASSUME VaultInit PROVE VaultInv OBVIOUS
<1> QED BY DEF VaultInit, VaultInv, SlotUnused

LEMMA OpenVault ==
    ASSUME VaultInv, NEW v \in VaultId, Open(v)
    PROVE  /\ vaults[v] # Nothing /\ vaults[v] \in Vault /\ VaultSound(v)
           /\ vaults[v].state = "Active" /\ ~(v >= vaultCount)
BY DEF Open, VaultInv, SlotUnused, Nothing

(* A call that touches one existing vault v.                               *)
LEMMA OneVault ==
    ASSUME VaultInv, NEW v \in VaultId, Open(v), UNCHANGED vaultCount,
           NEW r \in Vault, vaults' = [vaults EXCEPT ![v] = r],
           NEW c \in OwnerChange \cup {NoChange}, ownerChange' = [ownerChange EXCEPT ![v] = c],
           NEW n \in Nat, paidOut' = [paidOut EXCEPT ![v] = n],
           NEW g \in SUBSET (Account \X Account),
           consents' = [consents EXCEPT ![v] = g],
           n = r.claimed, n = IF r.state = "Claimed" THEN r.total ELSE 0,
           c.byOwner => <<r.owner, c.to>> \in g, c.byCreator => <<r.creator, c.to>> \in g
    PROVE  VaultInv'
<1>1. ~(v >= vaultCount) BY OpenVault
<1>2. /\ vaults'[v] = r /\ ownerChange'[v] = c /\ paidOut'[v] = n /\ consents'[v] = g
      /\ \A w \in VaultId : w # v =>
            /\ vaults'[w] = vaults[w] /\ ownerChange'[w] = ownerChange[w]
            /\ paidOut'[w] = paidOut[w] /\ consents'[w] = consents[w]
  BY DEF VaultInv
<1>3. /\ vaultCount' \in Nat /\ vaults' \in [VaultId -> Vault \cup {Nothing}]
      /\ ownerChange' \in [VaultId -> OwnerChange \cup {NoChange}] /\ paidOut' \in [VaultId -> Nat]
      /\ consents' \in [VaultId -> SUBSET (Account \X Account)]
  BY DEF VaultInv
<1>4. \A w \in VaultId : w >= vaultCount' => SlotUnused(w)'
  BY <1>1, <1>2 DEF VaultInv, SlotUnused
<1>5. ASSUME NEW w \in VaultId, vaults'[w] # Nothing PROVE VaultSound(w)'
  <2>1. CASE w = v BY <1>2, <2>1 DEF VaultSound
  <2>2. CASE w # v BY <1>2, <1>5, <2>2 DEF VaultInv, VaultSound
  <2> QED BY <2>1, <2>2
<1> QED BY <1>3, <1>4, <1>5 DEF VaultInv

LEMMA CreateVaultStep ==
    ASSUME VaultInv, NEW creator \in Account, NEW owner \in Account, NEW amount \in VaultAmounts,
           NEW unlock \in 0..MaxTime, NEW milestone \in BOOLEAN,
           NEW verifier \in Account \cup {Nobody},
           CreateVault(creator, owner, amount, unlock, milestone, verifier)
    PROVE  VaultInv'
<1> DEFINE new == [state |-> "Active", creator |-> creator, owner |-> owner,
                   total |-> amount, claimed |-> 0, unlock |-> unlock,
                   milestone |-> milestone, verifier |-> verifier, verified |-> FALSE]
           n == vaultCount
<1>1. n \in Nat /\ n < MaxVaults /\ n \in VaultId
  BY FactoryVaultsAssumption DEF VaultInv, CreateVault, VaultId
<1>2. unlock \in Nat /\ amount \in Nat \ {0} BY FactoryAdminAssumption, FactoryVaultsAssumption
<1>3. new \in Vault /\ new.claimed = 0 /\ new.state = "Active" BY <1>2 DEF Vault
<1>4. vaults' = [vaults EXCEPT ![n] = new] /\ vaultCount' = n + 1
      /\ UNCHANGED <<ownerChange, paidOut, consents>>
  BY DEF CreateVault
<1> HIDE DEF new
<1>5. SlotUnused(n) BY <1>1 DEF VaultInv
<1>6. vaults'[n] = new /\ \A v \in VaultId : v # n => vaults'[v] = vaults[v]
  BY <1>1, <1>4 DEF VaultInv
<1>7. vaults' \in [VaultId -> Vault \cup {Nothing}] BY <1>3, <1>4 DEF VaultInv
<1>8. ASSUME NEW v \in VaultId, v >= vaultCount' PROVE SlotUnused(v)'
  <2>1. v \in Int BY DEF VaultId
  <2>2. v # n /\ v >= n BY <1>1, <1>4, <1>8, <2>1
  <2> QED BY <1>4, <1>6, <2>2 DEF VaultInv, SlotUnused
<1>9. ASSUME NEW v \in VaultId, vaults'[v] # Nothing PROVE VaultSound(v)'
  <2>1. CASE v = n BY <1>3, <1>4, <1>5, <1>6, <2>1 DEF VaultSound, SlotUnused, NoChange
  <2>2. CASE v # n BY <1>4, <1>6, <1>9, <2>2 DEF VaultInv, VaultSound
  <2> QED BY <2>1, <2>2
<1> QED BY <1>1, <1>4, <1>7, <1>8, <1>9 DEF VaultInv

LEMMA ClaimStep ==
    ASSUME VaultInv, NEW v \in VaultId, ClaimVault(v)
    PROVE  VaultInv'
<1> DEFINE r == [vaults[v] EXCEPT !.claimed = vaults[v].total, !.state = "Claimed"]
<1>1. vaults[v] \in Vault /\ VaultSound(v) /\ vaults[v].state = "Active" /\ Open(v)
  BY OpenVault DEF ClaimVault
<1>2. paidOut[v] = 0 /\ vaults[v].claimed = 0 /\ vaults[v].total \in Nat
  BY <1>1 DEF VaultSound, Vault
<1>3. /\ r \in Vault /\ r.claimed = vaults[v].total /\ r.total = vaults[v].total
      /\ r.state = "Claimed" /\ r.owner = vaults[v].owner /\ r.creator = vaults[v].creator
  BY <1>1 DEF Vault
<1>4. vaults' = [vaults EXCEPT ![v] = r] /\ UNCHANGED <<vaultCount, ownerChange, consents>>
      /\ paidOut' = [paidOut EXCEPT ![v] = paidOut[v] + Claimable(v)]
  BY <1>1 DEF ClaimVault, Vault
<1>5. paidOut[v] + Claimable(v) = vaults[v].total BY <1>2 DEF Claimable
<1> HIDE DEF r
<1>6. ownerChange[v] \in OwnerChange \cup {NoChange} /\ ownerChange' = [ownerChange EXCEPT ![v] = ownerChange[v]]
      /\ consents[v] \in SUBSET (Account \X Account)
      /\ consents' = [consents EXCEPT ![v] = consents[v]]
  BY <1>4 DEF VaultInv
<1>7. paidOut' = [paidOut EXCEPT ![v] = vaults[v].total] BY <1>4, <1>5
<1>8. /\ vaults[v].total = r.claimed
      /\ vaults[v].total = IF r.state = "Claimed" THEN r.total ELSE 0
      /\ ownerChange[v].byOwner => <<r.owner, ownerChange[v].to>> \in consents[v]
      /\ ownerChange[v].byCreator => <<r.creator, ownerChange[v].to>> \in consents[v]
  BY <1>1, <1>3 DEF VaultSound
<1>9. vaults' = [vaults EXCEPT ![v] = r] /\ UNCHANGED vaultCount /\ r \in Vault BY <1>3, <1>4
<1> QED BY <1>1, <1>2, <1>6, <1>7, <1>8, <1>9, OneVault

(* Calls that neither pay, nor hand over, nor write a change of owner.     *)
LEMMA QuietVaultStep ==
    ASSUME VaultInv, NEW v \in VaultId, CancelVault(v) \/ VerifyMilestone(v)
    PROVE  VaultInv'
<1>1. vaults[v] \in Vault /\ VaultSound(v) /\ vaults[v].state = "Active" /\ Open(v)
  BY OpenVault DEF CancelVault, VerifyMilestone
<1>2. PICK r \in Vault :
        /\ vaults' = [vaults EXCEPT ![v] = r] /\ r.state # "Claimed"
        /\ r.claimed = vaults[v].claimed /\ r.owner = vaults[v].owner
        /\ r.creator = vaults[v].creator
  <2>1. CASE CancelVault(v)
    <3> DEFINE r == [vaults[v] EXCEPT !.state = "Cancelled"]
    <3>1. /\ r \in Vault /\ r.state # "Claimed" /\ r.claimed = vaults[v].claimed
          /\ r.owner = vaults[v].owner /\ r.creator = vaults[v].creator
      BY <1>1 DEF Vault
    <3>2. vaults' = [vaults EXCEPT ![v] = r] BY <2>1 DEF CancelVault
    <3> QED BY <3>1, <3>2
  <2>2. CASE VerifyMilestone(v)
    <3> DEFINE r == [vaults[v] EXCEPT !.verified = TRUE]
    <3>1. /\ r \in Vault /\ r.state # "Claimed" /\ r.claimed = vaults[v].claimed
          /\ r.owner = vaults[v].owner /\ r.creator = vaults[v].creator
      BY <1>1 DEF Vault
    <3>2. vaults' = [vaults EXCEPT ![v] = r] BY <2>2 DEF VerifyMilestone
    <3> QED BY <3>1, <3>2
  <2> QED BY <2>1, <2>2
<1>3. UNCHANGED <<vaultCount, ownerChange, paidOut, consents>>
  BY DEF CancelVault, VerifyMilestone
<1>4. /\ ownerChange[v] \in OwnerChange \cup {NoChange} /\ ownerChange' = [ownerChange EXCEPT ![v] = ownerChange[v]]
      /\ consents[v] \in SUBSET (Account \X Account)
      /\ consents' = [consents EXCEPT ![v] = consents[v]]
      /\ paidOut[v] \in Nat /\ paidOut' = [paidOut EXCEPT ![v] = paidOut[v]]
  BY <1>3 DEF VaultInv
<1>5. /\ paidOut[v] = r.claimed
      /\ paidOut[v] = IF r.state = "Claimed" THEN r.total ELSE 0
      /\ ownerChange[v].byOwner => <<r.owner, ownerChange[v].to>> \in consents[v]
      /\ ownerChange[v].byCreator => <<r.creator, ownerChange[v].to>> \in consents[v]
  BY <1>1, <1>2 DEF VaultSound
<1>6. Open(v) /\ UNCHANGED vaultCount /\ vaults' = [vaults EXCEPT ![v] = r] BY <1>1, <1>2, <1>3
<1> QED BY <1>4, <1>5, <1>6, OneVault

LEMMA ProposeOwnerStep ==
    ASSUME VaultInv, NEW v \in VaultId, NEW a \in Account, NEW to \in Account,
           ProposeOwner(a, v, to)
    PROVE  VaultInv'
<1> DEFINE c == [to |-> to, byOwner |-> a = vaults[v].owner, byCreator |-> a = vaults[v].creator]
           g == consents[v] \cup {<<a, to>>}
<1>1. vaults[v] \in Vault /\ VaultSound(v) /\ vaults[v].state = "Active" /\ Open(v)
  BY OpenVault DEF ProposeOwner
<1>2. (a = vaults[v].owner) \in BOOLEAN /\ (a = vaults[v].creator) \in BOOLEAN OBVIOUS
<1>3. c \in OwnerChange BY <1>2 DEF OwnerChange
<1>4. c.to = to /\ (c.byOwner => a = vaults[v].owner) /\ (c.byCreator => a = vaults[v].creator)
  OBVIOUS
<1>5. g \in SUBSET (Account \X Account) BY DEF VaultInv
<1>6. /\ ownerChange' = [ownerChange EXCEPT ![v] = c] /\ consents' = [consents EXCEPT ![v] = g]
      /\ UNCHANGED <<vaults, vaultCount, paidOut>>
  BY DEF ProposeOwner, Consent
<1>7. /\ vaults' = [vaults EXCEPT ![v] = vaults[v]]
      /\ paidOut[v] \in Nat /\ paidOut' = [paidOut EXCEPT ![v] = paidOut[v]]
  BY <1>6 DEF VaultInv
<1>8. /\ c.byOwner => <<vaults[v].owner, c.to>> \in g
      /\ c.byCreator => <<vaults[v].creator, c.to>> \in g
  BY <1>4
<1> HIDE DEF c, g
<1> QED BY <1>1, <1>3, <1>5, <1>6, <1>7, <1>8, OneVault DEF VaultSound

(* What an approval does, and that the two flags stand for consents given. *)
LEMMA ApproveOwnerStep ==
    ASSUME VaultInv, NEW v \in VaultId, NEW a \in Account, ApproveOwner(a, v)
    PROVE  /\ VaultInv'
           /\ vaults'[v].owner # vaults[v].owner =>
                 \A b \in {vaults[v].owner, vaults[v].creator} :
                    <<b, vaults'[v].owner>> \in consents'[v]
           /\ \A w \in VaultId : w # v => vaults'[w] = vaults[w]
<1> DEFINE old == ownerChange[v]
           byOwner == old.byOwner \/ a = vaults[v].owner
           byCreator == old.byCreator \/ a = vaults[v].creator
           g == consents[v] \cup {<<a, old.to>>}
<1>1. vaults[v] \in Vault /\ VaultSound(v) /\ vaults[v].state = "Active" /\ Open(v)
  BY OpenVault DEF ApproveOwner
<1>2. old \in OwnerChange BY DEF VaultInv, ApproveOwner
<1>3. old.to \in Account /\ old.byOwner \in BOOLEAN /\ old.byCreator \in BOOLEAN
  BY <1>2 DEF OwnerChange
<1>4. g \in SUBSET (Account \X Account) BY <1>3 DEF VaultInv
<1>5. consents' = [consents EXCEPT ![v] = g] /\ UNCHANGED <<vaultCount, paidOut>>
  BY DEF ApproveOwner, Consent
<1>6. paidOut[v] \in Nat /\ paidOut' = [paidOut EXCEPT ![v] = paidOut[v]]
  BY <1>5 DEF VaultInv
<1>7. /\ byOwner => <<vaults[v].owner, old.to>> \in g
      /\ byCreator => <<vaults[v].creator, old.to>> \in g
  BY <1>1 DEF VaultSound
<1>8. consents'[v] = g BY <1>5 DEF VaultInv
<1>9. CASE byOwner /\ byCreator
  <2> DEFINE r == [vaults[v] EXCEPT !.owner = old.to]
  <2>1. vaults' = [vaults EXCEPT ![v] = r] /\ ownerChange' = [ownerChange EXCEPT ![v] = NoChange]
    BY <1>9 DEF ApproveOwner
  <2>2. /\ r \in Vault /\ r.state = vaults[v].state /\ r.claimed = vaults[v].claimed
        /\ r.owner = old.to
    BY <1>1, <1>3 DEF Vault
  <2>3. NoChange.byOwner = FALSE /\ NoChange.byCreator = FALSE BY DEF NoChange
  <2> HIDE DEF r
  <2>4. /\ paidOut[v] = r.claimed /\ paidOut[v] = IF r.state = "Claimed" THEN r.total ELSE 0
    BY <1>1, <2>2 DEF VaultSound
  <2> HIDE DEF g
  <2>5. VaultInv' BY <1>1, <1>4, <1>5, <1>6, <2>1, <2>2, <2>3, <2>4, OneVault
  <2>6. /\ vaults'[v] = r /\ \A w \in VaultId : w # v => vaults'[w] = vaults[w]
    BY <2>1 DEF VaultInv
  <2> QED BY <1>7, <1>8, <1>9, <2>2, <2>5, <2>6
<1>10. CASE ~(byOwner /\ byCreator)
  <2> DEFINE c == [old EXCEPT !.byOwner = byOwner, !.byCreator = byCreator]
  <2>1. UNCHANGED vaults BY <1>10 DEF ApproveOwner
  <2>2. ownerChange' = [ownerChange EXCEPT ![v] = c] BY <1>2, <1>10 DEF ApproveOwner, OwnerChange
  <2>3. byOwner \in BOOLEAN /\ byCreator \in BOOLEAN BY <1>3
  <2> HIDE DEF byOwner, byCreator
  <2>4. c \in OwnerChange /\ c.to = old.to /\ c.byOwner = byOwner /\ c.byCreator = byCreator
    BY <1>2, <2>3 DEF OwnerChange
  <2> HIDE DEF c, old, g
  <2>5. vaults' = [vaults EXCEPT ![v] = vaults[v]] BY <2>1 DEF VaultInv
  <2>6. /\ paidOut[v] = vaults[v].claimed
        /\ paidOut[v] = IF vaults[v].state = "Claimed" THEN vaults[v].total ELSE 0
        /\ c.byOwner => <<vaults[v].owner, c.to>> \in g
        /\ c.byCreator => <<vaults[v].creator, c.to>> \in g
    BY <1>1, <1>7, <2>4 DEF VaultSound
  <2>7. VaultInv' BY <1>1, <1>4, <1>5, <1>6, <2>2, <2>4, <2>5, <2>6, OneVault
  <2> QED BY <2>1, <2>7
<1> QED BY <1>9, <1>10

LEMMA VaultStep ==
    ASSUME VaultInv, [FactoryNext]_factoryVars
    PROVE  VaultInv'
<1>1. CASE UNCHANGED vaultVars
  BY <1>1 DEF vaultVars, VaultInv, SlotUnused, VaultSound
<1>2. CASE Deposits BY <1>2, CreateVaultStep DEF Deposits
<1>3. CASE Guards BY <1>3 DEF Guards, SetLimit, ResumeVaults, VaultInv, SlotUnused, VaultSound
<1>4. ASSUME NEW v \in VaultId, UsesVault(v) PROVE VaultInv'
  BY <1>4, ClaimStep, QuietVaultStep, ProposeOwnerStep, ApproveOwnerStep DEF UsesVault
<1> QED BY <1>1, <1>2, <1>3, <1>4 DEF FactoryNext, VaultNext, factoryVars

(* What was paid and agreed to is what the vaults say, in every state      *)
(* (lib.rs:3642-4662).                                                     *)
THEOREM VaultsSound == FactorySpec => []VaultInv
BY VaultInvInit, VaultStep, PTL DEF FactorySpec, FactoryInit

(* A claimed vault has paid its total, every other one nothing: no order   *)
(* of claims, cancellations and changes of owner pays twice                *)
(* (lib.rs:3820-3944).                                                     *)
THEOREM ClaimsPayOnce == FactorySpec => []VaultsPayOnce
<1>1. VaultInv => VaultsPayOnce BY DEF VaultInv, VaultSound, VaultsPayOnce
<1> QED BY <1>1, VaultsSound, PTL

LEMMA OwnersAgree ==
    ASSUME VaultInv, [FactoryNext]_factoryVars, NEW v \in VaultId, vaults[v] # Nothing,
           vaults'[v].owner # vaults[v].owner
    PROVE  \A a \in {vaults[v].owner, vaults[v].creator} : <<a, vaults'[v].owner>> \in consents'[v]
<1>1. ASSUME NEW r, NEW w \in VaultId, vaults' = [vaults EXCEPT ![w] = r], vaults[w] \in Vault,
             r.owner = vaults[w].owner
      PROVE FALSE
  BY <1>1 DEF VaultInv
<1>2. ASSUME NEW creator, NEW owner, NEW amount, NEW unlock, NEW milestone, NEW verifier,
             CreateVault(creator, owner, amount, unlock, milestone, verifier)
      PROVE FALSE
  <2>1. v # vaultCount BY DEF VaultInv, SlotUnused
  <2> QED BY <1>2, <2>1 DEF CreateVault, VaultInv
<1>3. ASSUME NEW w \in VaultId, ClaimVault(w) PROVE FALSE
  <2>1. vaults[w] \in Vault BY <1>3, OpenVault DEF ClaimVault
  <2>2. [vaults[w] EXCEPT !.claimed = vaults[w].total, !.state = "Claimed"].owner = vaults[w].owner
    BY <2>1 DEF Vault
  <2>3. vaults' = [vaults EXCEPT ![w] =
                      [vaults[w] EXCEPT !.claimed = vaults[w].total, !.state = "Claimed"]]
    BY <1>3, <2>1 DEF ClaimVault, Vault
  <2> QED BY <1>1, <2>1, <2>2, <2>3
<1>4. ASSUME NEW w \in VaultId, CancelVault(w) PROVE FALSE
  <2>1. vaults[w] \in Vault BY <1>4, OpenVault DEF CancelVault
  <2>2. [vaults[w] EXCEPT !.state = "Cancelled"].owner = vaults[w].owner BY <2>1 DEF Vault
  <2> QED BY <1>1, <1>4, <2>1, <2>2 DEF CancelVault
<1>5. ASSUME NEW w \in VaultId, VerifyMilestone(w) PROVE FALSE
  <2>1. vaults[w] \in Vault BY <1>5, OpenVault DEF VerifyMilestone
  <2>2. [vaults[w] EXCEPT !.verified = TRUE].owner = vaults[w].owner BY <2>1 DEF Vault
  <2> QED BY <1>1, <1>5, <2>1, <2>2 DEF VerifyMilestone
<1>6. ASSUME NEW w \in VaultId, NEW a, NEW to, ProposeOwner(a, w, to) PROVE FALSE
  BY <1>6 DEF ProposeOwner
<1>7. ASSUME NEW w \in VaultId, NEW a \in Account, ApproveOwner(a, w)
      PROVE \A b \in {vaults[v].owner, vaults[v].creator} : <<b, vaults'[v].owner>> \in consents'[v]
  <2>1. w = v BY <1>7, ApproveOwnerStep
  <2> QED BY <1>7, <2>1, ApproveOwnerStep
<1>8. ~UNCHANGED vaults OBVIOUS
<1>9. ~Guards BY <1>8 DEF Guards, SetLimit, ResumeVaults
<1>10. PICK w \in VaultId : UsesVault(w)
  BY <1>2, <1>8, <1>9 DEF FactoryNext, factoryVars, vaultVars, VaultNext, Deposits
<1> QED BY <1>3, <1>4, <1>5, <1>6, <1>7, <1>10 DEF UsesVault

(* A vault changes hands only with the consent of owner and creator to     *)
(* that very account (lib.rs:4448-4660).                                   *)
THEOREM HandoversAreAgreed == FactorySpec => OwnersConsent
<1> DEFINE Agreed == \A v \in VaultId :
             vaults[v] # Nothing /\ vaults'[v].owner # vaults[v].owner =>
                \A a \in {vaults[v].owner, vaults[v].creator} :
                    <<a, vaults'[v].owner>> \in consents'[v]
<1>1. VaultInv /\ [FactoryNext]_factoryVars => [Agreed]_factoryVars BY OwnersAgree
<1> QED BY <1>1, VaultsSound, PTL DEF FactorySpec, OwnersConsent

-----------------------------------------------------------------------------
(* Withdrawals.                                                            *)

LEMMA EffectsKnowPolicies ==
    /\ \A e \in Effects : "policy" \in DOMAIN e => e.policy \in Policies
    /\ \A e \in Schedulable \cup Signable : "policy" \notin DOMAIN e
<1>1. /\ \A e \in FeePair : "policy" \notin DOMAIN e
      /\ \A e \in Pausing : "policy" \notin DOMAIN e
      /\ \A e \in NewTreasury : "policy" \notin DOMAIN e
      /\ \A e \in [baseFee : Fees] : "policy" \notin DOMAIN e
      /\ \A e \in [metadataFee : Fees] : "policy" \notin DOMAIN e
      /\ \A e \in [admin : Account] : "policy" \notin DOMAIN e
  BY DEF FeePair, Pausing, NewTreasury
<1>2. ASSUME NEW t \in ActionType, NEW e \in Payload(t), "policy" \in DOMAIN e
      PROVE  e.policy \in Policies
  <2>1. CASE t = "FeeChange" BY <1>1, <1>2, <2>1 DEF Payload
  <2>2. CASE t = "TreasuryChange" BY <1>1, <1>2, <2>2 DEF Payload
  <2>3. CASE t = "PauseContract"
    <3>1. e \in [paused : {TRUE}] BY <1>2, <2>3 DEF Payload
    <3> QED BY <1>2, <3>1
  <2>4. CASE t = "UnpauseContract"
    <3>1. e \in [paused : {FALSE}] BY <1>2, <2>4 DEF Payload
    <3> QED BY <1>2, <3>1
  <2>5. CASE t = "PolicyUpdate"
    <3>1. e \in [policy : Policies] BY <1>2, <2>5 DEF Payload
    <3> QED BY <3>1
  <2>6. CASE t = "ParameterChange"
    <3>1. e = <<>> BY <1>2, <2>6 DEF Payload
    <3>2. DOMAIN <<>> = {} OBVIOUS
    <3> QED BY <1>2, <3>1, <3>2
  <2> QED BY <2>1, <2>2, <2>3, <2>4, <2>5, <2>6 DEF ActionType
<1> QED BY <1>1, <1>2 DEF Effects, Schedulable, Signable

PolicyKnown == settings.policy \in Policies

LEMMA ApplyKnows ==
    ASSUME Administered, PolicyKnown, NEW e, Apply(e),
           "policy" \in DOMAIN e => e.policy \in Policies
    PROVE  PolicyKnown'
<1>1. "policy" \in DOMAIN settings BY DEF Administered, SettingsInv, Names
<1>2. settings'.policy = IF "policy" \in DOMAIN e THEN e["policy"] ELSE settings["policy"]
  BY <1>1 DEF Apply
<1> QED BY <1>2 DEF PolicyKnown

LEMMA PolicyStaysKnown ==
    ASSUME Administered, PolicyKnown, AdminStep
    PROVE  PolicyKnown'
<1>1. CASE UNCHANGED <<settings, pendingAdmin>> BY <1>1 DEF PolicyKnown
<1>2. ASSUME NEW p \in ProposalId, Execute(p) PROVE PolicyKnown'
  <2>1. proposals[p] \in Proposal
    BY <1>2 DEF Execute, Administered, ProposalInv, ProposalTypes, Nothing
  <2>2. proposals[p].effect \in Effects BY <2>1 DEF Proposal
  <2> QED BY <1>2, <2>2, EffectsKnowPolicies, ApplyKnows DEF Execute
<1>3. ASSUME NEW c \in ChangeId, ExecuteChange(c) PROVE PolicyKnown'
  <2>1. changes[c] \in Change BY <1>3 DEF ExecuteChange, Administered, ChangeInv, Nothing
  <2>2. changes[c].effect \in Schedulable BY <2>1 DEF Change
  <2> QED BY <1>3, <2>2, EffectsKnowPolicies, ApplyKnows DEF ExecuteChange
<1>4. ASSUME NEW s \in Account, NEW m \in ActionId, ApproveAction(s, m) \/ ExecuteAction(s, m)
      PROVE  PolicyKnown'
  <2>1. actions[m] \in Signed
    BY <1>4 DEF ApproveAction, ExecuteAction, Administered, ActionInv, Nothing
  <2>2. actions[m].effect \in Signable BY <2>1 DEF Signed
  <2>3. CarryOut(actions[m].effect) \/ UNCHANGED <<settings, pendingAdmin>>
    BY <1>4 DEF ApproveAction, ExecuteAction
  <2> QED BY <1>1, <2>2, <2>3, EffectsKnowPolicies, ApplyKnows DEF CarryOut
<1>5. ASSUME NEW paused \in BOOLEAN, SetPaused(paused) PROVE PolicyKnown'
  BY <1>5, ApplyKnows DEF SetPaused
<1>6. ASSUME NEW policy \in Policies, Apply([policy |-> policy]) PROVE PolicyKnown'
  BY <1>6, ApplyKnows
<1>7. ASSUME NEW a \in Account, TransferAdmin(a) \/ ProposeAdmin(a) PROVE PolicyKnown'
  <2>1. CASE TransferAdmin(a) BY <2>1, ApplyKnows DEF TransferAdmin
  <2>2. CASE ProposeAdmin(a) BY <2>2 DEF ProposeAdmin, PolicyKnown
  <2> QED BY <1>7, <2>1, <2>2
<1>8. CASE AcceptAdmin BY <1>8, ApplyKnows DEF AcceptAdmin
<1>9. CASE CancelAdmin BY <1>9 DEF CancelAdmin, PolicyKnown
<1> QED BY <1>1, <1>2, <1>3, <1>4, <1>5, <1>6, <1>7, <1>8, <1>9, SettingsFrame

(* The caps and durations that a policy may set.                           *)
LEMMA PolicyBounds ==
    /\ Largest \in Nat /\ Shortest \in Nat \ {0}
    /\ \A p \in Policies : p.cap \in Nat /\ p.cap <= Largest
                           /\ p.duration \in Nat /\ Shortest <= p.duration
<1> DEFINE caps == {p.cap : p \in Policies}
           lengths == {p.duration : p \in Policies}
           cap == [p \in Policies |-> p.cap]
<1>1. IsFiniteSet(Policies) /\ DefaultPolicy \in Policies
  BY FactoryAdminAssumption, FactoryTreasuryAssumption
<1>2. \A p \in Policies : p.cap \in Nat /\ p.duration \in Nat \ {0}
  BY FactoryTreasuryAssumption
<1>3. caps \subseteq Nat /\ caps # {} /\ lengths \subseteq Nat \ {0} /\ lengths # {}
  BY <1>1, <1>2
<1>4. cap \in Surjection(Policies, caps)
  BY DEF Surjection
<1>5. IsFiniteSet(caps)
  BY <1>1, <1>4, FS_Surjection
<1>6. \A p \in Policies : p.cap \in caps /\ p.duration \in lengths
  OBVIOUS
<1> HIDE DEF caps, lengths
<1>7. Max(caps) \in caps /\ \A x \in caps : x <= Max(caps)
  <2>1. caps \subseteq Int /\ caps # {} BY <1>3
  <2> QED BY ONLY <1>5, <2>1, MaxIn
<1>8. Min(lengths) \in lengths /\ \A x \in lengths : Min(lengths) <= x
  <2>1. lengths \subseteq Nat /\ lengths # {} BY <1>3
  <2> QED BY ONLY <2>1, MinIn
<1>9. Largest = Max(caps) /\ Shortest = Min(lengths)
  BY DEF Largest, Shortest, caps, lengths
<1> QED BY <1>2, <1>3, <1>6, <1>7, <1>8, <1>9

(* What the payments p come to after time s, and from one time on for as   *)
(* long as the shortest period.                                            *)
Times == 0..MaxTime
PaidAfter(p, s) == SumFunctionOnSet(p, {t \in Times : t > s})
PaidIn(p, from) == SumFunctionOnSet(p, {t \in Times : from <= t /\ t < from + Shortest})

LEMMA PaidTypes ==
    ASSUME NEW p \in [Times -> Nat], NEW s \in Int
    PROVE  PaidAfter(p, s) \in Nat /\ PaidIn(p, s) \in Nat
<1> DEFINE after == {t \in Times : t > s}
           in == {t \in Times : s <= t /\ t < s + Shortest}
<1>1. IsFiniteSet(Times) BY FS_Interval, FactoryAdminAssumption DEF Times
<1>2. after \in SUBSET Times /\ in \in SUBSET Times /\ \A t \in Times : p[t] \in Nat OBVIOUS
<1> HIDE DEF after, in
<1>3. SumFunctionOnSet(p, after) \in Nat /\ SumFunctionOnSet(p, in) \in Nat
  BY ONLY <1>1, <1>2, SumOfPart
<1> QED BY <1>3 DEF PaidAfter, PaidIn, after, in

LEMMA PaidLater ==
    ASSUME NEW p \in [Times -> Nat], NEW s \in Int, NEW r \in Int, s <= r
    PROVE  /\ PaidAfter(p, r) <= PaidAfter(p, s)
           /\ s < r => PaidIn(p, r) <= PaidAfter(p, s)
<1> DEFINE after == {t \in Times : t > s}
           later == {t \in Times : t > r}
           in == {t \in Times : r <= t /\ t < r + Shortest}
<1>1. IsFiniteSet(after)
  <2>1. IsFiniteSet(Times) BY FS_Interval, FactoryAdminAssumption DEF Times
  <2> QED BY <2>1, FS_Subset
<1>2. \A t \in Times : t \in Int BY FactoryAdminAssumption DEF Times
<1>3. later \in SUBSET after BY <1>2
<1>4. \A t \in after : p[t] \in Nat OBVIOUS
<1>5. PaidAfter(p, s) = SumFunctionOnSet(p, after) /\ PaidAfter(p, r) = SumFunctionOnSet(p, later)
      /\ PaidIn(p, r) = SumFunctionOnSet(p, in)
  BY DEF PaidAfter, PaidIn
<1>6. s < r => in \in SUBSET after BY <1>2
<1> HIDE DEF after, later, in
<1>7. SumFunctionOnSet(p, later) <= SumFunctionOnSet(p, after) BY ONLY <1>1, <1>3, <1>4, SumOfPart
<1>8. ASSUME s < r PROVE SumFunctionOnSet(p, in) <= SumFunctionOnSet(p, after)
  <2>1. in \in SUBSET after BY <1>6, <1>8
  <2> QED BY ONLY <1>1, <1>4, <2>1, SumOfPart
<1> QED BY <1>5, <1>7, <1>8

(* A payment raises the sums over the times that it falls in, and no       *)
(* other.                                                                  *)
LEMMA PaymentAdds ==
    ASSUME NEW p \in [Times -> Nat], NEW n \in Times, NEW a \in Nat, NEW q \in [Times -> Nat],
           q[n] = p[n] + a, \A t \in Times \ {n} : q[t] = p[t], NEW T \in SUBSET Times
    PROVE  SumFunctionOnSet(q, T) = SumFunctionOnSet(p, T) + (IF n \in T THEN a ELSE 0)
<1>1. IsFiniteSet(T)
  <2>1. IsFiniteSet(Times) BY FS_Interval, FactoryAdminAssumption DEF Times
  <2> QED BY <2>1, FS_Subset
<1>2. q[n] = p[n] + a /\ p[n] \in Nat /\ \A t \in T \ {n} : q[t] = p[t] OBVIOUS
<1>3. \A t \in T : p[t] \in Int /\ q[t] \in Int OBVIOUS
<1>4. SumFunctionOnSet(p, T) \in Int BY ONLY <1>1, <1>3, SumType
<1>5. CASE n \in T
  <2>1. SumFunctionOnSet(q, T) = SumFunctionOnSet(p, T) + q[n] - p[n]
    BY ONLY <1>1, <1>2, <1>3, <1>5, SumUpdate
  <2> QED BY <1>2, <1>4, <1>5, <2>1
<1>6. CASE n \notin T
  <2>1. \A t \in T : p[t] \in Int /\ q[t] = p[t] BY <1>2, <1>3, <1>6
  <2>2. SumFunctionOnSet(q, T) = SumFunctionOnSet(p, T) BY ONLY <1>1, <2>1, SumSame
  <2> QED BY <1>4, <1>6, <2>2
<1> QED BY <1>5, <1>6

LEMMA NothingAdds ==
    ASSUME NEW p \in [Times -> Nat], NEW T \in SUBSET Times, \A t \in T : p[t] = 0
    PROVE  SumFunctionOnSet(p, T) = 0
<1>1. IsFiniteSet(T)
  <2>1. IsFiniteSet(Times) BY FS_Interval, FactoryAdminAssumption DEF Times
  <2> QED BY <2>1, FS_Subset
<1> QED BY <1>1, SumZero

(* A period running since s, with w withdrawn in it, accounts for what was *)
(* paid after s; and what was paid in it and in the shortest period before *)
(* it is at most the largest cap above that.                               *)
RunsSince(p, s, w) ==
    /\ PaidAfter(p, s) <= w /\ w <= Largest
    /\ PaidAfter(p, s - Shortest) <= Largest + w

PeriodSound ==
    \/ period = NoPeriod /\ paid = NothingPaid
    \/ \E s \in 0..now, w \in Nat :
          period = [start |-> s, withdrawn |-> w] /\ RunsSince(paid, s, w)

Withdrawal ==
    [state : {"Queued"}, recipient : Account, amount : Nat, queuedAt : Nat, executableAt : Nat]

WithdrawalTypes ==
    /\ now \in Times /\ delay \in Nat /\ withdrawalCount \in Nat
    /\ withdrawals \in [WithdrawalId -> Withdrawal \cup {Nothing}]
    /\ paid \in [Times -> Nat] /\ \A t \in Times : t > now => paid[t] = 0

WithdrawalInv == WithdrawalTypes /\ PolicyKnown /\ PeriodSound /\ CapPerWindow

LEMMA NothingAfter ==
    ASSUME NEW p \in [Times -> Nat], NEW n \in Int, \A t \in Times : t > n => p[t] = 0
    PROVE  /\ PaidAfter(p, n) = 0
           /\ \A from \in Int : from > n => PaidIn(p, from) = 0
<1>1. \A t \in Times : t \in Int BY FactoryAdminAssumption DEF Times
<1>2. PaidAfter(p, n) = 0
  <2> DEFINE T == {t \in Times : t > n}
  <2>1. T \in SUBSET Times /\ \A t \in T : p[t] = 0 OBVIOUS
  <2> HIDE DEF T
  <2>2. SumFunctionOnSet(p, T) = 0 BY <2>1, NothingAdds
  <2> QED BY <2>2 DEF T, PaidAfter
<1>3. ASSUME NEW from \in Int, from > n PROVE PaidIn(p, from) = 0
  <2> DEFINE T == {t \in Times : from <= t /\ t < from + Shortest}
  <2>1. T \in SUBSET Times /\ \A t \in T : p[t] = 0 BY <1>1, <1>3
  <2> HIDE DEF T
  <2>2. SumFunctionOnSet(p, T) = 0 BY <2>1, NothingAdds
  <2> QED BY <2>2 DEF T, PaidIn
<1> QED BY <1>2, <1>3

LEMMA NothingPaidYet ==
    /\ NothingPaid \in [Times -> Nat]
    /\ \A s \in Int : PaidAfter(NothingPaid, s) = 0 /\ PaidIn(NothingPaid, s) = 0
<1>1. NothingPaid \in [Times -> Nat] /\ \A t \in Times : NothingPaid[t] = 0
  BY DEF NothingPaid, Times
<1>2. ASSUME NEW s \in Int PROVE PaidAfter(NothingPaid, s) = 0 /\ PaidIn(NothingPaid, s) = 0
  <2>1. s - 1 \in Int /\ s > s - 1 OBVIOUS
  <2>2. PaidAfter(NothingPaid, s) = 0 BY <1>1, NothingAfter
  <2>3. PaidIn(NothingPaid, s) = 0 BY <1>1, <2>1, NothingAfter
  <2> QED BY <2>2, <2>3
<1> QED BY <1>1, <1>2

LEMMA CapOfWindows ==
    CapPerWindow <=> \A from \in 0..now : PaidIn(paid, from) <= 2 * Largest
BY DEF CapPerWindow, Paid, PaidIn, Times

(* Whether the running period goes on or a new one starts now, it accounts *)
(* for what was paid: a new one starts a shortest period after the last    *)
(* one did, and what was paid since then was withdrawn in that one.        *)
LEMMA CurrentSound ==
    ASSUME WithdrawalInv
    PROVE  \E s \in 0..now, w \in Nat :
              Current = [start |-> s, withdrawn |-> w] /\ RunsSince(paid, s, w)
<1>1. /\ now \in Nat /\ now \in Int /\ paid \in [Times -> Nat]
      /\ \A t \in Times : t > now => paid[t] = 0
  BY FactoryAdminAssumption DEF WithdrawalInv, WithdrawalTypes, Times
<1>2. Largest \in Nat /\ Shortest \in Nat \ {0} /\ now - Shortest \in Int BY <1>1, PolicyBounds
<1>3. PaidAfter(paid, now) = 0 BY <1>1, NothingAfter
<1>4. CASE period = NoPeriod
  <2>1. paid = NothingPaid
    <3>1. NoPeriod.start \notin 0..now BY DEF NoPeriod
    <3> QED BY <1>4, <3>1 DEF WithdrawalInv, PeriodSound
  <2>2. PaidAfter(paid, now - Shortest) = 0 BY <1>2, <2>1, NothingPaidYet
  <2>3. RunsSince(paid, now, 0) BY <1>2, <1>3, <2>2 DEF RunsSince
  <2>4. Current = [start |-> now, withdrawn |-> 0] BY <1>4 DEF Current, Started
  <2> QED BY <1>1, <2>3, <2>4
<1>5. CASE period # NoPeriod
  <2>1. PICK s \in 0..now, w \in Nat :
          period = [start |-> s, withdrawn |-> w] /\ RunsSince(paid, s, w)
    BY <1>5 DEF WithdrawalInv, PeriodSound
  <2>2. CASE Expired
    <3>1. settings.policy.duration \in Nat /\ Shortest <= settings.policy.duration
      BY PolicyBounds DEF WithdrawalInv, PolicyKnown
    <3>2. now >= s + settings.policy.duration BY <2>1, <2>2 DEF Expired
    <3>3. s \in Int /\ s <= now - Shortest BY <1>1, <1>2, <3>1, <3>2
    <3>4. PaidAfter(paid, now - Shortest) <= PaidAfter(paid, s) BY <1>1, <1>2, <3>3, PaidLater
    <3>5. PaidAfter(paid, now - Shortest) \in Nat /\ PaidAfter(paid, s) \in Nat
      BY <1>1, <1>2, <3>3, PaidTypes
    <3>6. PaidAfter(paid, s) <= w /\ w <= Largest BY <2>1 DEF RunsSince
    <3>7. RunsSince(paid, now, 0) BY <1>2, <1>3, <3>4, <3>5, <3>6 DEF RunsSince
    <3>8. Current = [start |-> now, withdrawn |-> 0] BY <2>2 DEF Current, Started
    <3> QED BY <1>1, <3>7, <3>8
  <2>3. CASE ~Expired
    <3>1. Current = period BY <1>5, <2>3 DEF Current
    <3> QED BY <2>1, <3>1
  <2> QED BY <2>2, <2>3
<1> QED BY <1>4, <1>5

(* A permitted payment keeps the period accounting for what was paid, and  *)
(* every window within its bound: one that holds the present time begins   *)
(* less than a shortest period before it, hence after s - Shortest.        *)
LEMMA PaySound ==
    ASSUME WithdrawalInv, NEW r, NEW a \in Nat, Permits(r, a), Pay(a), now' = now
    PROVE  /\ paid' \in [Times -> Nat] /\ \A t \in Times : t > now' => paid'[t] = 0
           /\ PeriodSound' /\ CapPerWindow'
<1>1. /\ now \in Nat /\ now \in Times /\ paid \in [Times -> Nat]
      /\ \A t \in Times : t > now => paid[t] = 0
      /\ \A u \in Times : u \in Int
  BY FactoryAdminAssumption DEF WithdrawalInv, WithdrawalTypes, Times
<1>2. Largest \in Nat /\ Shortest \in Nat \ {0} BY PolicyBounds
<1>3. PICK s \in 0..now, w \in Nat :
        Current = [start |-> s, withdrawn |-> w] /\ RunsSince(paid, s, w)
  BY CurrentSound
<1>4. /\ period' = [start |-> s, withdrawn |-> w + a]
      /\ paid' = [paid EXCEPT ![now] = @ + a]
  BY <1>3 DEF Pay
<1>5. w + a \in Nat /\ w + a <= Largest
  <2>1. settings.policy.cap \in Nat /\ settings.policy.cap <= Largest
    BY PolicyBounds DEF WithdrawalInv, PolicyKnown
  <2>2. w + a <= settings.policy.cap BY <1>3 DEF Permits
  <2> QED BY <1>2, <2>1, <2>2
<1>6. paid' \in [Times -> Nat] /\ \A t \in Times : t > now => paid'[t] = 0
  <2>1. paid'[now] = paid[now] + a /\ paid[now] \in Nat BY <1>1, <1>4
  <2> QED BY <1>1, <1>4, <2>1
<1>7. ASSUME NEW T \in SUBSET Times
      PROVE  SumFunctionOnSet(paid', T) = SumFunctionOnSet(paid, T) + (IF now \in T THEN a ELSE 0)
  <2>1. paid'[now] = paid[now] + a /\ \A t \in Times \ {now} : paid'[t] = paid[t]
    BY <1>1, <1>4
  <2> QED BY <1>1, <1>6, <2>1, PaymentAdds
<1>8. ASSUME NEW x \in Int
      PROVE  PaidAfter(paid', x) <= PaidAfter(paid, x) + a /\ PaidAfter(paid, x) \in Nat
  <2> DEFINE T == {t \in Times : t > x}
  <2>1. T \in SUBSET Times OBVIOUS
  <2>2. PaidAfter(paid, x) \in Nat BY <1>1, PaidTypes
  <2>3. PaidAfter(paid', x) = SumFunctionOnSet(paid', T)
        /\ PaidAfter(paid, x) = SumFunctionOnSet(paid, T)
    BY DEF PaidAfter
  <2> HIDE DEF T
  <2> QED BY <1>7, <2>1, <2>2, <2>3
<1>9. s \in Int /\ s - Shortest \in Int BY <1>1, <1>2
<1>10. RunsSince(paid', s, w + a)
  <2>1. PaidAfter(paid', s) <= PaidAfter(paid, s) + a /\ PaidAfter(paid, s) \in Nat
        /\ PaidAfter(paid', s - Shortest) <= PaidAfter(paid, s - Shortest) + a
        /\ PaidAfter(paid, s - Shortest) \in Nat
        /\ PaidAfter(paid', s) \in Nat /\ PaidAfter(paid', s - Shortest) \in Nat
    BY <1>6, <1>8, <1>9, PaidTypes
  <2> QED BY <1>2, <1>3, <1>5, <2>1 DEF RunsSince
<1>11. PeriodSound'
  <2>1. s \in 0..now' OBVIOUS
  <2> QED BY <1>4, <1>5, <1>10, <2>1 DEF PeriodSound
<1>12. ASSUME NEW from \in 0..now PROVE PaidIn(paid', from) <= 2 * Largest
  <2> DEFINE T == {t \in Times : from <= t /\ t < from + Shortest}
  <2>1. from \in Int BY <1>1
  <2>2. CASE now < from + Shortest
    <3>1. s - Shortest < from BY <1>1, <1>2, <1>9, <2>2
    <3>2. PaidIn(paid', from) <= PaidAfter(paid', s - Shortest)
      BY <1>6, <1>9, <2>1, <3>1, PaidLater
    <3>3. PaidIn(paid', from) \in Nat /\ PaidAfter(paid', s - Shortest) \in Nat
      BY <1>6, <1>9, <2>1, PaidTypes
    <3>4. PaidAfter(paid', s - Shortest) <= Largest + (w + a) BY <1>10 DEF RunsSince
    <3> QED BY <1>2, <1>5, <3>2, <3>3, <3>4
  <2>3. CASE ~(now < from + Shortest)
    <3>1. T \in SUBSET Times /\ now \notin T BY <2>3
    <3>2. PaidIn(paid', from) = SumFunctionOnSet(paid', T)
          /\ PaidIn(paid, from) = SumFunctionOnSet(paid, T)
      BY DEF PaidIn
    <3>3. PaidIn(paid, from) \in Nat /\ PaidIn(paid, from) <= 2 * Largest
      BY <1>1, <2>1, PaidTypes, CapOfWindows DEF WithdrawalInv
    <3> HIDE DEF T
    <3> QED BY <1>7, <3>1, <3>2, <3>3
  <2> QED BY <2>2, <2>3
<1>13. CapPerWindow'
  <2>1. \A from \in 0..now' : PaidIn(paid', from) <= 2 * Largest BY <1>12
  <2> QED BY <2>1 DEF CapPerWindow, Paid, PaidIn, Times
<1> QED BY <1>6, <1>11, <1>13

LEMMA TimeMoves ==
    ASSUME AdminStep
    PROVE  now' = now \/ (now < MaxTime /\ now' = now + 1)
<1>1. CASE Announces
  BY <1>1 DEF Announces, CreateProposal, Schedule, ProposeAction
<1>2. CASE Proceeds
  <2>1. CASE Tick BY <2>1 DEF Tick
  <2>2. ASSUME NEW p \in ProposalId,
               \/ \E a \in Account, choice \in Choice : Vote(a, p, choice)
               \/ Finalize(p) \/ QueueProposal(p) \/ Enqueue(p) \/ Execute(p)
               \/ \E a \in Account : Cancel(a, p)
        PROVE now' = now
    BY <2>2 DEF Vote, Finalize, QueueProposal, Enqueue, Execute, Cancel
  <2>3. ASSUME NEW c \in ChangeId, CancelChange(c) \/ ExecuteChange(c) PROVE now' = now
    BY <2>3 DEF CancelChange, ExecuteChange
  <2>4. ASSUME NEW s, NEW m, CancelAction(s, m) \/ ApproveAction(s, m) \/ ExecuteAction(s, m)
        PROVE now' = now
    BY <2>4 DEF CancelAction, ApproveAction, ExecuteAction
  <2> QED BY <1>2, <2>1, <2>2, <2>3, <2>4 DEF Proceeds
<1>3. CASE Intervenes
  BY <1>3 DEF Intervenes, ConfigureMultisig, UpdatePolicy, SetConfig, SetPaused, TransferAdmin,
       ProposeAdmin, AcceptAdmin, CancelAdmin
<1>4. CASE PolicyStep BY <1>4 DEF PolicyStep
<1>5. CASE UNCHANGED adminVars BY <1>5 DEF adminVars
<1> QED BY <1>1, <1>2, <1>3, <1>4, <1>5 DEF AdminStep, AdminNext

(* Calls that pay nothing: the period goes on, or a new one is written     *)
(* before there is anything to record in it.                               *)
LEMMA NoPayment ==
    ASSUME WithdrawalInv, UNCHANGED <<now, paid>>, period' = period \/ period' = Current
    PROVE  PeriodSound' /\ CapPerWindow'
<1>1. CapPerWindow' BY DEF WithdrawalInv, CapPerWindow, Paid
<1>2. CASE period' = period
  <2>1. CASE period = NoPeriod /\ paid = NothingPaid BY <1>1, <1>2, <2>1 DEF PeriodSound
  <2>2. ASSUME NEW s \in 0..now, NEW w \in Nat,
               period = [start |-> s, withdrawn |-> w], RunsSince(paid, s, w)
        PROVE  PeriodSound'
    <3>1. s \in 0..now' /\ period' = [start |-> s, withdrawn |-> w] BY <1>2, <2>2
    <3>2. RunsSince(paid', s, w) BY <2>2
    <3> QED BY <3>1, <3>2 DEF PeriodSound
  <2> QED BY <1>1, <2>1, <2>2 DEF WithdrawalInv, PeriodSound
<1>3. CASE period' = Current
  <2>1. PICK s \in 0..now, w \in Nat :
          Current = [start |-> s, withdrawn |-> w] /\ RunsSince(paid, s, w)
    BY CurrentSound
  <2>2. s \in 0..now' /\ period' = [start |-> s, withdrawn |-> w] BY <1>3, <2>1
  <2>3. RunsSince(paid', s, w) BY <2>1
  <2> QED BY <1>1, <2>2, <2>3 DEF PeriodSound
<1> QED BY <1>1, <1>2, <1>3

LEMMA InitializedSound ==
    ASSUME now \in Times, now' = now, period' = Started, paid' = NothingPaid
    PROVE  /\ paid' \in [Times -> Nat] /\ \A t \in Times : t > now' => paid'[t] = 0
           /\ PeriodSound' /\ CapPerWindow'
<1>1. now \in Nat /\ now \in Int /\ Largest \in Nat /\ Shortest \in Nat \ {0}
  BY PolicyBounds, FactoryAdminAssumption DEF Times
<1>2. paid' \in [Times -> Nat] /\ \A t \in Times : t > now' => paid'[t] = 0
  BY NothingPaidYet DEF NothingPaid, Times
<1>3. PaidAfter(paid', now) = 0 /\ PaidAfter(paid', now - Shortest) = 0
  BY <1>1, NothingPaidYet
<1>4. RunsSince(paid', now, 0) BY <1>1, <1>3 DEF RunsSince
<1>5. period' = [start |-> now, withdrawn |-> 0] BY DEF Started
<1>6. PeriodSound'
  <2>1. now \in 0..now' /\ 0 \in Nat BY <1>1
  <2> QED BY <1>4, <1>5, <2>1 DEF PeriodSound
<1>7. ASSUME NEW from \in 0..now' PROVE PaidIn(paid', from) <= 2 * Largest
  <2>1. from \in Int BY <1>1
  <2>2. PaidIn(paid', from) = 0 BY <2>1, NothingPaidYet
  <2> QED BY <1>1, <2>2
<1>8. CapPerWindow' BY <1>7 DEF CapPerWindow, Paid, PaidIn, Times
<1> QED BY <1>2, <1>6, <1>8

(* Time passes: the window that begins now holds nothing yet.              *)
LEMMA TimePasses ==
    ASSUME WithdrawalInv, now' \in Times, now' = now \/ now' = now + 1, UNCHANGED <<period, paid>>
    PROVE  /\ now' \in Times /\ \A t \in Times : t > now' => paid'[t] = 0
           /\ PeriodSound' /\ CapPerWindow'
<1>1. /\ now \in Nat /\ now' \in Nat /\ paid \in [Times -> Nat]
      /\ \A t \in Times : t \in Int /\ (t > now => paid[t] = 0)
  BY FactoryAdminAssumption DEF WithdrawalInv, WithdrawalTypes, Times
<1>2. \A t \in Times : t > now' => paid'[t] = 0 BY <1>1
<1>3. 0..now \subseteq 0..now' BY <1>1
<1>4. PeriodSound' BY <1>3 DEF WithdrawalInv, PeriodSound, RunsSince, PaidAfter
<1>5. ASSUME NEW from \in 0..now' PROVE PaidIn(paid, from) <= 2 * Largest
  <2>1. CASE from \in 0..now BY <2>1, CapOfWindows DEF WithdrawalInv
  <2>2. CASE from \notin 0..now
    <3>1. from \in Int /\ from > now BY <1>1, <2>2
    <3>2. now \in Int BY <1>1
    <3>3. PaidIn(paid, from) = 0 BY <1>1, <3>1, <3>2, NothingAfter
    <3> QED BY <3>3, PolicyBounds
  <2> QED BY <2>1, <2>2
<1>6. CapPerWindow' BY <1>5 DEF CapPerWindow, Paid, PaidIn, Times
<1> QED BY <1>2, <1>4, <1>6

LEMMA TreasuryStep ==
    ASSUME Administered, WithdrawalInv, TreasuryNext
    PROVE  WithdrawalInv'
<1>1. /\ now \in Times /\ now \in Nat /\ delay \in Nat /\ withdrawalCount \in Nat
      /\ withdrawals \in [WithdrawalId -> Withdrawal \cup {Nothing}]
  BY FactoryAdminAssumption DEF WithdrawalInv, WithdrawalTypes, Times
<1>2. ASSUME UNCHANGED settings PROVE PolicyKnown' BY <1>2 DEF WithdrawalInv, PolicyKnown
<1>3. Withdrawable \subseteq Nat /\ Delays \subseteq Nat BY FactoryTreasuryAssumption
<1>4. /\ paid \in [Times -> Nat] /\ \A t \in Times : t > now => paid[t] = 0
  BY DEF WithdrawalInv, WithdrawalTypes
<1>5. ASSUME NEW r \in Account, NEW a \in Withdrawable, WithdrawFees(r, a) PROVE WithdrawalInv'
  <2>1. /\ Permits(r, a) /\ Pay(a) /\ a \in Nat
        /\ UNCHANGED <<now, settings, delay, withdrawals, withdrawalCount>>
    BY <1>3, <1>5 DEF WithdrawFees, adminVars
  <2>2. /\ paid' \in [Times -> Nat] /\ \A t \in Times : t > now' => paid'[t] = 0
        /\ PeriodSound' /\ CapPerWindow'
    BY <2>1, PaySound
  <2> QED BY <1>1, <1>2, <2>1, <2>2 DEF WithdrawalInv, WithdrawalTypes
<1>6. ASSUME NEW r \in Account, NEW a \in Withdrawable, QueueWithdrawal(r, a) PROVE WithdrawalInv'
  <2> DEFINE q == [state |-> "Queued", recipient |-> r, amount |-> a,
                   queuedAt |-> now, executableAt |-> now + delay]
  <2>1. /\ UNCHANGED <<now, settings, delay, paid>> /\ withdrawalCount' = withdrawalCount + 1
        /\ withdrawals' = [withdrawals EXCEPT ![withdrawalCount] = q]
        /\ period' = period \/ period' = Current
    BY <1>6 DEF QueueWithdrawal, adminVars
  <2>2. q \in Withdrawal BY <1>1, <1>3 DEF Withdrawal
  <2> HIDE DEF q
  <2>3. withdrawals' \in [WithdrawalId -> Withdrawal \cup {Nothing}]
    <3> DEFINE W == Withdrawal \cup {Nothing}
    <3>1. q \in W /\ withdrawals \in [WithdrawalId -> W] BY <1>1, <2>2
    <3> HIDE DEF W
    <3>2. withdrawals' \in [WithdrawalId -> W] BY <2>1, <3>1
    <3> QED BY <3>2 DEF W
  <2>4. withdrawalCount' \in Nat BY <1>1, <2>1
  <2>5. PeriodSound' /\ CapPerWindow' BY <2>1, NoPayment
  <2> QED BY <1>1, <1>2, <1>4, <2>1, <2>3, <2>4, <2>5 DEF WithdrawalInv, WithdrawalTypes
<1>7. ASSUME NEW i \in WithdrawalId, CancelWithdrawal(i) PROVE WithdrawalInv'
  <2>1. /\ UNCHANGED <<now, settings, delay, withdrawalCount, paid, period>>
        /\ withdrawals' = [withdrawals EXCEPT ![i] = Nothing]
    BY <1>7 DEF CancelWithdrawal, adminVars
  <2>2. PeriodSound' /\ CapPerWindow' BY <2>1, NoPayment
  <2> QED BY <1>1, <1>2, <1>4, <2>1, <2>2 DEF WithdrawalInv, WithdrawalTypes
<1>8. ASSUME NEW i \in WithdrawalId, ExecuteWithdrawal(i) PROVE WithdrawalInv'
  <2>1. /\ withdrawals[i].state = "Queued"
        /\ Permits(withdrawals[i].recipient, withdrawals[i].amount) /\ Pay(withdrawals[i].amount)
        /\ UNCHANGED <<now, settings, delay, withdrawalCount>>
        /\ withdrawals' = [withdrawals EXCEPT ![i] = Nothing]
    BY <1>8 DEF ExecuteWithdrawal, adminVars
  <2>2. withdrawals[i] \in Withdrawal BY <1>1, <2>1 DEF Nothing
  <2>3. withdrawals[i].amount \in Nat BY <2>2 DEF Withdrawal
  <2>4. /\ paid' \in [Times -> Nat] /\ \A t \in Times : t > now' => paid'[t] = 0
        /\ PeriodSound' /\ CapPerWindow'
    BY <2>1, <2>3, PaySound
  <2> QED BY <1>1, <1>2, <2>1, <2>4 DEF WithdrawalInv, WithdrawalTypes
<1>9. CASE (\E d \in Delays : SetDelay(d)) \/ (\E recipients : SetAllowed(recipients))
  <2>1. /\ UNCHANGED <<now, settings, withdrawals, withdrawalCount, paid, period>>
        /\ delay' \in Nat
    BY <1>1, <1>3, <1>9 DEF SetDelay, SetAllowed, adminVars
  <2>2. PeriodSound' /\ CapPerWindow' BY <2>1, NoPayment
  <2> QED BY <1>1, <1>2, <1>4, <2>1, <2>2 DEF WithdrawalInv, WithdrawalTypes
<1>10. ASSUME NEW policy \in Policies, InitializePolicy(policy) PROVE WithdrawalInv'
  <2>1. /\ Apply([policy |-> policy]) /\ period' = Started /\ paid' = NothingPaid
        /\ UNCHANGED <<now, delay, withdrawals, withdrawalCount>>
    BY <1>10 DEF InitializePolicy
  <2>2. PolicyKnown' BY <2>1, ApplyKnows DEF WithdrawalInv
  <2>3. /\ paid' \in [Times -> Nat] /\ \A t \in Times : t > now' => paid'[t] = 0
        /\ PeriodSound' /\ CapPerWindow'
    BY <1>1, <2>1, InitializedSound
  <2> QED BY <1>1, <2>1, <2>2, <2>3 DEF WithdrawalInv, WithdrawalTypes
<1> QED BY <1>5, <1>6, <1>7, <1>8, <1>9, <1>10 DEF TreasuryNext, Withdraws, Settles, Regulates

LEMMA WithdrawalStep ==
    ASSUME Administered, WithdrawalInv, [FactoryNext]_factoryVars
    PROVE  WithdrawalInv'
<1>1. CASE TreasuryNext BY <1>1, TreasuryStep
<1>2. CASE UNCHANGED treasuryVars
  <2>1. PolicyKnown' BY StepsOfTheContract, PolicyStaysKnown DEF WithdrawalInv
  <2>2. now' \in Times /\ (now' = now \/ now' = now + 1)
    <3>1. now \in Times /\ now \in Nat
      BY FactoryAdminAssumption DEF WithdrawalInv, WithdrawalTypes, Times
    <3>2. now' = now \/ (now < MaxTime /\ now' = now + 1) BY StepsOfTheContract, TimeMoves
    <3> QED BY <3>1, <3>2, FactoryAdminAssumption DEF Times
  <2>3. /\ now' \in Times /\ \A t \in Times : t > now' => paid'[t] = 0
        /\ PeriodSound' /\ CapPerWindow'
    BY <1>2, <2>2, TimePasses DEF treasuryVars
  <2> QED BY <1>2, <2>1, <2>3 DEF treasuryVars, WithdrawalInv, WithdrawalTypes
<1> QED BY <1>1, <1>2 DEF FactoryNext, factoryVars

LEMMA WithdrawalInit ==
    ASSUME FactoryInit
    PROVE  WithdrawalInv
<1>1. now = 0 /\ now \in Times BY FactoryAdminAssumption DEF FactoryInit, AdminInit, Times
<1>2. PolicyKnown BY FactoryAdminAssumption DEF FactoryInit, AdminInit, PolicyKnown
<1>3. period = NoPeriod /\ paid = NothingPaid BY DEF FactoryInit, TreasuryInit
<1>4. WithdrawalTypes
  <2>1. paid \in [Times -> Nat] /\ \A t \in Times : t > now => paid[t] = 0
    BY <1>3, NothingPaidYet DEF NothingPaid, Times
  <2> QED BY <1>1, <2>1, FactoryTreasuryAssumption DEF FactoryInit, TreasuryInit, WithdrawalTypes
<1>5. CapPerWindow
  <2>1. ASSUME NEW from \in 0..now PROVE PaidIn(paid, from) <= 2 * Largest
    <3>1. from \in Int BY <1>1
    <3>2. PaidIn(paid, from) = 0 BY <1>3, <3>1, NothingPaidYet
    <3> QED BY <3>2, PolicyBounds
  <2> QED BY <2>1, CapOfWindows
<1> QED BY <1>2, <1>3, <1>4, <1>5 DEF WithdrawalInv, PeriodSound

(* However withdrawals, changes of policy and ends of periods fall, no     *)
(* stretch of time as long as the shortest period sees more leave than     *)
(* twice the largest cap, since the policy was last initialized            *)
(* (treasury.rs:60-144, treasury_timelock.rs:140-170).                     *)
THEOREM WithdrawalsStayCapped == FactorySpec => []CapPerWindow
<1>1. FactoryInit => WithdrawalInv BY WithdrawalInit
<1>2. Administered /\ WithdrawalInv /\ [FactoryNext]_factoryVars => WithdrawalInv'
  BY WithdrawalStep
<1>3. WithdrawalInv => CapPerWindow BY DEF WithdrawalInv
<1> QED BY <1>1, <1>2, <1>3, AdministrationSound, PTL DEF FactorySpec
=============================================================================
