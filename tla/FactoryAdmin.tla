----------------------------- MODULE FactoryAdmin -----------------------------
(***************************************************************************)
(* Administration of the token factory contract: the four ways in which    *)
(* its settings change (contracts/token-factory/src).                      *)
(*                                                                         *)
(*  - proposals: voted on, queued, executed after eta, in the order of     *)
(*    their type's queue (timelock.rs, proposal_type_queue.rs,             *)
(*    proposal_state_machine.rs, governance.rs);                           *)
(*  - pending changes that the admin schedules (timelock.rs);              *)
(*  - actions that a threshold of signers approves (lib.rs);               *)
(*  - direct calls of the admin, who can also be replaced (lib.rs).        *)
(*                                                                         *)
(* Every call is one transaction: a call that returns an error leaves no   *)
(* trace.  now is the timestamp of the ledger.  A payload is the effect it *)
(* decodes to, a function from the settings it writes to their values.     *)
(* Left out: events, snapshots for analytics, timelock_delay (recorded     *)
(* when a proposal is queued and never read), and the history from which   *)
(* the dynamic quorum is computed.                                         *)
(***************************************************************************)
EXTENDS Integers, Sequences, FiniteSets

CONSTANTS
    Account,        \* accounts that vote, sign, or are admin
    Treasuries, Fees, Policies,     \* values of the settings of these names
    DefaultPolicy,  \* get_treasury_policy of a new contract
    Supplies,       \* circulating supply when a proposal is created
    Percents,       \* quorum and approval percentages in use
    Types,          \* the action types proposed
    MinTimelock, MaxTimelock,   \* MIN_TIMELOCK_DELAY, MAX_TIMELOCK_DELAY
    ChangeDelay,    \* delay_seconds of pending changes
    AcceptWindow,   \* ADMIN_TRANSFER_TIMEOUT_SECS
    MaxTypeQueue,   \* MAX_TYPE_QUEUE_LENGTH
    MaxProposals, MaxChanges, MaxActions, MaxTime,  \* bounds
    Nobody          \* no account

ActionType == {"FeeChange", "TreasuryChange", "PauseContract",
               "UnpauseContract", "PolicyUpdate", "ParameterChange"}

ASSUME FactoryAdminAssumption ==
    /\ IsFiniteSet(Account) /\ Nobody \notin Account
    /\ Fees \subseteq Nat /\ Supplies \subseteq Nat /\ Percents \subseteq 0..100 /\ {30, 51} \subseteq Percents
    /\ DefaultPolicy \in Policies /\ Types \subseteq ActionType
    /\ MinTimelock \in Nat \ {0} /\ MaxTimelock \in Nat /\ ChangeDelay \in Nat
    /\ AcceptWindow \in Nat /\ MaxTypeQueue \in Nat
    /\ MaxProposals \in Nat /\ MaxChanges \in Nat /\ MaxActions \in Nat
    /\ MaxTime \in Nat

VARIABLES
    now,
    settings,       \* admin, treasury, both fees, paused, treasury policy
    pendingAdmin,   \* proposed admin, its expiry, and (history) who proposed it
    config,         \* quorum and approval percentages
    proposals, proposalCount,
    ballots,        \* who voted what, per proposal
    typeQueue,      \* per action type, proposals in order of execution
    changes, changeCount,
    multisig,       \* signers and threshold; threshold 0: not configured
    actions, actionCount

proposalVars == <<config, proposals, proposalCount, ballots, typeQueue>>
changeVars == <<changes, changeCount>>
multisigVars == <<multisig, actions, actionCount>>
adminVars == <<now, settings, pendingAdmin, proposalVars, changeVars, multisigVars>>

ProposalId == 0..(MaxProposals - 1)
ChangeId == 0..(MaxChanges - 1)
ActionId == 0..(MaxActions - 1)

Nothing == [state |-> "None"]
NoAdmin == [to |-> Nobody, expires |-> 0, by |-> Nobody]
Choice == {"For", "Against", "Abstain"}

AdminInit ==
    /\ now = 0
    /\ \E a \in Account, t \in Treasuries :
          settings = [admin |-> a, treasury |-> t, baseFee |-> 0, metadataFee |-> 0,
                      paused |-> FALSE, policy |-> DefaultPolicy]
    /\ pendingAdmin = NoAdmin
    /\ config = [quorum |-> 30, approval |-> 51]
    /\ proposals = [p \in ProposalId |-> Nothing] /\ proposalCount = 0
    /\ ballots = [p \in ProposalId |-> [a \in Account |-> "None"]]
    /\ typeQueue = [t \in ActionType |-> <<>>]
    /\ changes = [c \in ChangeId |-> Nothing] /\ changeCount = 0
    /\ multisig = [signers |-> {}, threshold |-> 0]
    /\ actions = [m \in ActionId |-> Nothing] /\ actionCount = 0

Tick ==
    /\ now < MaxTime /\ now' = now + 1
    /\ UNCHANGED <<settings, pendingAdmin, proposalVars, changeVars, multisigVars>>

-----------------------------------------------------------------------------
(* What changes write.                                                     *)

Apply(effect) ==
    settings' = [s \in DOMAIN settings |->
                    IF s \in DOMAIN effect THEN effect[s] ELSE settings[s]]

FeePair == [baseFee : Fees, metadataFee : Fees]
Pausing == [paused : BOOLEAN]
NewTreasury == [treasury : Treasuries]

Payload(type) ==
    CASE type = "FeeChange" -> FeePair
      [] type = "TreasuryChange" -> NewTreasury
      [] type = "PauseContract" -> [paused : {TRUE}]
      [] type = "UnpauseContract" -> [paused : {FALSE}]
      [] type = "PolicyUpdate" -> [policy : Policies]
      [] type = "ParameterChange" -> {<<>>}     \* a placeholder: no effect

Schedulable == FeePair \cup [baseFee : Fees] \cup [metadataFee : Fees]
                  \cup Pausing \cup NewTreasury
Signable == FeePair \cup Pausing \cup [admin : Account]

-----------------------------------------------------------------------------
(* Proposals.                                                              *)

CreateProposal(type, effect, start, end, eta, supply) ==
    /\ proposalCount < MaxProposals
    /\ now <= start /\ start < end
    /\ (eta - end) \in MinTimelock..MaxTimelock
    /\ proposals' = [proposals EXCEPT ![proposalCount] =
          [state |-> "Created", type |-> type, effect |-> effect,
           proposer |-> settings.admin, createdAt |-> now,
           start |-> start, end |-> end, eta |-> eta, supply |-> supply,
           for |-> 0, against |-> 0, abstain |-> 0]]
    /\ proposalCount' = proposalCount + 1
    /\ UNCHANGED <<now, settings, pendingAdmin, config, ballots, typeQueue,
                   changeVars, multisigVars>>

InWindow(p) == now >= proposals[p].start /\ now < proposals[p].end

Tallied(p, choice) ==
    LET counted == [proposals[p] EXCEPT !.state = "Active"] IN
    CASE choice = "For" -> [counted EXCEPT !.for = @ + 1]
      [] choice = "Against" -> [counted EXCEPT !.against = @ + 1]
      [] choice = "Abstain" -> [counted EXCEPT !.abstain = @ + 1]

(* The first vote makes the proposal Active.                               *)
Vote(a, p, choice) ==
    /\ proposals[p].state \in {"Created", "Active"} /\ InWindow(p)
    /\ ballots[p][a] = "None"
    /\ ballots' = [ballots EXCEPT ![p][a] = choice]
    /\ proposals' = [proposals EXCEPT ![p] = Tallied(p, choice)]
    /\ UNCHANGED <<now, settings, pendingAdmin, config, proposalCount, typeQueue,
                   changeVars, multisigVars>>

VotesCast(p) == proposals[p].for + proposals[p].against + proposals[p].abstain

(* Without tokens the votes themselves are the electorate.                 *)
Eligible(p) == IF proposals[p].supply > 0 THEN proposals[p].supply
               ELSE IF VotesCast(p) > 0 THEN VotesCast(p) ELSE 1
QuorumMet(p) == VotesCast(p) >= (Eligible(p) * config.quorum + 99) \div 100
ApprovalMet(p) ==
    VotesCast(p) > 0 /\ (proposals[p].for * 100) \div VotesCast(p) >= config.approval

Undecided(p) == proposals[p].state \in {"Created", "Active"}
(* Mutation: a decided proposal is decided again.                          *)
OutcomeAnew(p) == IF ~QuorumMet(p) THEN "Failed"
                  ELSE IF ApprovalMet(p) THEN "Succeeded" ELSE "Defeated"
Outcome(p) == IF ~Undecided(p) THEN proposals[p].state
              ELSE IF ~QuorumMet(p) THEN "Failed"
              ELSE IF ApprovalMet(p) THEN "Succeeded" ELSE "Defeated"

(* Anyone's call, with the percentages in force when it is made.           *)
Finalize(p) ==
    /\ Undecided(p) /\ now >= proposals[p].end
    /\ proposals' = [proposals EXCEPT ![p].state = Outcome(p)]
    /\ UNCHANGED <<now, settings, pendingAdmin, config, proposalCount, ballots,
                   typeQueue, changeVars, multisigVars>>

(* Mutation: queue_proposal trusts the percentages alone.                  *)
QueueSucceeded(p) ==
    /\ proposals[p] # Nothing /\ now >= proposals[p].end
    /\ Outcome(p) = "Succeeded"
    /\ proposals' = [proposals EXCEPT ![p].state = "Queued"]
    /\ UNCHANGED <<now, settings, pendingAdmin, config, proposalCount, ballots,
                   typeQueue, changeVars, multisigVars>>

(* queue_proposal finalizes first; its own errors revert that as well.     *)
QueueProposal(p) ==
    /\ proposals[p] # Nothing /\ now >= proposals[p].end
    /\ Outcome(p) = "Succeeded"
    /\ proposals[p].for > proposals[p].against
    /\ proposals' = [proposals EXCEPT ![p].state = "Queued"]
    /\ UNCHANGED <<now, settings, pendingAdmin, config, proposalCount, ballots,
                   typeQueue, changeVars, multisigVars>>

-----------------------------------------------------------------------------
(* The queues of the action types.                                         *)

Queue(p) == typeQueue[proposals[p].type]
IsIn(p, q) == \E k \in 1..Len(q) : q[k] = p

Without(p, q) ==
    IF ~IsIn(p, q) THEN q
    ELSE LET at == CHOOSE k \in 1..Len(q) : q[k] = p
         IN  [k \in 1..(Len(q) - 1) |-> IF k < at THEN q[k] ELSE q[k + 1]]

Dequeue(p) ==
    typeQueue' = [typeQueue EXCEPT ![proposals[p].type] = Without(p, Queue(p))]

Enqueue(p) ==
    /\ proposals[p].state = "Queued"
    /\ Len(Queue(p)) < MaxTypeQueue /\ ~IsIn(p, Queue(p))
    /\ typeQueue' = [typeQueue EXCEPT ![proposals[p].type] = Append(@, p)]
    /\ UNCHANGED <<now, settings, pendingAdmin, config, proposals, proposalCount,
                   ballots, changeVars, multisigVars>>

(* A proposal that was never enqueued is not held up by those that were.   *)
AtFront(p) == IsIn(p, Queue(p)) => Queue(p)[1] = p

Execute(p) ==
    /\ proposals[p].state = "Queued" /\ now >= proposals[p].eta /\ AtFront(p)
    /\ Apply(proposals[p].effect)
    /\ proposals' = [proposals EXCEPT ![p].state = "Executed"]
    /\ Dequeue(p)
    /\ UNCHANGED <<now, pendingAdmin, config, proposalCount, ballots,
                   changeVars, multisigVars>>

Terminal == {"Defeated", "Executed", "Cancelled", "Failed"}

(* Mutation: a cancelled proposal stays in its queue.                      *)
CancelKeepsPlace(a, p) ==
    /\ proposals[p] # Nothing /\ proposals[p].state \notin Terminal
    /\ a \in {proposals[p].proposer, settings.admin}
    /\ proposals' = [proposals EXCEPT ![p].state = "Cancelled"]
    /\ UNCHANGED <<now, settings, pendingAdmin, config, proposalCount, ballots,
                   typeQueue, changeVars, multisigVars>>

(* The proposer may, also when no longer admin.                            *)
Cancel(a, p) ==
    /\ proposals[p] # Nothing /\ proposals[p].state \notin Terminal
    /\ a \in {proposals[p].proposer, settings.admin}
    /\ proposals' = [proposals EXCEPT ![p].state = "Cancelled"]
    /\ Dequeue(p)
    /\ UNCHANGED <<now, settings, pendingAdmin, config, proposalCount, ballots,
                   changeVars, multisigVars>>

-----------------------------------------------------------------------------
(* Pending changes of the admin.                                           *)

Schedule(effect) ==
    /\ changeCount < MaxChanges
    /\ changes' = [changes EXCEPT ![changeCount] =
          [state |-> "Pending", effect |-> effect, scheduledAt |-> now,
           executeAt |-> now + ChangeDelay]]
    /\ changeCount' = changeCount + 1
    /\ UNCHANGED <<now, settings, pendingAdmin, proposalVars, multisigVars>>

ExecuteChange(c) ==
    /\ changes[c].state = "Pending" /\ now >= changes[c].executeAt
    /\ Apply(changes[c].effect)
    /\ changes' = [changes EXCEPT ![c].state = "Executed"]
    /\ UNCHANGED <<now, pendingAdmin, proposalVars, changeCount, multisigVars>>

CancelChange(c) ==
    /\ changes[c].state = "Pending"
    /\ changes' = [changes EXCEPT ![c] = Nothing]
    /\ UNCHANGED <<now, settings, pendingAdmin, proposalVars, changeCount, multisigVars>>

-----------------------------------------------------------------------------
(* Multi-signature actions.                                                *)

ConfigureMultisig(signers, threshold) ==
    /\ threshold \in 1..Cardinality(signers)
    /\ multisig' = [signers |-> signers, threshold |-> threshold]
    /\ UNCHANGED <<now, settings, pendingAdmin, proposalVars, changeVars, actions,
                   actionCount>>

ProposeAction(s, effect) ==
    /\ actionCount < MaxActions /\ s \in multisig.signers
    /\ actions' = [actions EXCEPT ![actionCount] =
          [state |-> "Pending", effect |-> effect, proposer |-> s, approvals |-> {}]]
    /\ actionCount' = actionCount + 1
    /\ UNCHANGED <<now, settings, pendingAdmin, proposalVars, changeVars, multisig>>

Reached(n) == n >= multisig.threshold

(* A transfer of the admin role also drops the admin's own proposal.       *)
CarryOut(effect) ==
    /\ Apply(effect)
    /\ pendingAdmin' = IF "admin" \in DOMAIN effect THEN NoAdmin ELSE pendingAdmin

(* The approval that reaches the threshold carries the action out.         *)
ApproveAction(s, m) ==
    LET approvals == actions[m].approvals \cup {s}
        done == Reached(Cardinality(approvals))
    IN  /\ s \in multisig.signers
        /\ actions[m].state = "Pending" /\ s \notin actions[m].approvals
        /\ actions' = [actions EXCEPT ![m].approvals = approvals,
                                      ![m].state = IF done THEN "Executed" ELSE @]
        /\ IF done THEN CarryOut(actions[m].effect)
           ELSE UNCHANGED <<settings, pendingAdmin>>
        /\ UNCHANGED <<now, proposalVars, changeVars, multisig, actionCount>>

(* Needed when the threshold came down to the approvals there are.         *)
ExecuteAction(s, m) ==
    /\ s \in multisig.signers
    /\ actions[m].state = "Pending" /\ Reached(Cardinality(actions[m].approvals))
    /\ actions' = [actions EXCEPT ![m].state = "Executed"]
    /\ CarryOut(actions[m].effect)
    /\ UNCHANGED <<now, proposalVars, changeVars, multisig, actionCount>>

CancelAction(a, m) ==
    /\ actions[m].state = "Pending"
    /\ a \in {settings.admin, actions[m].proposer}
    /\ actions' = [actions EXCEPT ![m].state = "Cancelled"]
    /\ UNCHANGED <<now, settings, pendingAdmin, proposalVars, changeVars, multisig,
                   actionCount>>

-----------------------------------------------------------------------------
(* Direct calls of the admin, and the two-step transfer of the role.       *)

SetPaused(paused) ==
    /\ Apply([paused |-> paused])
    /\ UNCHANGED <<now, pendingAdmin, proposalVars, changeVars, multisigVars>>

UpdatePolicy(policy) ==
    /\ policy \in Policies /\ policy.duration = settings.policy.duration
    /\ Apply([policy |-> policy])
    /\ UNCHANGED <<now, pendingAdmin, proposalVars, changeVars, multisigVars>>

(* By the admin, or the quorum alone by the dynamic adjustment.            *)
SetConfig(quorum, approval) ==
    /\ config' = [quorum |-> quorum, approval |-> approval]
    /\ UNCHANGED <<now, settings, pendingAdmin, proposals, proposalCount, ballots,
                   typeQueue, changeVars, multisigVars>>

TransferAdmin(a) ==
    /\ a # settings.admin
    /\ Apply([admin |-> a]) /\ pendingAdmin' = NoAdmin
    /\ UNCHANGED <<now, proposalVars, changeVars, multisigVars>>

ProposeAdmin(a) ==
    /\ a # settings.admin
    /\ pendingAdmin' = [to |-> a, expires |-> now + AcceptWindow, by |-> settings.admin]
    /\ UNCHANGED <<now, settings, proposalVars, changeVars, multisigVars>>

AcceptAdmin ==
    /\ pendingAdmin # NoAdmin /\ now <= pendingAdmin.expires
    /\ Apply([admin |-> pendingAdmin.to]) /\ pendingAdmin' = NoAdmin
    /\ UNCHANGED <<now, proposalVars, changeVars, multisigVars>>

CancelAdmin ==
    /\ pendingAdmin # NoAdmin /\ pendingAdmin' = NoAdmin
    /\ UNCHANGED <<now, settings, proposalVars, changeVars, multisigVars>>

-----------------------------------------------------------------------------
Announces ==
    \/ \E type \in Types, start, end, eta \in now..MaxTime, supply \in Supplies :
          \E effect \in Payload(type) :
              CreateProposal(type, effect, start, end, eta, supply)
    \/ \E effect \in Schedulable : Schedule(effect)
    \/ \E s \in Account, effect \in Signable : ProposeAction(s, effect)

Proceeds ==
    \/ Tick
    \/ \E p \in ProposalId :
          \/ \E a \in Account, choice \in Choice : Vote(a, p, choice)
          \/ Finalize(p) \/ QueueProposal(p) \/ Enqueue(p) \/ Execute(p)
          \/ \E a \in Account : Cancel(a, p)
    \/ \E c \in ChangeId : ExecuteChange(c) \/ CancelChange(c)
    \/ \E s \in Account, m \in ActionId :
          ApproveAction(s, m) \/ ExecuteAction(s, m) \/ CancelAction(s, m)

Intervenes ==
    \/ \E signers \in SUBSET Account, n \in 1..Cardinality(Account) :
          ConfigureMultisig(signers, n)
    \/ \E paused \in BOOLEAN : SetPaused(paused)
    \/ \E policy \in Policies : UpdatePolicy(policy)
    \/ \E quorum, approval \in Percents : SetConfig(quorum, approval)
    \/ \E a \in Account : TransferAdmin(a) \/ ProposeAdmin(a)
    \/ AcceptAdmin \/ CancelAdmin

AdminNext == Announces \/ Proceeds \/ Intervenes
AdminSpec == AdminInit /\ [][AdminNext]_adminVars
=============================================================================
