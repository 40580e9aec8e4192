-------------------------- MODULE GovernanceVoting --------------------------
(***************************************************************************)
(* Proposals and voting in the governance contract, composed with the      *)
(* delegation state that voting reads and sweeps                           *)
(* (contracts/governance/src: lib.rs, proposal_cancellation.rs,            *)
(* vote_change.rs, delegation_expiry.rs).  Every call is one transaction.  *)
(*                                                                         *)
(* Abstracted: descriptions and payloads; the disbursement of a proposal,  *)
(* which create_proposal always stores as None.                            *)
(***************************************************************************)
EXTENDS GovernanceDelegation

CONSTANTS
    Proposers,      \* accounts that create proposals
    MaxProposals,   \* bound: proposals created
    Periods,        \* voting periods a proposal may ask for
    Quorums,        \* quorums a proposal may ask for
    Thresholds,     \* percentages a proposal may ask for
    Windows         \* vote-change windows the admin may set

ASSUME VotingAssumption ==
    /\ MaxProposals \in Nat \ {0}
    /\ Periods \subseteq Nat \ {0}
    /\ Quorums \subseteq Nat \ {0}
    /\ Thresholds \subseteq 0..100
    /\ Windows \subseteq Nat

VARIABLES
    proposals,      \* Proposal(id)
    votes,          \* Vote(id, voter)
    proposalCount,  \* ProposalCount
    changeWindow    \* VoteChangeKey::Window

proposalVars == <<proposals, votes, proposalCount, changeWindow>>
vars == <<govVars, proposalVars>>

ProposalId == 0..(MaxProposals - 1)
NoWindow == -1

Status == {"Active", "Passed", "Rejected", "Failed", "Executed", "Cancelled"}

NoProposal == [status |-> "None"]
Proposal == [status : Status, creator : Proposers, votingEnd : Nat,
             quorum : Nat, threshold : 0..100, votesFor : Nat, votesAgainst : Nat]

(* weight 0 stands for "no vote recorded": a recorded weight is positive.  *)
NoVote == [weight |-> 0, inFavor |-> FALSE]
Vote == [weight : Nat, inFavor : BOOLEAN]

Exists(p) == proposals[p] # NoProposal
IsActive(p) == proposals[p].status = "Active"
HasVoted(p, v) == votes[p][v] # NoVote

VotingTypeOK ==
    /\ proposals \in [ProposalId -> Proposal \cup {NoProposal}]
    /\ votes \in [ProposalId -> [Address -> Vote]]
    /\ proposalCount \in 0..MaxProposals
    /\ changeWindow \in Nat \cup {NoWindow}

TypeOK == GovTypeOK /\ VotingTypeOK

-----------------------------------------------------------------------------
NoProposals ==
    /\ proposals = [p \in ProposalId |-> NoProposal]
    /\ votes = [p \in ProposalId |-> [v \in Address |-> NoVote]]
    /\ proposalCount = 0
    /\ changeWindow = NoWindow

(* initialize also resets the proposal counter.                            *)
InitializeContract(a) ==
    /\ Initialize(a)
    /\ proposalCount' = 0
    /\ UNCHANGED <<proposals, votes, changeWindow>>

CreateProposal(c, period, quorum, threshold) ==
    /\ proposalCount < MaxProposals
    /\ proposals' = [proposals EXCEPT ![proposalCount] =
                        [status |-> "Active", creator |-> c,
                         votingEnd |-> now + period, quorum |-> quorum,
                         threshold |-> threshold,
                         votesFor |-> 0, votesAgainst |-> 0]]
    /\ proposalCount' = proposalCount + 1
    /\ UNCHANGED <<govVars, votes, changeWindow>>

(* sweep_for_voter: the voter's own lapsed delegation comes home first,    *)
(* then the lapsed delegations to the voter.  Taking amounts off one by    *)
(* one, floored at zero each time, ends where taking off their sum does.   *)
OwnLapsedIgnored(v) == {}    \* mutation

OwnLapsed(v) == IF Lapsed(v) /\ Delegates(v) THEN {v} ELSE {}
StillDelegating(v) == {a \in delegators[v] : delegation[a].delegatee = v}
LapsedTo(v) == {a \in StillDelegating(v) : Lapsed(a)}
Received == [a \in Address |-> delegation[a].amount]
Swept(v) == OwnLapsed(v) \cup LapsedTo(v)

SweptPower(v) ==
    LET home == IF OwnLapsed(v) = {} THEN power ELSE MoveBack(power, v)
        left == Debit(home, v, SumFunctionOnSet(Received, LapsedTo(v)))
    IN  [a \in Address |->
            IF a \in LapsedTo(v) THEN left[a] + delegation[a].amount ELSE left[a]]

SweepForVoter(v) ==
    /\ power' = SweptPower(v)
    /\ delegation' = [a \in Address |->
                        IF a \in Swept(v) THEN NoDelegation ELSE delegation[a]]
    /\ expiry' = [a \in Address |->
                        IF a \in Swept(v) THEN NoExpiry ELSE expiry[a]]
    /\ delegators' = [delegators EXCEPT ![v] = StillDelegating(v) \ LapsedTo(v)]
    /\ UNCHANGED <<adminVars, balance, now>>

(* The swept vote power, or the raw balance when there is none.            *)
Weight(v) == IF SweptPower(v)[v] > 0 THEN SweptPower(v)[v] ELSE balance[v]

AddVote(prop, w, inFavor) ==
    IF inFavor THEN [prop EXCEPT !.votesFor = @ + w]
               ELSE [prop EXCEPT !.votesAgainst = @ + w]

CastVote(v, p, inFavor) ==
    /\ IsActive(p)
    /\ now <= proposals[p].votingEnd
    /\ ~HasVoted(p, v)
    /\ Weight(v) > 0
    /\ SweepForVoter(v)
    /\ votes' = [votes EXCEPT ![p][v] = [weight |-> Weight(v), inFavor |-> inFavor]]
    /\ proposals' = [proposals EXCEPT ![p] = AddVote(@, Weight(v), inFavor)]
    /\ UNCHANGED <<proposalCount, changeWindow>>

SetVoteChangeWindow(w) ==
    /\ admin # NoOne
    /\ changeWindow' = w
    /\ UNCHANGED <<govVars, proposals, votes, proposalCount>>

(* Mutations: the weight moved is the voter's power now; a decided        *)
(* proposal takes changes too.                                             *)
ChangeVoteLivePower(v, p) ==
    /\ IsActive(p) /\ changeWindow # NoWindow /\ HasVoted(p, v)
    /\ votes' = [votes EXCEPT ![p][v].inFavor = ~@]
    /\ proposals' = [proposals EXCEPT ![p] =
          IF votes[p][v].inFavor
            THEN [@ EXCEPT !.votesFor = @ - power[v], !.votesAgainst = @ + power[v]]
            ELSE [@ EXCEPT !.votesFor = @ + power[v], !.votesAgainst = @ - power[v]]]
    /\ UNCHANGED <<govVars, proposalCount, changeWindow>>

ChangeVoteAnyStatus(v, p) ==
    /\ changeWindow # NoWindow /\ HasVoted(p, v)
    /\ votes' = [votes EXCEPT ![p][v].inFavor = ~@]
    /\ UNCHANGED <<govVars, proposals, proposalCount, changeWindow>>

(* change_vote moves the recorded weight to the other tally.               *)
ChangeVote(v, p) ==
    LET old == votes[p][v]
        prop == proposals[p]
    IN  /\ IsActive(p)
        /\ changeWindow # NoWindow
        /\ now <= Floor0(prop.votingEnd - changeWindow)
        /\ HasVoted(p, v)
        /\ votes' = [votes EXCEPT ![p][v].inFavor = ~old.inFavor]
        /\ proposals' = [proposals EXCEPT ![p] =
              [prop EXCEPT
                 !.votesFor = IF old.inFavor THEN @ - old.weight ELSE @ + old.weight,
                 !.votesAgainst = IF old.inFavor THEN @ + old.weight ELSE @ - old.weight]]
        /\ UNCHANGED <<govVars, proposalCount, changeWindow>>

CancelProposal(c, p) ==
    /\ IsActive(p)
    /\ proposals[p].creator = c
    /\ proposals[p].votesFor = 0
    /\ proposals[p].votesAgainst = 0
    /\ proposals' = [proposals EXCEPT ![p].status = "Cancelled"]
    /\ UNCHANGED <<govVars, votes, proposalCount, changeWindow>>

(* Mutation: reaching the rounded threshold is enough.                     *)
OutcomeReached(prop) ==
    LET total == prop.votesFor + prop.votesAgainst
    IN  IF total < prop.quorum THEN "Failed"
        ELSE IF prop.votesFor >= (total * prop.threshold) \div 100 THEN "Passed"
        ELSE "Rejected"

(* The threshold is a whole-number share of the total, rounded down.       *)
Outcome(prop) ==
    LET total == prop.votesFor + prop.votesAgainst
    IN  IF total < prop.quorum THEN "Failed"
        ELSE IF prop.votesFor > (total * prop.threshold) \div 100 THEN "Passed"
        ELSE "Rejected"

FinalizeProposal(p) ==
    /\ IsActive(p)
    /\ now > proposals[p].votingEnd
    /\ proposals' = [proposals EXCEPT ![p].status = Outcome(proposals[p])]
    /\ UNCHANGED <<govVars, votes, proposalCount, changeWindow>>

ExecuteProposal(p) ==
    /\ proposals[p].status = "Passed"
    /\ proposals' = [proposals EXCEPT ![p].status = "Executed"]
    /\ UNCHANGED <<govVars, votes, proposalCount, changeWindow>>

-----------------------------------------------------------------------------
(* The delegation calls, and the clock, leave the proposals alone.         *)
DelegationCall == DelegationNext /\ UNCHANGED proposalVars

ProposalCall ==
    \/ \E c \in Proposers, d \in Periods, q \in Quorums, t \in Thresholds :
          CreateProposal(c, d, q, t)
    \/ \E v \in Address, p \in ProposalId, f \in BOOLEAN : CastVote(v, p, f)
    \/ \E v \in Address, p \in ProposalId : ChangeVote(v, p)
    \/ \E w \in Windows \cup {NoWindow} : SetVoteChangeWindow(w)
    \/ \E c \in Proposers, p \in ProposalId : CancelProposal(c, p)
    \/ \E p \in ProposalId : FinalizeProposal(p)
    \/ \E p \in ProposalId : ExecuteProposal(p)

Next ==
    \/ \E a \in Admins : InitializeContract(a)
    \/ DelegationCall
    \/ ProposalCall

(* The documented order calls initialize first (Spec); nothing in the code *)
(* enforces it (FreshSpec).                                                *)
Init == DelegationInit /\ NoProposals
Spec == Init /\ [][DelegationCall \/ ProposalCall]_vars

UninitializedInit == FreshInit /\ NoProposals
FreshSpec == UninitializedInit /\ [][Next]_vars
=============================================================================
