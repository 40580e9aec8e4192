------------------------ MODULE GovernanceVotingProps ------------------------
(***************************************************************************)
(* What proposals and voting must guarantee, over the contract state.      *)
(***************************************************************************)
EXTENDS GovernanceVoting, GovernanceDelegationProps

VARIABLE drifted    \* history: a holder's balance changed while it delegated

Decided == {"Passed", "Rejected", "Failed", "Executed"}
Weights(p) == [v \in Address |-> votes[p][v].weight]
Voters(p, side) == {v \in Address : HasVoted(p, v) /\ votes[p][v].inFavor = side}

(* Tallies are only ever incremented by cast_vote and shifted by           *)
(* change_vote, never recomputed; each must still be the sum of the        *)
(* weights recorded for its side, whatever votes were cast and flipped.    *)
TallyIsSumOfVotes ==
    \A p \in ProposalId : Exists(p) =>
        /\ proposals[p].votesFor = SumFunctionOnSet(Weights(p), Voters(p, TRUE))
        /\ proposals[p].votesAgainst = SumFunctionOnSet(Weights(p), Voters(p, FALSE))

(* The verdict of finalize_proposal stays the right one: a decided         *)
(* proposal closed after its voting period, and its stored tallies still   *)
(* meet, or still miss, the quorum and the exact (unrounded) threshold.    *)
Verdict(prop) ==
    LET total == prop.votesFor + prop.votesAgainst
    IN  IF total < prop.quorum THEN {"Failed"}
        ELSE IF 100 * prop.votesFor > total * prop.threshold THEN {"Passed", "Executed"}
        ELSE {"Rejected"}

VerdictStands ==
    \A p \in ProposalId : Exists(p) /\ proposals[p].status \in Decided =>
        /\ now > proposals[p].votingEnd
        /\ proposals[p].status \in Verdict(proposals[p])

(* A proposal that has left Active is over: its tallies and the votes on   *)
(* it never change again, and its only remaining step is Passed to         *)
(* Executed (cast_vote, change_vote, cancel, finalize, execute guards).    *)
ClosedStaysClosed ==
    [][\A p \in ProposalId : Exists(p) /\ ~IsActive(p) =>
          /\ votes'[p] = votes[p]
          /\ \/ proposals'[p] = proposals[p]
             \/ /\ proposals[p].status = "Passed"
                /\ proposals'[p] = [proposals[p] EXCEPT !.status = "Executed"]]_vars

(* The weight a vote was cast with never changes, not even when the voter  *)
(* flips it after losing the power, and no step withdraws a vote.          *)
WeightIsFinal ==
    [][\A p \in ProposalId, v \in Address :
          HasVoted(p, v) => votes'[p][v].weight = votes[p][v].weight]_vars

(* Both: votes stand as they were cast, and a verdict stands with them.    *)
VotesStand == ClosedStaysClosed /\ WeightIsFinal

VotesNow(p, v) == ~HasVoted(p, v) /\ HasVoted(p, v)'

(* A lapsed delegation never weighs in a vote: once v has voted, nobody's  *)
(* lapsed delegation is left with v and v's own lapsed one is home, so the *)
(* weight is v's power after the sweep (delegation_expiry.rs:1-6).         *)
LapsedNeverVotes ==
    [][\A p \in ProposalId, v \in Address : VotesNow(p, v) =>
          /\ \A a \in Address : ~(Lapsed(a)' /\ (delegation'[a].delegatee = v \/ a = v))
          /\ votes'[p][v].weight = (IF power'[v] > 0 THEN power'[v] ELSE balance[v])]_vars

(* Code against documentation: a delegator's balance was transferred to    *)
(* the delegatee (delegation.rs:7-13), so whoever delegated and receives   *)
(* nothing has nothing left to vote with.  cast_vote falls back to the raw *)
(* balance when the vote power is zero.                                    *)
DelegatedBalanceVotesOnce ==
    [][\A p \in ProposalId, v \in Address :
          VotesNow(p, v) => ~(Delegates(v)' /\ power'[v] = 0)]_vars

-----------------------------------------------------------------------------
(* Exact vote power.  The contract with the history of whether the admin   *)
(* set the balance of a holder that delegates, from any balances on.       *)
Drifts == drifted' = (drifted \/ \E a \in Address : Delegates(a) /\ balance'[a] # balance[a])

DriftInit ==
    /\ admin \in Admins \cup {NoOne} /\ drifted = FALSE /\ NoProposals
    /\ \E balances \in [Address -> Nat] : StorageWith(balances)

DriftSpec == DriftInit /\ [][Next /\ Drifts]_<<vars, drifted>>

(* As long as no delegator's balance changes while it delegates, every     *)
(* sequence of delegate, re-delegate, undelegate, expire and sweep keeps   *)
(* each address's power at exactly what it is entitled to                  *)
(* (delegation.rs, delegation_expiry.rs).                                  *)
ExactPower == ~drifted => PowerIsEntitlement
=============================================================================
