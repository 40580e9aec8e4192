------------------------- MODULE LeaderElectionProps -------------------------
(***************************************************************************)
(* What leader election must guarantee, and what its comments claim.       *)
(***************************************************************************)
EXTENDS LeaderElection

(* A fencing token names one term of one instance: whatever beats, lapses, *)
(* late answers and releases overlapped, no two processes ever hold the    *)
(* same token, so at most one passes validateFencingToken at any time      *)
(* (leaderElection.ts:13-24).                                              *)
NoSharedToken ==
    \A i, j \in Instance :
        i # j /\ fencingToken[i] = fencingToken[j] => fencingToken[i] = NoToken

(* Whoever holds the lock won the newest term, and every token that a      *)
(* process has, or that is on its way to it, is one that it won, in the    *)
(* order it won them: with the status-2 branch answering the current       *)
(* counter, a renewal can only repeat a token to its winner, also when the *)
(* answer arrives after the lease moved on (leaderElection.ts:91-104).     *)
Won(w, i, t) == t \in 1..Len(w) /\ w[t] = i
Granted(r) == r.op \in Acquire /\ r.status # 0

OwnTerms(i) ==
    /\ fencingToken[i] # NoToken => Won(winners, i, fencingToken[i])
    /\ \A n \in 1..Len(replies[i]) : Granted(replies[i][n]) =>
          /\ Won(winners, i, replies[i][n].token)
          /\ fencingToken[i] <= replies[i][n].token
          /\ \A m \in 1..Len(replies[i]) : n < m /\ Granted(replies[i][m]) =>
                replies[i][n].token <= replies[i][m].token

TokensAreWon ==
    /\ lock # NoOne => Won(winners, lock, Counter)
    /\ \A i \in Instance : OwnTerms(i)

(* The Redis lease and the processes' view of it implement the promise.    *)
Lease == INSTANCE FencedLease WITH holder <- lock, belief <- fencingToken

ImplementsFencedLease == Lease!FencedLeaseSpec

(* Failover: as long as one process beats for good, and lapses and errors  *)
(* come to an end, some process leads in the end and goes on leading       *)
(* (leaderElection.ts:26-31).                                              *)
Leads(i) == leader[i] /\ lock = i

LeadershipSettles ==
    (\E i \in Instance : <>[]Beating(i)) => <>[](\E j \in Instance : Leads(j) /\ Beating(j))
=============================================================================
