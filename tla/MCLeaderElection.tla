-------------------------- MODULE MCLeaderElection ---------------------------
(* Model checking leader election.                                         *)
EXTENDS LeaderElectionProps, TLC

Symmetry == Permutations(Instance)
=============================================================================
