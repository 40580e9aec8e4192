------------------------- MODULE MCGovernanceVoting --------------------------
(***************************************************************************)
(* Model checking delegation and voting, in three cases: delegation alone, *)
(* under every change of balances and admin; a contract that is            *)
(* initialized and whose three holders then receive equal balances; and    *)
(* the whole course of a proposal between two holders of unequal ones.     *)
(***************************************************************************)
EXTENDS GovernanceVotingProps, TLC

VARIABLE case   \* which of the cases this behaviour belongs to

Symmetry == Permutations(Address) \cup Permutations(Admins)

NoneMinted == [a \in Address |-> 0]

Delegating == [holders |-> Address, admins |-> Admins, amounts |-> {0, 2}, time |-> 2,
               power |-> 4, thresholds |-> {}, windows |-> {}]
Opening(d) == [holders |-> Address, admins |-> {d}, amounts |-> {1}, time |-> 1,
               power |-> 2, thresholds |-> {50}, windows |-> {}]
Deciding(a, b, d) == [holders |-> {a, b}, admins |-> {d}, amounts |-> {}, time |-> 3,
               power |-> 3, thresholds |-> Thresholds, windows |-> Windows]

MCInit ==
    /\ drifted = FALSE
    /\ \/ case = Delegating /\ Init
       \/ \E d \in Admins : case = Opening(d) /\ UninitializedInit
       \/ \E a, b \in Address, d \in Admins :
             /\ a # b
             /\ case = Deciding(a, b, d) /\ admin = d
             /\ StorageWith([h \in Address |-> IF h = a THEN 2 ELSE IF h = b THEN 1 ELSE 0])
             /\ NoProposals

(* A proposal that was created before initialize, which resets the counter,*)
(* is overwritten by the next one: that next one is not created here.      *)
Within ==
    /\ now' <= case.time /\ admin' \in case.admins \cup {NoOne}
    /\ \A a \in Address :
          /\ balance'[a] # balance[a] => balance'[a] \in case.amounts
          /\ power'[a] <= case.power /\ expiry'[a] <= case.time
          /\ a \notin case.holders => delegation'[a] = delegation[a] /\ power'[a] = 0
    /\ proposalCount' > proposalCount =>
          LET created == proposals'[proposalCount] IN
          /\ ~Exists(proposalCount)
          /\ created.threshold \in case.thresholds /\ created.votingEnd <= case.time
    /\ changeWindow' \in case.windows \cup {NoWindow}

MCNext ==
    /\ Next /\ Drifts /\ Within /\ UNCHANGED case

MCSpec == MCInit /\ [][MCNext]_<<vars, case, drifted>>
=============================================================================
