---------------------- MODULE GovernanceDelegationProps ----------------------
(***************************************************************************)
(* What delegation must guarantee, as predicates over the contract state.  *)
(***************************************************************************)
EXTENDS GovernanceDelegation

DelegatorsOf(b) == {a \in Address : delegation[a].delegatee = b}

(* No chain of delegations ever closes: delegate refuses a delegatee that  *)
(* has itself delegated, so every non-empty set of delegators has one whose*)
(* delegatee lies outside it (delegation.rs, circular check).              *)
Acyclic ==
    \A S \in SUBSET {a \in Address : Delegates(a)} :
        S # {} => \E a \in S : delegation[a].delegatee \notin S

(* The sweep before a vote visits only the delegatee's list, so every      *)
(* expiring delegation must be on its delegatee's list, whatever           *)
(* re-delegations, renewals and sweeps came before; and an expiry never    *)
(* outlives its delegation (delegation_expiry.rs).                         *)
ExpiringIsListed ==
    \A a \in Address : expiry[a] # NoExpiry =>
        /\ Delegates(a)
        /\ a \in delegators[delegation[a].delegatee]

(* The vote power an address should have: its own balance unless it is     *)
(* delegated away, and the balances of those who delegate to it.           *)
Entitlement(b) ==
    (IF Delegates(b) THEN 0 ELSE balance[b])
        + SumFunctionOnSet(balance, DelegatorsOf(b))

PowerIsEntitlement == \A b \in Address : power[b] = Entitlement(b)
=============================================================================
