----------------------------- MODULE FencedLease -----------------------------
(***************************************************************************)
(* What leader election promises its callers: a lease with one holder at a *)
(* time, numbered terms, and for every instance a belief in terms that it  *)
(* won itself, in the order it won them.  Nothing is promised about when   *)
(* an instance notices that its term is over.                              *)
(***************************************************************************)
EXTENDS Naturals, Sequences

CONSTANTS Instance, NoOne

VARIABLES
    holder,     \* who has the lease, or NoOne
    winners,    \* winners[t] won term t; terms are the fencing tokens
    belief      \* the term an instance takes to be its own, 0 for none

leaseVars == <<holder, winners, belief>>

Won(i) == {t \in DOMAIN winners : winners[t] = i}

LeaseInit ==
    /\ holder = NoOne
    /\ winners = <<>>
    /\ belief = [i \in Instance |-> 0]

(* A new term begins, exactly when the lease finds a new holder.           *)
Elect(i) ==
    /\ holder = NoOne
    /\ holder' = i
    /\ winners' = Append(winners, i)
    /\ UNCHANGED belief

Vacate ==
    /\ holder # NoOne
    /\ holder' = NoOne
    /\ UNCHANGED <<winners, belief>>

(* An instance learns of a term it won, never of an earlier one than the   *)
(* one it believes in.                                                     *)
Learn(i) ==
    /\ \E t \in Won(i) : t > belief[i] /\ belief' = [belief EXCEPT ![i] = t]
    /\ UNCHANGED <<holder, winners>>

Resign(i) ==
    /\ belief' = [belief EXCEPT ![i] = 0]
    /\ UNCHANGED <<holder, winners>>

LeaseNext ==
    \/ \E i \in Instance : Elect(i) \/ Learn(i) \/ Resign(i)
    \/ Vacate

FencedLeaseSpec == LeaseInit /\ [][LeaseNext]_leaseVars
=============================================================================
