------------------------ MODULE GovernanceDelegation ------------------------
(***************************************************************************)
(* Vote power and delegation in the governance contract                    *)
(* (contracts/governance/src: lib.rs, delegation.rs, delegation_expiry.rs, *)
(* storage.rs).  A contract call is one transaction of the ledger: it      *)
(* either commits every storage write or, when it returns an error, none.  *)
(* So one call is one action, and a call that would fail is not enabled.   *)
(*                                                                         *)
(* Abstracted: the i128 width of amounts (they are bounded far below it),  *)
(* the zero address (no account signs as it), events, and the vote-power   *)
(* snapshots, which the contract writes but no contract call reads.  The   *)
(* list of expiring delegators holds nobody twice and its order shows in   *)
(* no result, so it is a set.                                              *)
(***************************************************************************)
EXTENDS Integers, FiniteSetsExt

CONSTANTS
    Address,        \* accounts that hold, delegate and vote
    Admins,         \* accounts that may be given admin privileges
    NoOne,          \* not an account: "no admin yet", "no delegatee"
    Minted,         \* balances set right after initialize, before anything else
    Amounts,        \* balances the admin may set later
    MaxPower,       \* bound: vote power one account may accumulate
    MaxTime         \* bound: the last ledger timestamp

ASSUME NoOneAssumption == NoOne \notin Address \cup Admins
ASSUME AddressAssumption == IsFiniteSet(Address)
ASSUME AmountsAssumption == Amounts \subseteq Nat /\ Minted \in [Address -> Nat]
ASSUME BoundsAssumption == MaxPower \in Nat /\ MaxTime \in Nat

VARIABLES
    admin,          \* stored admin, NoOne before initialize
    paused,
    balance,        \* Balance(holder)
    power,          \* VotePower(holder)
    delegation,     \* Delegate(delegator): who holds the power, and how much moved
    expiry,         \* ExpiryKey::Expiry(delegator), NoExpiry when absent
    delegators,     \* ExpiryKey::Delegators(delegatee), whom to sweep
    now             \* ledger timestamp

adminVars == <<admin, paused>>
delegationVars == <<balance, power, delegation, expiry, delegators>>
govVars == <<adminVars, delegationVars, now>>

NoExpiry == 0
NoDelegation == [delegatee |-> NoOne, amount |-> 0]

Delegation == [delegatee : Address \cup {NoOne}, amount : Nat]

GovTypeOK ==
    /\ admin \in Admins \cup {NoOne}
    /\ paused \in BOOLEAN
    /\ balance \in [Address -> Nat]
    /\ power \in [Address -> Nat]
    /\ delegation \in [Address -> Delegation]
    /\ expiry \in [Address -> Nat]
    /\ delegators \in [Address -> SUBSET Address]
    /\ now \in Nat

-----------------------------------------------------------------------------
(* A contract whose holders have the given balances, set one by one while  *)
(* nobody delegates, and whose other keys but the admin are absent.        *)
StorageWith(balances) ==
    /\ paused = FALSE
    /\ balance = balances
    /\ power = balances
    /\ delegation = [a \in Address |-> NoDelegation]
    /\ expiry = [a \in Address |-> NoExpiry]
    /\ delegators = [a \in Address |-> {}]
    /\ now = 0

(* initialize must come first: the contract before it, and after it.       *)
FreshInit == admin = NoOne /\ StorageWith([a \in Address |-> 0])
DelegationInit == admin \in Admins /\ StorageWith(Minted)

Floor0(n) == IF n < 0 THEN 0 ELSE n

(* Every move of vote power floors the loser at zero (.max(0)).            *)
Debit(p, a, n) == [p EXCEPT ![a] = Floor0(@ - n)]
Credit(p, a, n) == [p EXCEPT ![a] = @ + n]

Delegates(a) == delegation[a].delegatee # NoOne

(* The reverse move of a delegation record d made by a, applied to powers p:*)
(* the recorded amount leaves the delegatee, floored at zero, and returns.  *)
MoveBack(p, a) ==
    LET d == delegation[a]
    IN  Credit(Debit(p, d.delegatee, d.amount), a, d.amount)

Lapsed(a) == expiry[a] # NoExpiry /\ now >= expiry[a]

-----------------------------------------------------------------------------
(* initialize: the only call that needs no admin.                          *)
Initialize(a) ==
    /\ admin = NoOne
    /\ admin' = a
    /\ UNCHANGED <<paused, delegationVars, now>>

TransferAdmin(a) ==
    /\ admin # NoOne
    /\ a # admin
    /\ admin' = a
    /\ UNCHANGED <<paused, delegationVars, now>>

SetPaused(b) ==
    /\ admin # NoOne
    /\ paused' = b
    /\ UNCHANGED <<admin, delegationVars, now>>

Pause == SetPaused(TRUE)
Unpause == SetPaused(FALSE)

(* set_balance: the difference reaches whoever holds the holder's power;   *)
(* the amount in the delegation record is left as it was.                  *)
SetBalance(h, b) ==
    LET target == IF Delegates(h) THEN delegation[h].delegatee ELSE h
        moved == Floor0(power[target] + b - balance[h])
    IN  /\ admin # NoOne
        /\ ~paused
        /\ moved <= MaxPower
        /\ balance' = [balance EXCEPT ![h] = b]
        /\ power' = [power EXCEPT ![target] = moved]
        /\ UNCHANGED <<adminVars, delegation, expiry, delegators, now>>

(* Mutations: the delegatee's own delegation is not looked at; the old     *)
(* delegatee keeps the power on a re-delegation.                           *)
DelegateToDelegator(a, b) ==
    /\ ~paused /\ a # b /\ balance[a] > 0 /\ ~Delegates(a)
    /\ power' = Credit(Debit(power, a, balance[a]), b, balance[a])
    /\ delegation' = [delegation EXCEPT ![a] = [delegatee |-> b, amount |-> balance[a]]]

DelegateToTwice(a, b) ==
    /\ ~paused /\ a # b /\ ~Delegates(b) /\ balance[a] > 0
    /\ power' = Credit(Debit(power, a, balance[a]), b, balance[a])
    /\ delegation' = [delegation EXCEPT ![a] = [delegatee |-> b, amount |-> balance[a]]]

(* delegation::delegate, shared by the two entry points.  A re-delegation  *)
(* takes the recorded amount from the old delegatee and gives the current  *)
(* balance to the new one; a first delegation takes the balance from the   *)
(* delegator.  Delegating to the same address again changes nothing.       *)
DelegateTo(a, b) ==
    LET source == IF Delegates(a) THEN delegation[a].delegatee ELSE a
        taken == IF Delegates(a) THEN delegation[a].amount ELSE balance[a]
    IN  /\ ~paused
        /\ a # b
        /\ ~Delegates(b)
        /\ balance[a] > 0
        /\ IF delegation[a].delegatee = b
             THEN UNCHANGED <<power, delegation>>
             ELSE /\ power[b] + balance[a] <= MaxPower
                  /\ power' = Credit(Debit(power, source, taken), b, balance[a])
                  /\ delegation' = [delegation EXCEPT ![a] =
                                        [delegatee |-> b, amount |-> balance[a]]]

Delegate(a, b) ==
    /\ DelegateTo(a, b)
    /\ expiry' = [expiry EXCEPT ![a] = NoExpiry]
    /\ UNCHANGED <<adminVars, balance, delegators, now>>

(* Mutation: a re-delegation with expiry is not put on the new list.       *)
DelegateWithExpiryUnlisted(a, b, t) ==
    /\ t > now
    /\ DelegateTo(a, b)
    /\ expiry' = [expiry EXCEPT ![a] = t]
    /\ delegators' = [delegators EXCEPT ![b] =
                         IF Delegates(a) THEN @ ELSE @ \cup {a}]
    /\ UNCHANGED <<adminVars, balance, now>>

DelegateWithExpiry(a, b, t) ==
    /\ t > now
    /\ DelegateTo(a, b)
    /\ expiry' = [expiry EXCEPT ![a] = t]
    /\ delegators' = [delegators EXCEPT ![b] = @ \cup {a}]
    /\ UNCHANGED <<adminVars, balance, now>>

Undelegate(a) ==
    /\ ~paused
    /\ Delegates(a)
    /\ power[a] + delegation[a].amount <= MaxPower
    /\ power' = MoveBack(power, a)
    /\ delegation' = [delegation EXCEPT ![a] = NoDelegation]
    /\ expiry' = [expiry EXCEPT ![a] = NoExpiry]
    /\ UNCHANGED <<adminVars, balance, delegators, now>>

(* expire_delegation: anyone may call it, paused or not.                   *)
ExpireDelegation(a) ==
    /\ Lapsed(a)
    /\ expiry' = [expiry EXCEPT ![a] = NoExpiry]
    /\ IF Delegates(a)
         THEN /\ power[a] + delegation[a].amount <= MaxPower
              /\ power' = MoveBack(power, a)
              /\ delegation' = [delegation EXCEPT ![a] = NoDelegation]
         ELSE UNCHANGED <<power, delegation>>
    /\ UNCHANGED <<adminVars, balance, delegators, now>>

(* A ledger closes and time passes.                                        *)
Tick ==
    /\ now < MaxTime
    /\ now' = now + 1
    /\ UNCHANGED <<adminVars, delegationVars>>

DelegationNext ==
    \/ \E a \in Admins : TransferAdmin(a)
    \/ Pause
    \/ Unpause
    \/ \E a \in Address, n \in Amounts : SetBalance(a, n)
    \/ \E a, b \in Address : Delegate(a, b)
    \/ \E a, b \in Address, t \in 1..MaxTime : DelegateWithExpiry(a, b, t)
    \/ \E a \in Address : Undelegate(a)
    \/ \E a \in Address : ExpireDelegation(a)
    \/ Tick

DelegationSpec == DelegationInit /\ [][DelegationNext]_govVars
=============================================================================
