--------------------------- MODULE FactoryTreasury ---------------------------
(***************************************************************************)
(* Withdrawals of collected fees from the token factory: at once, or       *)
(* queued behind a delay, both under one policy: an allowlist, and a cap   *)
(* per period that starts anew with the first withdrawal validated after   *)
(* its end (contracts/token-factory/src: treasury.rs,                      *)
(* treasury_timelock.rs).  The policy is a setting, which proposals write  *)
(* too (FactoryAdmin).                                                     *)
(*                                                                         *)
(* The balance of the fee token is not modelled: a transfer that fails     *)
(* reverts its call.  paid is history: what left at each time, under the   *)
(* policy as it was last initialized.                                      *)
(***************************************************************************)
EXTENDS FactoryAdmin

CONSTANTS
    Withdrawable,   \* amounts withdrawn
    Delays,         \* delays within MIN_WITHDRAWAL_DELAY..MAX_WITHDRAWAL_DELAY
    DefaultDelay,   \* DEFAULT_WITHDRAWAL_DELAY
    MaxWithdrawals  \* bound: withdrawals queued

ASSUME FactoryTreasuryAssumption ==
    /\ Withdrawable \subseteq Nat \ {0} /\ Delays \subseteq Nat \ {0}
    /\ DefaultDelay \in Delays /\ MaxWithdrawals \in Nat
    /\ Policies \subseteq [cap : Nat, allowlist : BOOLEAN, duration : Nat \ {0}]
    /\ IsFiniteSet(Policies)

VARIABLES
    period,         \* the running withdrawal period, or NoPeriod
    allowed,        \* recipients on the allowlist
    delay,          \* of withdrawals queued from now on
    withdrawals, withdrawalCount,
    paid            \* history: amounts paid at each time

treasuryVars == <<period, allowed, delay, withdrawals, withdrawalCount, paid>>

WithdrawalId == 0..(MaxWithdrawals - 1)
NoPeriod == [start |-> -1, withdrawn |-> 0]
NothingPaid == [t \in 0..MaxTime |-> 0]

TreasuryInit ==
    /\ period = NoPeriod /\ allowed = {} /\ delay = DefaultDelay
    /\ withdrawals = [w \in WithdrawalId |-> Nothing] /\ withdrawalCount = 0
    /\ paid = NothingPaid

-----------------------------------------------------------------------------
(* validate_withdrawal and record_withdrawal.                              *)

Started == [start |-> now, withdrawn |-> 0]
Expired == now >= period.start + settings.policy.duration
Current == IF period = NoPeriod \/ Expired THEN Started ELSE period

Permits(recipient, amount) ==
    /\ settings.policy.allowlist => recipient \in allowed
    /\ Current.withdrawn + amount <= settings.policy.cap

Pay(amount) ==
    /\ period' = [Current EXCEPT !.withdrawn = @ + amount]
    /\ paid' = [paid EXCEPT ![now] = @ + amount]

-----------------------------------------------------------------------------
WithdrawFees(recipient, amount) ==
    /\ Permits(recipient, amount) /\ Pay(amount)
    /\ UNCHANGED <<adminVars, allowed, delay, withdrawals, withdrawalCount>>

(* Validated once already; the period it starts anew is written, the very  *)
(* first one is not.                                                       *)
QueueWithdrawal(recipient, amount) ==
    /\ withdrawalCount < MaxWithdrawals
    /\ Permits(recipient, amount)
    /\ period' = IF period = NoPeriod THEN period ELSE Current
    /\ withdrawals' = [withdrawals EXCEPT ![withdrawalCount] =
          [state |-> "Queued", recipient |-> recipient, amount |-> amount,
           queuedAt |-> now, executableAt |-> now + delay]]
    /\ withdrawalCount' = withdrawalCount + 1
    /\ UNCHANGED <<adminVars, allowed, delay, paid>>

CancelWithdrawal(w) ==
    /\ withdrawals[w].state = "Queued"
    /\ withdrawals' = [withdrawals EXCEPT ![w] = Nothing]
    /\ UNCHANGED <<adminVars, period, allowed, delay, withdrawalCount, paid>>

(* Mutation: what was valid when queued is paid.                           *)
ExecuteUnvalidated(w) ==
    /\ withdrawals[w].state = "Queued" /\ now >= withdrawals[w].executableAt
    /\ Pay(withdrawals[w].amount)
    /\ withdrawals' = [withdrawals EXCEPT ![w] = Nothing]
    /\ UNCHANGED <<adminVars, allowed, delay, withdrawalCount>>

(* Validated again, by the policy and the allowlist of the day.            *)
ExecuteWithdrawal(w) ==
    /\ withdrawals[w].state = "Queued" /\ now >= withdrawals[w].executableAt
    /\ Permits(withdrawals[w].recipient, withdrawals[w].amount)
    /\ Pay(withdrawals[w].amount)
    /\ withdrawals' = [withdrawals EXCEPT ![w] = Nothing]
    /\ UNCHANGED <<adminVars, allowed, delay, withdrawalCount>>

SetDelay(d) ==
    /\ delay' = d
    /\ UNCHANGED <<adminVars, period, allowed, withdrawals, withdrawalCount, paid>>

SetAllowed(recipients) ==
    /\ allowed' = recipients
    /\ UNCHANGED <<adminVars, period, delay, withdrawals, withdrawalCount, paid>>

(* May be called again at any time, and then forgets what was withdrawn.   *)
InitializePolicy(policy) ==
    /\ policy.duration = DefaultPolicy.duration
    /\ Apply([policy |-> policy])
    /\ period' = Started /\ paid' = NothingPaid
    /\ UNCHANGED <<now, pendingAdmin, proposalVars, changeVars, multisigVars,
                   allowed, delay, withdrawals, withdrawalCount>>

-----------------------------------------------------------------------------
Withdraws ==
    \E r \in Account, amount \in Withdrawable :
        WithdrawFees(r, amount) \/ QueueWithdrawal(r, amount)

Settles == \E w \in WithdrawalId : CancelWithdrawal(w) \/ ExecuteWithdrawal(w)

Regulates ==
    \/ \E d \in Delays : SetDelay(d)
    \/ \E r \in Account : SetAllowed(allowed \cup {r}) \/ SetAllowed(allowed \ {r})
    \/ \E policy \in Policies : InitializePolicy(policy)

TreasuryNext == Withdraws \/ Settles \/ Regulates
TreasurySpec ==
    /\ AdminInit /\ TreasuryInit
    /\ [][(AdminNext /\ UNCHANGED treasuryVars) \/ TreasuryNext]_<<adminVars, treasuryVars>>
=============================================================================
