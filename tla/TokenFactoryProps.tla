--------------------------- MODULE TokenFactoryProps ---------------------------
(***************************************************************************)
(* What the token factory must guarantee, over the contract state.         *)
(***************************************************************************)
EXTENDS TokenFactory, FiniteSetsExt

-----------------------------------------------------------------------------
(* Proposals.                                                              *)

Voters(p, choice) == {a \in Account : ballots[p][a] = choice}

(* A proposal takes effect only if more accounts voted for it than         *)
(* against it, each once and before the end of voting, and MinTimelock     *)
(* after that end: whatever was finalized, queued, enqueued, cancelled or  *)
(* reconfigured in between (timelock.rs:1172, 1271, 1371, 1434).           *)
PassedBeforeExecuted ==
    \A p \in ProposalId : proposals[p].state = "Executed" =>
        /\ Cardinality(Voters(p, "For")) > Cardinality(Voters(p, "Against"))
        /\ now >= proposals[p].end + MinTimelock

(* What is decided stays decided.  The votes of a proposal are, once there *)
(* is a verdict, which never comes up again when the percentages change:   *)
(* it moves on to Queued and Executed, or is cancelled; and an executed    *)
(* change, or a signed action that was executed or cancelled, is never     *)
(* removed or taken up again, whoever is admin or signer by then           *)
(* (timelock.rs:287, 1271-1347; lib.rs:5170, 5278).                        *)
After(state) ==
    CASE state = "Succeeded" -> {"Succeeded", "Queued", "Cancelled"}
      [] state = "Queued" -> {"Queued", "Executed", "Cancelled"}
      [] state \in Terminal -> {state}

DecidedStands ==
    [][/\ \A p \in ProposalId : proposals[p] # Nothing /\ ~Undecided(p) =>
             /\ proposals'[p].state \in After(proposals[p].state)
             /\ proposals'[p] = [proposals[p] EXCEPT !.state = proposals'[p].state]
             /\ ballots'[p] = ballots[p]
       /\ \A c \in ChangeId :
             changes[c].state = "Executed" => changes'[c] = changes[c]
       /\ \A m \in ActionId :
             actions[m].state \in {"Executed", "Cancelled"} => actions'[m] = actions[m]
      ]_factoryVars

(* The queue of a type holds proposals of that type that still wait for    *)
(* execution, each once, so that its front can never be one that was       *)
(* cancelled or executed and would block the others for good               *)
(* (proposal_type_queue.rs:74-167).                                        *)
TypeQueuesSound ==
    \A t \in ActionType : \A k \in 1..Len(typeQueue[t]) :
        LET p == typeQueue[t][k] IN
        /\ proposals[p].state = "Queued" /\ proposals[p].type = t
        /\ \A l \in 1..Len(typeQueue[t]) : l # k => typeQueue[t][l] # p

-----------------------------------------------------------------------------
(* Settings.                                                               *)

Carried(p) == proposals[p].state # "Executed" /\ proposals'[p].state = "Executed"
Matured(c) == changes[c].state # "Executed" /\ changes'[c].state = "Executed"
CarriedOut(m) == actions[m].state # "Executed" /\ actions'[m].state = "Executed"

(* Code against documentation: "Fees can only be changed through the       *)
(* governance flow (`propose_fee_update` -> `vote_proposal` ->             *)
(* `queue_proposal` -> `execute_proposal`)" (lib.rs:1190-1194, 910-919).   *)
(* The admin alone can schedule a fee change and execute it after its      *)
(* delay (timelock.rs:111, 283), and signers can update the fees at once   *)
(* (lib.rs:5341-5362).                                                     *)
FeesNeedGovernance ==
    [][<<settings.baseFee, settings.metadataFee>>' # <<settings.baseFee, settings.metadataFee>>
       => \E p \in ProposalId : Carried(p) /\ proposals[p].type = "FeeChange"]_factoryVars

(* What is left of that claim.  Fees and treasury change only by what was  *)
(* announced at least its delay earlier and is used up by this step, or by *)
(* what a threshold of signers approved, however the signers have changed  *)
(* since: no other call writes them (timelock.rs:283, 1434; lib.rs:5320).  *)
NothingUnannounced ==
    [][<<settings.baseFee, settings.metadataFee, settings.treasury>>' #
       <<settings.baseFee, settings.metadataFee, settings.treasury>> =>
          \/ \E p \in ProposalId : Carried(p) /\ proposals[p].createdAt + MinTimelock < now
          \/ \E c \in ChangeId : Matured(c) /\ changes[c].scheduledAt + ChangeDelay <= now
          \/ \E m \in ActionId : CarriedOut(m)
                /\ Cardinality(actions'[m].approvals) >= multisig.threshold
      ]_factoryVars

(* Whoever may accept the admin role was proposed by the present admin:    *)
(* a transfer by any path drops the proposal of the predecessor, which the *)
(* successor never saw (lib.rs:585-700, 5320).                             *)
PendingAdminIsCurrent == pendingAdmin # NoAdmin => pendingAdmin.by = settings.admin

-----------------------------------------------------------------------------
(* Treasury.                                                               *)

(* Periods are reset by the first withdrawal after their end and not by    *)
(* the clock, and the cap, the allowlist and the length of a period may    *)
(* change within one: however these fall, no stretch of time as long as    *)
(* the shortest period sees more leave than twice the largest cap, counted *)
(* from the last time the policy was initialized, which forgets all that   *)
(* was withdrawn (treasury.rs:60-144, treasury_timelock.rs:140-170).       *)
Shortest == Min({p.duration : p \in Policies})
Largest == Max({p.cap : p \in Policies})
Paid(from) == SumFunctionOnSet(paid, {t \in 0..MaxTime : from <= t /\ t < from + Shortest})

CapPerWindow == \A from \in 0..now : Paid(from) <= 2 * Largest

-----------------------------------------------------------------------------
(* Vaults.                                                                 *)

(* A vault pays its amount once, or was cancelled and pays nothing,        *)
(* whoever owns it by then (lib.rs:3820-3931, 3944).                       *)
VaultsPayOnce ==
    \A v \in VaultId : vaults[v] # Nothing =>
        /\ paidOut[v] = vaults[v].claimed
        /\ paidOut[v] = IF vaults[v].state = "Claimed" THEN vaults[v].total ELSE 0

(* A vault changes owner only to somebody whom owner and creator have both *)
(* agreed to (lib.rs:4448-4660).                                           *)
OwnersConsent ==
    [][\A v \in VaultId :
          vaults[v] # Nothing /\ vaults'[v].owner # vaults[v].owner =>
             \A a \in {vaults[v].owner, vaults[v].creator} :
                 <<a, vaults'[v].owner>> \in consents'[v]]_factoryVars

(* No claim is paid while the circuit breaker has paused withdrawals: it   *)
(* is checked by "every withdrawal path" (vault.rs:43-47).                 *)
BreakerStopsClaims == [][tripped => paidOut' = paidOut]_factoryVars
=============================================================================
