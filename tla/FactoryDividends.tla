--------------------------- MODULE FactoryDividends ---------------------------
(***************************************************************************)
(* Rounds of dividends that holders claim by themselves                    *)
(* (contracts/token-factory/src/dividend_distribution.rs).  What a holder  *)
(* is due is computed from the snapshots at the time of the claim.         *)
(*                                                                         *)
(* All rounds are paid in one asset, which is another contract: escrow is  *)
(* the factory's balance of it, and a transfer of more than that fails.    *)
(***************************************************************************)
EXTENDS FactoryLedger

CONSTANTS
    Pools,          \* amounts distributed
    Windows,        \* ledgers from the start of a round to its deadline
    MaxRounds       \* bound: rounds

ASSUME FactoryDividendsAssumption ==
    /\ Pools \subseteq Nat \ {0} /\ Windows \subseteq Nat \ {0} /\ MaxRounds \in Nat

VARIABLES
    rounds,         \* the distributions, in order
    claimed,        \* who has claimed in which round
    claimedTotal,   \* what was claimed in each round
    escrow,         \* the asset held by the contract
    trusted         \* history: rounds whose snapshot nobody disturbed

dividendVars == <<rounds, claimed, claimedTotal, escrow, trusted>>

DividendInit ==
    /\ rounds = <<>> /\ claimed = {} /\ claimedTotal = <<>>
    /\ escrow = 0 /\ trusted = {}

Round == DOMAIN rounds
Lasts(r) == ledger <= rounds[r].deadline

(* The snapshots of ledger l account for no more than the supply of l.     *)
Positive(n) == IF n > 0 THEN n ELSE 0
Recorded(l) == [h \in Holder |-> Positive(At(balanceSnaps[h], l))]
Whole(l) == SumFunction(Recorded(l)) <= At(supplySnaps, l)

Initiate(amount, window) ==
    /\ Len(rounds) < MaxRounds
    /\ At(supplySnaps, ledger) > 0
    /\ rounds' = Append(rounds, [amount |-> amount, ledger |-> ledger,
                                 supply |-> At(supplySnaps, ledger),
                                 deadline |-> ledger + window, reclaimed |-> FALSE])
    /\ claimedTotal' = Append(claimedTotal, 0)
    /\ escrow' = escrow + amount
    /\ trusted' = IF Whole(ledger) THEN trusted \cup {Len(rounds) + 1} ELSE trusted
    /\ UNCHANGED claimed

(* Mutation: the balance of the day decides.                               *)
DueNow(r, h) ==
    IF balance[h] <= 0 THEN 0 ELSE (balance[h] * rounds[r].amount) \div rounds[r].supply

Due(r, h) ==
    LET held == At(balanceSnaps[h], rounds[r].ledger)
    IN  IF held <= 0 THEN 0 ELSE (held * rounds[r].amount) \div rounds[r].supply

(* Mutation: the claim is not recorded.                                    *)
ClaimAgain(r, h) ==
    /\ Lasts(r) /\ <<r, h>> \notin claimed
    /\ Due(r, h) > 0 /\ escrow >= Due(r, h)
    /\ claimedTotal' = [claimedTotal EXCEPT ![r] = @ + Due(r, h)]
    /\ escrow' = escrow - Due(r, h)
    /\ UNCHANGED <<rounds, trusted, claimed>>

Claim(r, h) ==
    /\ Lasts(r) /\ <<r, h>> \notin claimed
    /\ Due(r, h) > 0 /\ escrow >= Due(r, h)
    /\ claimed' = claimed \cup {<<r, h>>}
    /\ claimedTotal' = [claimedTotal EXCEPT ![r] = @ + Due(r, h)]
    /\ escrow' = escrow - Due(r, h)
    /\ UNCHANGED <<rounds, trusted>>

(* What nobody claimed goes to the treasury.  After claims of more than    *)
(* the round had nothing is transferred.                                   *)
Reclaim(r) ==
    LET remainder == Positive(rounds[r].amount - claimedTotal[r]) IN
    /\ ~Lasts(r) /\ ~rounds[r].reclaimed /\ escrow >= remainder
    /\ rounds' = [rounds EXCEPT ![r].reclaimed = TRUE]
    /\ escrow' = escrow - remainder
    /\ UNCHANGED <<claimed, claimedTotal, trusted>>

DividendCall ==
    \/ \E n \in Pools, w \in Windows : Initiate(n, w)
    \/ \E r \in Round : Reclaim(r) \/ \E h \in Holder : Claim(r, h)

(* A snapshot recorded in the ledger of a round, after its start, counts   *)
(* for the round.                                                          *)
Disturb ==
    /\ trusted' = IF supplySnaps' = supplySnaps /\ balanceSnaps' = balanceSnaps THEN trusted
                  ELSE {r \in trusted : rounds[r].ledger # ledger}
    /\ UNCHANGED <<rounds, claimed, claimedTotal, escrow>>
=============================================================================
