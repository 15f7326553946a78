------------------------------ MODULE Payouts ------------------------------
(***************************************************************************)
(* The services that pay money out, side by side: settlements from escrow, *)
(* withdrawals and profit distributions share the ledger, the payments     *)
(* table and the process that serves their requests.                       *)
(***************************************************************************)
EXTENDS SettlementPayouts, WithdrawalPayouts, ProfitPayouts

vars == <<settlementVars, withdrawalVars, profitVars, books, requestVars>>

Init == RequestInit /\ SettlementInit /\ WithdrawalInit /\ ProfitInit

\* The process dies, or a statement throws where nothing catches.
Die(w) == Abort(w) /\ UNCHANGED <<settlementVars, withdrawalVars, profitVars>>

Next ==
    \/ SettlementStep /\ UNCHANGED <<withdrawalVars, profitVars>>
    \/ WithdrawalStep /\ UNCHANGED <<settlementVars, profitVars>>
    \/ ProfitStep /\ UNCHANGED <<settlementVars, withdrawalVars>>
    \/ \E w \in Workers : Die(w)

Spec == Init /\ [][Next]_vars

TypeOK == SettlementTypeOK /\ WithdrawalTypeOK /\ ProfitTypeOK
=============================================================================
