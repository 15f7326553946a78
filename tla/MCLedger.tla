------------------------------ MODULE MCLedger ------------------------------
(***************************************************************************)
(* Two callers and the postings that matter to each other: two that touch  *)
(* the same accounts in opposite order, one that reuses a key with other   *)
(* lines, two of them on one account, one that is unbalanced, and one that *)
(* meets an inactive account after it has locked another.                  *)
(***************************************************************************)
EXTENDS Ledger

CONSTANTS cash, payable, dormant

Dr(a, n) == [account |-> a, debit |-> n, credit |-> 0]
Cr(a, n) == [account |-> a, debit |-> 0, credit |-> n]

MCAccounts == {cash, payable, dormant}
MCDebitSide == {cash, dormant}
MCActive == {cash, payable}

Deposit  == [key |-> "deposit", entries |-> <<Dr(cash, 5), Cr(payable, 5)>>]
Refund   == [key |-> "refund", entries |-> <<Dr(payable, 3), Cr(cash, 3)>>]
Split    == [key |-> "deposit",
             entries |-> <<Dr(cash, 1), Dr(cash, 1), Cr(payable, 2)>>]
Lopsided == [key |-> "lopsided", entries |-> <<Dr(cash, 4), Cr(payable, 2)>>]
Closed   == [key |-> "closed", entries |-> <<Dr(cash, 1), Cr(dormant, 1)>>]

Charge   == [key |-> "charge", entries |-> <<Dr(payable, 1), Cr(cash, 1)>>]

MCKeys == {"deposit", "refund", "charge", "lopsided", "closed"}
AllRequests == {Deposit, Refund, Split, Lopsided, Closed}
TieRequests == {Deposit, Refund, Charge}
=============================================================================
