----------------------------- MODULE MCPayouts -----------------------------
(***************************************************************************)
(* An escrow account that a refund and a fee draw on, a wallet that one of *)
(* two withdrawals empties, and a deal with two investors whose share      *)
(* factors cannot be written in Scale places.                              *)
(***************************************************************************)
EXTENDS Payouts, TLC

CONSTANTS s1, s2, x1, x2, i1, i2, farmer, c1, d1

MCTypeOf == [s \in Settlements |-> IF s = s1 THEN "REFUND" ELSE "PLATFORM_FEE"]
MCAmountOf == [s \in Settlements |-> IF s = s1 THEN 2 ELSE 1]
MCWithdrawalOf == [x \in Withdrawals |-> 1]
MCHolding == [x \in {i1, i2} |-> IF x = i1 THEN 3 ELSE 203]

\* The second leaves i1 nothing, the third has a fee of nothing and cannot be
\* posted.
MCStatements == {[revenue |-> 30033, expenses |-> 10000],
                 [revenue |-> 37, expenses |-> 7],
                 [revenue |-> 9, expenses |-> 7]}

\* Requests are alike, and so are withdrawals of one amount.
Alike == Permutations(Workers) \cup Permutations(Withdrawals)
=============================================================================
