------------------------ MODULE MCPaymentSettlement ------------------------
(***************************************************************************)
(* mock1 and remote1 are payments for one investment, mock2 is for another *)
(* investment of the same deal, and wallet1 funds a wallet.  remote1 goes  *)
(* to a remote provider, the others to the mock provider.                  *)
(***************************************************************************)
EXTENDS PaymentSettlement, TLC

CONSTANTS mock1, remote1, mock2, wallet1, inv1, inv2

MCInvestmentOf == [x \in Payments |->
    CASE x \in {mock1, remote1} -> inv1
      [] x = mock2 -> inv2
      [] x = wallet1 -> NoInvestment]

MCAmount == [i \in Investments |-> IF i = inv1 THEN 2 ELSE 1]

MCInline == Payments \ {remote1}

\* Three requests for one payment, two at a time; two at a time for two payments
\* of one investment or of two, and a fault; three one by one, and a fault.
MCTraffics == {
    [payments |-> {remote1}, requests |-> 3, atOnce |-> 2, faults |-> 0],
    [payments |-> {remote1, mock1}, requests |-> 2, atOnce |-> 2, faults |-> 1],
    [payments |-> {remote1, mock2}, requests |-> 2, atOnce |-> 2, faults |-> 1],
    [payments |-> {remote1, mock1, wallet1}, requests |-> 3, atOnce |-> 1, faults |-> 1]}

\* Two requests that process the one payment at the same time, and a fault.
MCTwice == {[payments |-> {mock1}, requests |-> 2, atOnce |-> 2, faults |-> n] : n \in 0 .. 1}
=============================================================================
