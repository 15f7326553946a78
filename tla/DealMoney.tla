----------------------------- MODULE DealMoney -----------------------------
(***************************************************************************)
(* What the contracts promise of the money of a deal, whoever calls them:  *)
(* it comes in as an investment or as a gift, an investor gets back no     *)
(* more than what the deal counts as invested, everything else that leaves *)
(* is accounted for, and no step moves the money of two deals.             *)
(***************************************************************************)
EXTENDS Integers

CONSTANT Deals

VARIABLES
    held,       \* what is kept for each deal
    claims,     \* what its investors have in it
    spent       \* what has left it other than to an investor who gave up a claim

moneyVars == <<held, claims, spent>>

Init ==
    /\ held = [d \in Deals |-> 0]
    /\ claims = [d \in Deals |-> 0]
    /\ spent = [d \in Deals |-> 0]

Added(f, d, a) == [f EXCEPT ![d] = @ + a]
Taken(f, d, a) == [f EXCEPT ![d] = @ - a]

Give(d, a) ==
    /\ held' = Added(held, d, a)
    /\ UNCHANGED <<claims, spent>>

Invest(d, a) ==
    /\ held' = Added(held, d, a)
    /\ claims' = Added(claims, d, a)
    /\ UNCHANGED spent

Refund(d, a) ==
    /\ a <= claims[d]
    /\ a <= held[d]
    /\ held' = Taken(held, d, a)
    /\ claims' = Taken(claims, d, a)
    /\ UNCHANGED spent

Spend(d, a) ==
    /\ a <= held[d]
    /\ held' = Taken(held, d, a)
    /\ spent' = Added(spent, d, a)
    /\ UNCHANGED claims

\* What is kept for one deal changes by some amount.
Next ==
    \E d \in Deals : \E a \in {held'[d] - held[d], held[d] - held'[d]} :
        /\ a > 0
        /\ Give(d, a) \/ Invest(d, a) \/ Refund(d, a) \/ Spend(d, a)

Spec == Init /\ [][Next]_moneyVars
=============================================================================
