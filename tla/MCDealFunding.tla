--------------------------- MODULE MCDealFunding ---------------------------
(***************************************************************************)
(* A deal of three units at a price of 2, asked for by two investors whose *)
(* three investments need four: any three units reach the target of 6.  If *)
(* one investor asks for all of them, two can exceed the maximum of 5.     *)
(* One edit writes the terms, and the maximum with the economics that were *)
(* read; one moves the deal to a project that is not approved and raises   *)
(* the target to 7, which rounding leaves at a price of 2.                 *)
(***************************************************************************)
EXTENDS DealFunding, TLC

CONSTANTS i1, i2, i3, x, y, w1, w2, p1, p2, text1

MCDrafts == {[target |-> 6, units |-> 3, minimum |-> 2, maximum |-> 5, project |-> p1]}
MCEdits == {[maximum |-> 5, text |-> text1],
            [target |-> 7, project |-> p2]}

MCInvestorOf == (i1 :> x) @@ (i2 :> y) @@ (i3 :> y)
MCOneInvestor == [i \in Investments |-> x]
MCUnitsOf == (i1 :> 2) @@ (i2 :> 1) @@ (i3 :> 1)
Alike == Permutations({w1, w2}) \cup Permutations({i2, i3})

\* No step reads the history variable approved, and no property does once two
\* requests have overlapped: states that differ in it alone are the same then.
Seen == <<deal, offer, edits, task, overlapped, fundingVars,
          IF overlapped THEN NoOffer ELSE approved>>
=============================================================================
