--------------------------- MODULE MCOnchainDeal ---------------------------
(***************************************************************************)
(* Two deals of two units and of one, wired as the calls between the       *)
(* contracts need it: a DealContract is an oracle for the factory and the  *)
(* Escrow, ProfitDistribution for the Escrow.  deal1 may lose that role.   *)
(***************************************************************************)
EXTENDS OnchainDeal, TLC

CONSTANTS deal1, deal2, owner, oracle, farmer

MCUnitsOf == [d \in Deals |-> IF d = deal1 THEN 2 ELSE 1]

MCGranted ==
    ({"factory", "escrow"} \X {"ORACLE"} \X Deals)
    \cup {<<"escrow", "ORACLE", "profits">>}
    \cup ({"registry", "factory", "profits", deal1} \X {"ORACLE"} \X {oracle})

MCGrants == {<<"escrow", "ORACLE", deal1>>}

MCPausable == {"escrow", deal1}

\* Investors are alike.
Alike == Permutations(Investors)
=============================================================================
