--------------------------- MODULE MCChainEvents ---------------------------
(***************************************************************************)
(* Two investments that one investor makes in one block share an id; a     *)
(* third follows in the next block.  The escrow contract takes in and pays *)
(* out in the first block too.                                             *)
(***************************************************************************)
EXTENDS ChainEvents

CONSTANTS i1, j1, i2, d1, r1

MCBlockOf == [e \in Events |-> IF e = i2 THEN 2 ELSE 1]
MCKindOf == [e \in Events |-> CASE e = d1 -> "FundsDeposited"
                                [] e = r1 -> "FundsReleased"
                                [] OTHER -> "InvestmentMade"]
\* Each event stands for a transaction of its own.
MCTxOf == [e \in Events |-> e]
\* The indexer is set to a deal's contract, to the escrow contract, or as in
\* docker-compose.yml to the platform; the last has the database of the README.
MCDeployments ==
    [address : {"DealContract", "Escrow", "AgriPlatform"}, tables : {TRUE}] \cup
    [address : {"DealContract"}, tables : {FALSE}]
MCRowId == [e \in Events |-> IF e = j1 THEN i1 ELSE e]
MCEmitterOf == [e \in Events |-> IF e \in {d1, r1} THEN "Escrow" ELSE "DealContract"]
=============================================================================
