---------------------------- MODULE OnchainDeal ----------------------------
(***************************************************************************)
(* The contracts a deal lives in: ProjectRegistry, DealFactory, one        *)
(* DealContract for each deal, Escrow and ProfitDistribution.  An action   *)
(* is a transaction that succeeds; one that reverts changes nothing.       *)
(*                                                                         *)
(* A deal's money is counted in four places that only the calls between    *)
(* the contracts keep together: the investments and the totals of the      *)
(* DealContract, the total of the DealFactory, the deal's balance and the  *)
(* total of the Escrow.                                                    *)
(***************************************************************************)
EXTENDS OnchainRoles, Functions

CONSTANTS
    Investors,      \* accounts that invest
    Farmer,         \* the account the project is registered for
    UnitsOf,        \* investmentUnits of each deal
    UnitPrice,      \* of every deal
    Amounts,        \* amounts that are given and paid
    Statuses,       \* statuses updateDealStatus is called with
    MaxBlock,       \* bound on the blocks
    MaxMoves,       \* bound on the investments, payments and gifts
    NoInvestment

Investment ==
    [units : Nat, amount : Nat, status : {"Pending", "Confirmed", "Refunded"}]

ASSUME DealAssumption ==
    /\ Investors \cup {Farmer} \subseteq Accounts
    /\ IsFiniteSet(Deals) /\ IsFiniteSet(Investors)
    /\ "none" \notin Statuses
    /\ NoInvestment \notin Investment
    /\ UnitsOf \in [Deals -> Nat \ {0}]
    /\ UnitPrice \in Nat \ {0}
    /\ Amounts \subseteq Nat \ {0}
    /\ MaxBlock \in Nat \ {0}
    /\ MaxMoves \in Nat

VARIABLES
    project,    \* the registry's record of the project
    listing,    \* the factory's status and total of each deal
    ledger,     \* each DealContract's totals, and whether it is settled
    investment, \* each DealContract's investments
    balance,    \* the Escrow's balance of each deal
    total,      \* the Escrow's balance
    paid,       \* ProfitDistribution: what an investor was paid for a deal
    spent,      \* history: what left a deal other than by refundInvestment
    collided,   \* history: deals on which an investment replaced another
    block,      \* the current block
    moves       \* investments, payments and gifts so far

escrowVars == <<balance, total, spent>>
dealVars == <<ledger, investment, collided>>
vars == <<roleVars, project, listing, dealVars, escrowVars, paid, block, moves>>

(***************************************************************************)
(* The id of an investment is a hash of the deal, the investor, the time   *)
(* and the randomness of the block: one id for each investor and block.    *)
(***************************************************************************)
Ids == Deals \X Investors \X (1 .. MaxBlock)

Init ==
    /\ RolesInit
    /\ project = "none"
    /\ listing = [d \in Deals |-> [status |-> "none", total |-> 0]]
    /\ ledger = [d \in Deals |-> [invested |-> 0, units |-> 0, settled |-> FALSE]]
    /\ investment = [id \in Ids |-> NoInvestment]
    /\ balance = [d \in Deals |-> 0]
    /\ total = 0
    /\ paid = [p \in Deals \X Investors |-> 0]
    /\ spent = [d \in Deals |-> 0]
    /\ collided = {}
    /\ block = 1
    /\ moves = 0

Running(contract) == contract \notin paused

Move == moves < MaxMoves /\ moves' = moves + 1

\* ORACLE or OWNER, the modifier of Escrow and ProfitDistribution.
Authorized(contract, sender) ==
    HasRole(contract, "ORACLE", sender) \/ HasRole(contract, "OWNER", sender)

----------------------------------------------------------------------------
(***************************************************************************)
(* ProjectRegistry and DealFactory.                                        *)
(***************************************************************************)
RegisterProject ==
    /\ Running("registry")
    /\ project = "none"
    /\ project' = "registered"
    /\ UNCHANGED <<roleVars, listing, dealVars, escrowVars, paid, block, moves>>

VerifyProject(sender, verified) ==
    /\ HasRole("registry", "ORACLE", sender)
    /\ project # "none"
    /\ project' = IF verified THEN "verified" ELSE "registered"
    /\ IF verified THEN UNCHANGED changes ELSE Change
    /\ UNCHANGED <<roles, paused, listing, dealVars, escrowVars, paid, block, moves>>

CreateDeal(sender, d) ==
    /\ Running("factory")
    /\ project = "verified"
    /\ listing[d].status = "none"
    /\ sender = Farmer \/ HasRole("factory", "OWNER", sender)
    /\ listing' = [listing EXCEPT ![d] = [status |-> "Draft", total |-> 0]]
    /\ UNCHANGED <<roleVars, project, dealVars, escrowVars, paid, block, moves>>

ActivateDeal(sender, d) ==
    /\ HasRole("factory", "OWNER", sender)
    /\ listing[d].status = "Draft"
    /\ listing' = [listing EXCEPT ![d].status = "Funding"]
    /\ UNCHANGED <<roleVars, project, dealVars, escrowVars, paid, block, moves>>

\* Any status may follow any other.
UpdateDealStatus(sender, d, status) ==
    /\ HasRole("factory", "ORACLE", sender)
    /\ listing[d].status # "none"
    /\ listing' = [listing EXCEPT ![d].status = status]
    /\ UNCHANGED <<roleVars, project, dealVars, escrowVars, paid, block, moves>>

\* Mutant: the amount takes the place of the total.
TotalInvested_Last(sender, d, amount) ==
    /\ HasRole("factory", "ORACLE", sender)
    /\ listing' = [listing EXCEPT ![d].total = amount]

\* The part of a transaction that adds to a deal's total at the factory.
TotalInvested(sender, d, amount) ==
    /\ HasRole("factory", "ORACLE", sender)
    /\ listing[d].status # "none"
    /\ listing' = [listing EXCEPT ![d].total = @ + amount]

UpdateTotalInvested(sender, d, amount) ==
    /\ TotalInvested(sender, d, amount)
    /\ Move
    /\ UNCHANGED <<roleVars, project, dealVars, escrowVars, paid, block>>

(***************************************************************************)
(* Escrow.  The parts of a transaction that bring money in and out.        *)
(***************************************************************************)
Fund(d, amount) ==
    /\ Running("escrow")
    /\ amount > 0
    /\ balance' = [balance EXCEPT ![d] = @ + amount]
    /\ total' = total + amount

\* Mutant: the deal's balance is not looked at, and subtracted from unchecked.
Covered_ByTotal(d, amount) == amount <= total

\* The subtraction from the total would revert below zero.
Covered(d, amount) == amount <= balance[d] /\ amount <= total

\* release, refund and deductFee pay out alike.
Pay(sender, d, amount) ==
    /\ Authorized("escrow", sender)
    /\ amount \in Nat \ {0}
    /\ Covered(d, amount)
    /\ balance' = [balance EXCEPT ![d] = @ - amount]
    /\ total' = total - amount

\* Anybody may fund a deal.
Donate(d, amount) ==
    /\ Fund(d, amount)
    /\ Move
    /\ UNCHANGED <<roleVars, project, listing, dealVars, spent, paid, block>>

\* release, refund or deductFee, called on the Escrow itself.
PayDirectly(sender, d, amount) ==
    /\ Pay(sender, d, amount)
    /\ spent' = [spent EXCEPT ![d] = @ + amount]
    /\ Move
    /\ UNCHANGED <<roleVars, project, listing, dealVars, paid, block>>

(***************************************************************************)
(* DealContract.                                                           *)
(***************************************************************************)
\* Mutant: what is sold already is not looked at.
UnitsLeft_PerCall(d, units) == units <= UnitsOf[d]

UnitsLeft(d, units) == ledger[d].units + units <= UnitsOf[d]

\* Mutant: the status of the investment is not looked at.
Refundable_Again(id) == investment[id] # NoInvestment

Refundable(id) ==
    /\ investment[id] # NoInvestment
    /\ investment[id].status \in {"Pending", "Confirmed"}

Invest(i, d, units) ==
    LET id == <<d, i, block>>
        amount == units * UnitPrice
    IN  /\ Running(d)
        /\ ~ ledger[d].settled
        /\ listing[d].status = "Funding"
        /\ UnitsLeft(d, units)
        /\ investment' = [investment EXCEPT ![id] =
               [units |-> units, amount |-> amount, status |-> "Pending"]]
        /\ collided' = IF Refundable(id) THEN collided \cup {d} ELSE collided
        /\ ledger' = [ledger EXCEPT ![d] =
               [invested |-> @.invested + amount, units |-> @.units + units,
                settled |-> @.settled]]
        /\ Fund(d, amount)
        /\ TotalInvested(d, d, amount)
        /\ Move
        /\ UNCHANGED <<roleVars, project, spent, paid, block>>

ConfirmInvestment(sender, id) ==
    /\ HasRole(id[1], "ORACLE", sender)
    /\ investment[id] # NoInvestment
    /\ investment[id].status = "Pending"
    /\ investment' = [investment EXCEPT ![id].status = "Confirmed"]
    /\ UNCHANGED <<roleVars, project, listing, ledger, collided, escrowVars, paid, block, moves>>

\* Mutant: the money stays counted as invested.
Unclaimed_UnitsOnly(d, amount, units) == [ledger EXCEPT ![d].units = @ - units]

Unclaimed(d, amount, units) ==
    [ledger EXCEPT ![d] = [invested |-> @.invested - amount,
                           units |-> @.units - units, settled |-> @.settled]]

\* The subtractions revert below zero.  The money is paid out of the Escrow in
\* the name of the DealContract.
RefundInvestment(sender, id) ==
    LET d == id[1]
        amount == investment[id].amount
        units == investment[id].units
    IN  /\ Refundable(id)
        /\ sender = id[2] \/ HasRole(d, "OWNER", sender)
        /\ amount <= ledger[d].invested
        /\ units <= ledger[d].units
        /\ investment' = [investment EXCEPT ![id].status = "Refunded"]
        /\ ledger' = Unclaimed(d, amount, units)
        /\ Pay(d, d, amount)
        /\ UNCHANGED <<roleVars, project, listing, collided, spent, paid, block, moves>>

Settle(sender, d) ==
    /\ HasRole(d, "OWNER", sender)
    /\ ~ ledger[d].settled
    /\ HasRole("factory", "ORACLE", d)
    /\ listing[d].status # "none"
    /\ ledger' = [ledger EXCEPT ![d].settled = TRUE]
    /\ listing' = [listing EXCEPT ![d].status = "Settled"]
    /\ UNCHANGED <<roleVars, project, investment, collided, escrowVars, paid, block, moves>>

(***************************************************************************)
(* ProfitDistribution.  Its payments leave the Escrow in its own name.     *)
(***************************************************************************)
Distributing(sender) ==
    Authorized("profits", sender) /\ Running("profits")

Payments(amounts, fee) == SumFunction(amounts) + fee

(***************************************************************************)
(* calculateAndDistribute pays the investors and the fee, all or none.  A  *)
(* part for the farmer would be looked up at the sender as if that were    *)
(* the factory, which no account is: such a call reverts.  The record it   *)
(* keeps under its id bars no second call, and is left out.                *)
(***************************************************************************)
CalculateAndDistribute(sender, d, amounts, fee) ==
    /\ Distributing(sender)
    /\ DOMAIN amounts # {}
    /\ \A i \in DOMAIN amounts : amounts[i] > 0
    /\ paid' = [p \in DOMAIN paid |->
           IF p[1] = d /\ p[2] \in DOMAIN amounts THEN paid[p] + amounts[p[2]]
           ELSE paid[p]]
    /\ Pay("profits", d, Payments(amounts, fee))
    /\ spent' = [spent EXCEPT ![d] = @ + Payments(amounts, fee)]
    /\ Move
    /\ UNCHANGED <<roleVars, project, listing, dealVars, block>>

DistributeProfit(sender, d, i, amount) ==
    /\ Distributing(sender)
    /\ paid' = [paid EXCEPT ![<<d, i>>] = @ + amount]
    /\ Pay("profits", d, amount)
    /\ spent' = [spent EXCEPT ![d] = @ + amount]
    /\ Move
    /\ UNCHANGED <<roleVars, project, listing, dealVars, block>>

NextBlock ==
    /\ block < MaxBlock
    /\ block' = block + 1
    /\ UNCHANGED <<roleVars, project, listing, dealVars, escrowVars, paid, moves>>

Next ==
    \/ RoleStep /\ UNCHANGED <<project, listing, dealVars, escrowVars, paid, block, moves>>
    \/ RegisterProject
    \/ NextBlock
    \/ \E d \in Deals :
          \/ \E a \in Amounts : Donate(d, a)
          \/ \E i \in Investors, units \in 1 .. UnitsOf[d] : Invest(i, d, units)
    \/ \E sender \in Accounts :
          \/ \E verified \in BOOLEAN : VerifyProject(sender, verified)
          \/ \E id \in Ids : ConfirmInvestment(sender, id) \/ RefundInvestment(sender, id)
          \/ \E d \in Deals :
                \/ CreateDeal(sender, d)
                \/ ActivateDeal(sender, d)
                \/ \E status \in Statuses : UpdateDealStatus(sender, d, status)
                \/ Settle(sender, d)
                \/ \E a \in Amounts :
                      \/ UpdateTotalInvested(sender, d, a)
                      \/ PayDirectly(sender, d, a)
                      \/ \E i \in Investors : DistributeProfit(sender, d, i, a)
                \/ \E S \in SUBSET Investors, fee \in Amounts \cup {0} :
                      \E amounts \in [S -> Amounts] :
                          CalculateAndDistribute(sender, d, amounts, fee)

Spec == Init /\ [][Next]_vars

----------------------------------------------------------------------------
(***************************************************************************)
(* Properties.                                                             *)
(***************************************************************************)
TypeOK ==
    /\ RolesTypeOK
    /\ project \in {"none", "registered", "verified"}
    /\ listing \in [Deals -> [status : {"none", "Draft", "Funding", "Settled"} \cup Statuses,
                             total : Nat]]
    /\ ledger \in [Deals -> [invested : Nat, units : Nat, settled : BOOLEAN]]
    /\ investment \in [Ids -> Investment \cup {NoInvestment}]
    /\ balance \in [Deals -> Nat]
    /\ total \in Nat
    /\ paid \in [Deals \X Investors -> Nat]
    /\ spent \in [Deals -> Nat]
    /\ collided \subseteq Deals
    /\ block \in 1 .. MaxBlock
    /\ moves \in 0 .. MaxMoves

(***************************************************************************)
(* The contracts keep the money of the deals apart, and give an investor   *)
(* back what the deal counts as invested and no more.                      *)
(***************************************************************************)
Money == INSTANCE DealMoney WITH
    held <- balance, claims <- [d \in Deals |-> ledger[d].invested]

MoneyKeptApart == Money!Spec

\* The investments of a deal that were not refunded.
Standing(d) == {id \in Ids : id[1] = d /\ Refundable(id)}

StandingAmounts(d) == [id \in Standing(d) |-> investment[id].amount]
StandingUnits(d) == [id \in Standing(d) |-> investment[id].units]

(***************************************************************************)
(* What a DealContract counts is what its investors can claim back, unless *)
(* an investor invested twice in one block and the second investment took  *)
(* the place of the first.                                                 *)
(***************************************************************************)
InvestmentsAddUp ==
    \A d \in Deals :
        LET amounts == SumFunction(StandingAmounts(d))
            units == SumFunction(StandingUnits(d))
        IN  /\ amounts <= ledger[d].invested
            /\ units <= ledger[d].units
            /\ d \notin collided => amounts = ledger[d].invested
                                   /\ units = ledger[d].units

(***************************************************************************)
(* Refunds are covered: the Escrow keeps what the deal counts as invested, *)
(* less what the oracle or the owner had it pay for other ends; and the    *)
(* units sold were paid for at the unit price and are no more than there   *)
(* are.                                                                    *)
(***************************************************************************)
RefundsCovered ==
    \A d \in Deals :
        /\ ledger[d].invested <= balance[d] + spent[d]
        /\ ledger[d].invested = ledger[d].units * UnitPrice
        /\ ledger[d].units <= UnitsOf[d]

(***************************************************************************)
(* The Escrow's total is what it keeps for the deals; the factory's total  *)
(* of a deal, which refunds leave as it is, is never below the deal's own; *)
(* and the investors were paid no more profit than left the deal.          *)
(***************************************************************************)
TotalsAgree ==
    /\ total = SumFunction(balance)
    /\ \A d \in Deals :
          /\ ledger[d].invested <= listing[d].total
          /\ SumFunction([i \in Investors |-> paid[<<d, i>>]]) <= spent[d]
=============================================================================
