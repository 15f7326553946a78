---------------------------- MODULE ProfitSplit ----------------------------
(***************************************************************************)
(* The arithmetic of ProfitsService.calculateProfit: how the profit of a   *)
(* deal is split into the platform fee and the parts of the investors and  *)
(* the farmer, and the investors' part among the investors.  An amount is  *)
(* a whole number of ticks, Scale ticks to one: decimal.util.ts rounds     *)
(* every result half up to four places, so there Scale is 10000.           *)
(***************************************************************************)
EXTENDS Integers, Functions

CONSTANTS
    Scale,              \* ticks in one
    FeePercent,         \* deal.platformFeePercent, in ticks like an amount
    InvestorPercent,    \* deal.investorSharePercent
    FarmerPercent       \* deal.farmerSharePercent

\* assertDealEconomics.
ASSUME ShareAssumption ==
    /\ Scale \in Nat \ {0}
    /\ {FeePercent, InvestorPercent, FarmerPercent} \subseteq Nat
    /\ InvestorPercent + FarmerPercent = 100 * Scale
    /\ FeePercent <= 50 * Scale

\* toFixed(4) of the quotient of two amounts that are not negative.
RoundDiv(a, b) == (2 * a + b) \div (2 * b)

Multiply(a, b) == RoundDiv(a * b, Scale)
Divide(a, b) == RoundDiv(a * Scale, b)

\* percentOf rounds twice.
PercentOf(amount, percent) == Divide(Multiply(amount, percent), 100 * Scale)

Fees(gross) == PercentOf(gross, FeePercent)
Distributable(gross) == gross - Fees(gross)
InvestorProfit(gross) == PercentOf(Distributable(gross), InvestorPercent)
FarmerProfit(gross) == PercentOf(Distributable(gross), FarmerPercent)

\* The entries of the posting each carry an amount, and its debits, which are
\* twice the revenue, are its credits.
Postable(revenue, expenses) ==
    LET gross == revenue - expenses
        parts == <<Fees(gross), InvestorProfit(gross), FarmerProfit(gross)>>
    IN  /\ 0 \notin {revenue, expenses} \cup {parts[i] : i \in 1 .. 3}
        /\ parts[1] + parts[2] + parts[3] = gross

Invested(holding) == SumFunction(holding)

\* An investor's part goes by the share of the investments, which is itself
\* rounded to the places of an amount.
ShareFactor(holding, x) == Divide(holding[x], Invested(holding))

\* Mutant: the investors share the profit before the fee.
Allocation_Gross(gross, holding, x) ==
    Multiply(PercentOf(gross, InvestorPercent), ShareFactor(holding, x))

Allocation(gross, holding, x) ==
    Multiply(InvestorProfit(gross), ShareFactor(holding, x))

Allocated(gross, holding) ==
    SumFunction([x \in DOMAIN holding |-> Allocation(gross, holding, x)])
=============================================================================
