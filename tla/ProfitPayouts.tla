--------------------------- MODULE ProfitPayouts ---------------------------
(***************************************************************************)
(* ProfitsService for one deal: calculateProfit, approveProfitCalculation  *)
(* and distributeProfit, and DealsService.close, which the last one may    *)
(* meet.  A calculation and its distributions are written in one           *)
(* transaction with their posting; a distribution is paid, posted and      *)
(* marked in three statements of their own.                                *)
(***************************************************************************)
EXTENDS PayoutRequests, ProfitSplit

CONSTANTS
    Calculations,   \* calculation ids
    Statements,     \* revenue and expenses a calculation may be made from
    Holding,        \* the amount each investor holds in confirmed investments
    Farmer,         \* the recipient who is no investor
    NoCalculation

Recipients == DOMAIN Holding \cup {Farmer}

ASSUME ProfitAssumption ==
    /\ Farmer \notin DOMAIN Holding
    /\ IsFiniteSet(DOMAIN Holding)
    /\ \A x \in DOMAIN Holding : Holding[x] \in Nat \ {0}
    /\ Statements \subseteq [revenue : Nat, expenses : Nat]
    /\ NoCalculation \notin Statements

VARIABLES
    deal,           \* the deal's status; ACTIVE stands for the five stages in
                    \* which profit can be calculated
    calculation,    \* the statement each calculation was made from
    approved,       \* the calculations approved
    distributed     \* the distributions COMPLETED, of those of a calculation

profitVars == <<deal, calculation, approved, distributed>>

Distributions == Calculations \X Recipients

PaymentKey(d) == <<"profit-distribution-payment", d>>
LedgerKey(d) == <<"profit-distribution-ledger", d>>

ProfitInit ==
    /\ deal = "ACTIVE"
    /\ calculation = [c \in Calculations |-> NoCalculation]
    /\ approved = {}
    /\ distributed = {}

Gross(s) == s.revenue - s.expenses

\* What a distribution pays.
Due(d) ==
    LET gross == Gross(calculation[d[1]])
    IN  IF d[2] = Farmer THEN FarmerProfit(gross)
        ELSE Allocation(gross, Holding, d[2])

(***************************************************************************)
(* calculateProfit.  The deal's status is read before the transaction.  An *)
(* id is used once; a deal may be calculated any number of times.          *)
(***************************************************************************)
CalculateRead(w, c, s) ==
    /\ deal = "ACTIVE"
    /\ calculation[c] = NoCalculation
    /\ Gross(s) > 0
    /\ Begin(w, [op |-> "calculate", pc |-> "write", id |-> c, from |-> s])
    /\ UNCHANGED <<profitVars, books>>

\* A statement that the ledger does not take rolls the calculation back.
CalculateWrite(w) ==
    LET s == task[w].from IN
    /\ At(w, "calculate", "write")
    /\ IF Postable(s.revenue, s.expenses) /\ calculation[task[w].id] = NoCalculation
       THEN calculation' = [calculation EXCEPT ![task[w].id] = s]
       ELSE UNCHANGED calculation
    /\ Finish(w)
    /\ UNCHANGED <<deal, approved, distributed, books>>

\* Approval is never taken back, so that two of them are as good as one.
ApproveCalculation(c) ==
    /\ calculation[c] # NoCalculation
    /\ c \notin approved
    /\ approved' = approved \cup {c}
    /\ UNCHANGED <<deal, calculation, distributed, books, requestVars>>

(***************************************************************************)
(* distributeProfit.                                                       *)
(***************************************************************************)
Pending(c) == ({c} \X Recipients) \ distributed

DistributeRead(w, c) ==
    /\ c \in approved
    /\ Begin(w, [op |-> "distribute", pc |-> "next", id |-> c,
                 todo |-> Pending(c)])
    /\ UNCHANGED <<profitVars, books>>

\* Mutant: a distribution that has been paid already is passed over.
Duplicate_Skipped(w) == Continue(w, [task[w] EXCEPT !.todo = {
    d \in @ : PaymentKey(d) \notin payments}])

\* The unique key of the payment throws out of the request.
Duplicate(w) == Finish(w)

PayDistribution(w, d) ==
    /\ At(w, "distribute", "next")
    /\ d \in task[w].todo
    /\ IF PaymentKey(d) \in payments
       THEN Duplicate(w) /\ UNCHANGED payments
       ELSE /\ payments' = payments \cup {PaymentKey(d)}
            /\ Continue(w, [op |-> "distribute", pc |-> "post", id |-> task[w].id,
                            todo |-> task[w].todo, now |-> d])
    /\ UNCHANGED <<profitVars, posted>>

\* The payment is there when the ledger refuses a posting of nothing.
PostDistribution(w) ==
    LET d == task[w].now IN
    /\ At(w, "distribute", "post")
    /\ IF Due(d) = 0 /\ LedgerKey(d) \notin posted
       THEN Finish(w) /\ UNCHANGED posted
       ELSE Post(LedgerKey(d)) /\ Goto(w, "mark")
    /\ UNCHANGED <<profitVars, payments>>

\* Mutant: they are all marked at the end.
MarkDistribution_AtEnd(w) ==
    LET d == task[w].now
        c == task[w].id
    IN  /\ At(w, "distribute", "mark")
        /\ distributed' = IF task[w].todo = {d} THEN distributed \cup Pending(c)
                          ELSE distributed
        /\ Continue(w, [op |-> "distribute", pc |-> "next", id |-> c,
                        todo |-> task[w].todo \ {d}])
        /\ UNCHANGED <<deal, calculation, approved, books>>

MarkDistribution(w) ==
    LET d == task[w].now IN
    /\ At(w, "distribute", "mark")
    /\ distributed' = distributed \cup {d}
    /\ Continue(w, [op |-> "distribute", pc |-> "next", id |-> task[w].id,
                    todo |-> task[w].todo \ {d}])
    /\ UNCHANGED <<deal, calculation, approved, books>>

\* The status is written without a look at the one there.
SettleDeal(w) ==
    /\ At(w, "distribute", "next")
    /\ task[w].todo = {}
    /\ deal' = "SETTLED"
    /\ Finish(w)
    /\ UNCHANGED <<calculation, approved, distributed, books>>

(***************************************************************************)
(* DealsService.close.                                                     *)
(***************************************************************************)
CloseRead(w) ==
    /\ deal = "SETTLED"
    /\ Begin(w, [op |-> "close", pc |-> "write"])
    /\ UNCHANGED <<profitVars, books>>

CloseWrite(w) ==
    /\ At(w, "close", "write")
    /\ deal' = "CLOSED"
    /\ Finish(w)
    /\ UNCHANGED <<calculation, approved, distributed, books>>

ProfitStep ==
    \/ \E c \in Calculations : ApproveCalculation(c)
    \/ \E w \in Workers :
          \/ \E c \in Calculations :
                \/ \E s \in Statements : CalculateRead(w, c, s)
                \/ DistributeRead(w, c)
          \/ CalculateWrite(w)
          \/ \E d \in Distributions : PayDistribution(w, d)
          \/ PostDistribution(w)
          \/ MarkDistribution(w)
          \/ SettleDeal(w)
          \/ CloseRead(w)
          \/ CloseWrite(w)

----------------------------------------------------------------------------
(***************************************************************************)
(* Properties.                                                             *)
(***************************************************************************)
ProfitTypeOK ==
    /\ deal \in {"ACTIVE", "SETTLED", "CLOSED"}
    /\ calculation \in [Calculations -> Statements \cup {NoCalculation}]
    /\ approved \subseteq Calculations
    /\ distributed \subseteq Distributions

Made == {c \in Calculations : calculation[c] # NoCalculation}

Distance(m, n) == IF m > n THEN m - n ELSE n - m

(***************************************************************************)
(* Of every calculation made: the fee and the two parts are the gross      *)
(* profit to the last digit, and what the distributions pay the investors, *)
(* if there are any, differs from their part by no more than half a digit  *)
(* of the share factor and of the amount for each of them.                 *)
(***************************************************************************)
ProfitAddsUp ==
    \A c \in Made :
        LET gross == Gross(calculation[c])
            part == InvestorProfit(gross)
        IN  /\ Fees(gross) + part + FarmerProfit(gross) = gross
            /\ DOMAIN Holding # {} =>
                  2 * Scale * Distance(Allocated(gross, Holding), part)
                     <= Cardinality(DOMAIN Holding) * (part + Scale)

(***************************************************************************)
(* A deal that is SETTLED has a calculation of which everybody is paid, on *)
(* the payments table and in the ledger; a distribution is marked and      *)
(* posted only after it is paid.  However requests overlap or die.         *)
(***************************************************************************)
SettledDealIsDistributed ==
    /\ deal # "ACTIVE" => \E c \in approved : Pending(c) = {}
    /\ \A d \in distributed : LedgerKey(d) \in posted
    /\ \A d \in Distributions :
          LedgerKey(d) \in posted => PaymentKey(d) \in payments

(***************************************************************************)
(* A distribution that is paid gets marked, unless something fails or its  *)
(* amount is nothing: two requests that meet do not strand it.             *)
(***************************************************************************)
NoStrandedDistribution ==
    \A d \in Distributions :
        \/ PaymentKey(d) \notin payments
        \/ d \in distributed
        \/ \E w \in Workers :
              /\ At(w, "distribute", "post") \/ At(w, "distribute", "mark")
              /\ task[w].now = d
        \/ faults > 0
        \/ Due(d) = 0
=============================================================================
