SPECIFICATION Spec
CONSTANTS
    mock1 = mock1
    remote1 = remote1
    mock2 = mock2
    wallet1 = wallet1
    inv1 = inv1
    inv2 = inv2
    Payments = {mock1, remote1, mock2, wallet1}
    Investments = {inv1, inv2}
    InvestmentOf <- MCInvestmentOf
    Amount <- MCAmount
    Reconciled = {mock1, remote1}
    Inline <- MCInline
    Target = 3
    Workers = {1, 2}
    Traffics <- MCTwice
    NoPayment = NoPayment
    NoInvestment = NoInvestment
    NoCharge = NoCharge
    NoEvent = NoEvent
INVARIANT EscrowIsBooked
CHECK_DEADLOCK FALSE
