SPECIFICATION Spec
CONSTANTS
    s1 = s1
    s2 = s2
    x1 = x1
    x2 = x2
    i1 = i1
    i2 = i2
    c1 = c1
    d1 = d1
    farmer = farmer
    Workers = {w1, w2}
    MaxRequests = 4
    MaxFaults = 1
    Settlements = {s1, s2}
    TypeOf <- MCTypeOf
    AmountOf <- MCAmountOf
    HasRecipient = {s1}
    Deposits = {d1}
    DepositAmount = 1
    LockAmount = 1
    Opening = 2
    Withdrawals = {x1, x2}
    WithdrawalOf <- MCWithdrawalOf
    WalletOpening = 1
    Scale = 100
    FeePercent = 250
    InvestorPercent = 6000
    FarmerPercent = 4000
    Calculations = {c1}
    Statements <- MCStatements
    Holding <- MCHolding
    Farmer = farmer
    NoCalculation = NoCalculation
INVARIANTS
    TypeOK
    EscrowBooksOneByOne
    PayoutFollowsRelease
    FailedDrewNothing
    WithdrawnOnce
    WalletOverdrawnByOverlapOnly
    ProfitAddsUp
    SettledDealIsDistributed
    NoStrandedDistribution
SYMMETRY Alike
CHECK_DEADLOCK FALSE
