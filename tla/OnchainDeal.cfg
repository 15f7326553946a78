SPECIFICATION Spec
CONSTANTS
    deal1 = deal1
    deal2 = deal2
    owner = owner
    oracle = oracle
    farmer = farmer
    Deals = {deal1, deal2}
    Accounts = {owner, oracle, farmer, i1, i2}
    Owner = owner
    Granted <- MCGranted
    Grants <- MCGrants
    Pausable <- MCPausable
    MaxChanges = 1
    Amounts = {1}
    Investors = {i1, i2}
    Farmer = farmer
    UnitsOf <- MCUnitsOf
    UnitPrice = 1
    Statuses = {"Funding"}
    MaxBlock = 2
    MaxMoves = 3
    NoInvestment = NoInvestment
INVARIANTS
    TypeOK
    InvestmentsAddUp
    RefundsCovered
    TotalsAgree
PROPERTIES
    MoneyKeptApart
SYMMETRY Alike
CHECK_DEADLOCK FALSE
