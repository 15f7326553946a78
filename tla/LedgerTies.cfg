SPECIFICATION Spec
CONSTANTS
    cash = cash
    payable = payable
    dormant = dormant
    Accounts <- MCAccounts
    DebitSide <- MCDebitSide
    ActiveAccounts <- MCActive
    Keys <- MCKeys
    Requests <- TieRequests
    Procs = {p1, p2}
    NoProc = NoProc
    NoRequest = NoRequest
INVARIANT
    SomeLineHoldsBalance
