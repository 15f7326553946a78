SPECIFICATION FairSpec
CONSTANTS
    cash = cash
    payable = payable
    dormant = dormant
    Accounts <- MCAccounts
    DebitSide <- MCDebitSide
    ActiveAccounts <- MCActive
    Keys <- MCKeys
    Requests <- AllRequests
    Procs = {p1, p2}
    NoProc = NoProc
    NoRequest = NoRequest
INVARIANTS
    TypeOK
    TrialBalance
    AtMostOncePerKey
    AnsweredIsCommitted
    PostsUnderLock
    DistinctTimesAddUp
PROPERTIES
    EveryCallEnds
    ImplementsJournal
