SPECIFICATION Spec
CONSTANTS
    i1 = i1
    i2 = i2
    i3 = i3
    x = x
    y = y
    Investments = {i1, i2, i3}
    InvestorOf <- MCOneInvestor
    UnitsOf <- MCUnitsOf
    p1 = p1
    p2 = p2
    text1 = text1
    Drafts <- MCDrafts
    Edits <- MCEdits
    ApprovedProjects = {p1}
    NoProject = NoProject
    NoText = NoText
    MaxEdits = 2
    w1 = w1
    w2 = w2
    Workers = {w1}
INVARIANT InvestorWithinMaximum
CHECK_DEADLOCK FALSE
