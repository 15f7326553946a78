------------------------- MODULE OnchainDealProofs -------------------------
(***************************************************************************)
(* What holds of OnchainDeal for any number of deals, investors, units,    *)
(* blocks and any wiring of the roles: its types, that refunds are         *)
(* covered, and that it keeps the promises of DealMoney.                   *)
(***************************************************************************)
EXTENDS OnchainDeal, SumLemmas

\* An investment was paid at the unit price, so that its refund takes as much
\* money as units from the deal.
PricesKept ==
    \A id \in Ids :
        investment[id] # NoInvestment =>
            investment[id].amount = investment[id].units * UnitPrice

IInv == TypeOK /\ RefundsCovered /\ PricesKept

\* A transaction that leaves the deal contracts and the Escrow alone leaves
\* refunds covered.
LEMMA MoneyUntouched ==
    ASSUME RefundsCovered, PricesKept, UNCHANGED <<dealVars, escrowVars>>
    PROVE  RefundsCovered' /\ PricesKept'
  BY DEF RefundsCovered, PricesKept, Refundable, dealVars, escrowVars, Ids

\* What a transaction that pays does to the balances.
LEMMA PayFacts ==
    ASSUME TypeOK, NEW sender, NEW d \in Deals, NEW amount, Pay(sender, d, amount)
    PROVE  /\ amount \in Nat \ {0}
           /\ amount <= balance[d]
           /\ balance' \in [Deals -> Int]
           /\ balance' = [balance EXCEPT ![d] = @ - amount]
           /\ total' = total - amount
  BY DEF TypeOK, Pay, Covered

LEMMA TimesDistributes ==
    ASSUME NEW a \in Nat, NEW b \in Nat, NEW c \in Nat
    PROVE  /\ a * c \in Nat
           /\ (a + b) * c = a * c + b * c
           /\ (a - b) * c = a * c - b * c
  OBVIOUS

\* A transaction that brings money in, or takes it out and accounts for it.
LEMMA MoneyAccounted ==
    ASSUME TypeOK, RefundsCovered, PricesKept, UNCHANGED <<ledger, investment>>,
           NEW d \in Deals, NEW amount \in Nat,
           \/ /\ balance' = [balance EXCEPT ![d] = @ + amount]
              /\ UNCHANGED spent
           \/ /\ amount <= balance[d]
              /\ balance' = [balance EXCEPT ![d] = @ - amount]
              /\ spent' = [spent EXCEPT ![d] = @ + amount]
    PROVE  RefundsCovered' /\ PricesKept'
<1>1. RefundsCovered'
  <2>. SUFFICES ASSUME NEW e \in Deals
                PROVE  /\ ledger[e].invested <= balance'[e] + spent'[e]
                       /\ ledger[e].invested = ledger[e].units * UnitPrice
                       /\ ledger[e].units <= UnitsOf[e]
    BY DEF RefundsCovered
  <2>1. balance[e] \in Nat /\ spent[e] \in Nat
    BY DEF TypeOK
  <2>2. balance'[e] + spent'[e] >= balance[e] + spent[e]
    BY <2>1 DEF TypeOK
  <2>3. ledger[e].invested \in Nat
    BY DEF TypeOK
  <2>4. balance'[e] \in Int /\ spent'[e] \in Int
    BY <2>1 DEF TypeOK
  <2>. QED BY <2>1, <2>2, <2>3, <2>4 DEF RefundsCovered
<1>2. PricesKept'
  BY DEF PricesKept
<1>. QED BY <1>1, <1>2

\* The types of what a transaction on the balances writes.
LEMMA PayTypes ==
    ASSUME TypeOK, NEW sender, NEW d \in Deals, NEW amount, Pay(sender, d, amount)
    PROVE  balance' \in [Deals -> Nat] /\ total' \in Nat
  BY DEF TypeOK, Pay, Covered

LEMMA FundTypes ==
    ASSUME TypeOK, NEW d \in Deals, NEW amount \in Nat, Fund(d, amount)
    PROVE  balance' \in [Deals -> Nat] /\ total' \in Nat
  BY DEF TypeOK, Fund

LEMMA SpentTypes ==
    ASSUME TypeOK, NEW d \in Deals, NEW amount \in Nat,
           spent' = [spent EXCEPT ![d] = @ + amount]
    PROVE  spent' \in [Deals -> Nat]
  BY DEF TypeOK

LEMMA LedgerTypes ==
    ASSUME TypeOK, NEW d \in Deals, NEW a \in Nat, NEW u \in Nat,
           ledger' = [ledger EXCEPT ![d] = [invested |-> @.invested + a,
                          units |-> @.units + u, settled |-> @.settled]]
    PROVE  ledger' \in [Deals -> [invested : Nat, units : Nat, settled : BOOLEAN]]
  BY DEF TypeOK

LEMMA UnclaimedTypes ==
    ASSUME TypeOK, NEW d \in Deals, NEW a \in Nat, NEW u \in Nat,
           a <= ledger[d].invested, u <= ledger[d].units
    PROVE  Unclaimed(d, a, u)
               \in [Deals -> [invested : Nat, units : Nat, settled : BOOLEAN]]
  BY DEF TypeOK, Unclaimed

LEMMA ListingTypes ==
    ASSUME TypeOK, NEW d \in Deals, NEW a \in Nat,
           listing' = [listing EXCEPT ![d].total = @ + a]
    PROVE  listing' \in [Deals ->
               [status : {"none", "Draft", "Funding", "Settled"} \cup Statuses, total : Nat]]
<1>. DEFINE S == {"none", "Draft", "Funding", "Settled"} \cup Statuses
<1>1. listing \in [Deals -> [status : S, total : Nat]]
  BY DEF TypeOK
<1>. HIDE DEF S
<1>2. listing' \in [Deals -> [status : S, total : Nat]]
  BY <1>1
<1>. QED BY <1>2 DEF S

\* invest: what is claimed and what is kept grow alike.
LEMMA InvestKeeps ==
    ASSUME TypeOK, RefundsCovered, PricesKept, DealAssumption,
           NEW i \in Investors, NEW d \in Deals, NEW units \in 1 .. UnitsOf[d],
           Invest(i, d, units)
    PROVE  TypeOK' /\ RefundsCovered' /\ PricesKept'
<1>. DEFINE amount == units * UnitPrice
            id == <<d, i, block>>
<1>1. /\ units \in Nat /\ UnitPrice \in Nat \ {0} /\ amount \in Nat
      /\ UnitsOf[d] \in Nat
  BY DEF DealAssumption
<1>2. id \in Ids
  BY DEF TypeOK, Ids
<1>3. /\ ledger' = [ledger EXCEPT ![d] = [invested |-> @.invested + amount,
                          units |-> @.units + units, settled |-> @.settled]]
      /\ investment' = [investment EXCEPT ![id] =
             [units |-> units, amount |-> amount, status |-> "Pending"]]
      /\ Fund(d, amount)
      /\ listing' = [listing EXCEPT ![d].total = @ + amount]
      /\ collided' \in {collided, collided \cup {d}}
      /\ ledger[d].units + units <= UnitsOf[d]
      /\ moves' \in 0 .. MaxMoves
      /\ UNCHANGED <<roleVars, project, spent, paid, block>>
  <2>1. moves' \in 0 .. MaxMoves
    BY DEF Invest, Move, TypeOK, DealAssumption
  <2>. QED BY <2>1 DEF Invest, TotalInvested, UnitsLeft, UnitsLeft
<1>4. TypeOK'
  <2>1. balance' \in [Deals -> Nat] /\ total' \in Nat
    BY <1>1, <1>3, FundTypes
  <2>2. ledger' \in [Deals -> [invested : Nat, units : Nat, settled : BOOLEAN]]
    BY <1>1, <1>3, LedgerTypes
  <2>3. investment' \in [Ids -> Investment \cup {NoInvestment}]
    <3>1. [units |-> units, amount |-> amount, status |-> "Pending"] \in Investment
      BY <1>1 DEF Investment
    <3>. QED BY <1>2, <1>3, <3>1 DEF TypeOK
  <2>4. listing' \in [Deals ->
            [status : {"none", "Draft", "Funding", "Settled"} \cup Statuses, total : Nat]]
    BY <1>1, <1>3, ListingTypes
  <2>5. collided' \subseteq Deals
    BY <1>3 DEF TypeOK
  <2>. QED BY <1>3, <2>1, <2>2, <2>3, <2>4, <2>5 DEF TypeOK, RolesTypeOK, roleVars
<1>5. RefundsCovered'
  <2>. SUFFICES ASSUME NEW e \in Deals
                PROVE  /\ ledger'[e].invested <= balance'[e] + spent'[e]
                       /\ ledger'[e].invested = ledger'[e].units * UnitPrice
                       /\ ledger'[e].units <= UnitsOf[e]
    BY DEF RefundsCovered
  <2>1. CASE e # d
    BY <1>3, <2>1 DEF RefundsCovered, TypeOK, Fund
  <2>2. CASE e = d
    <3>1. /\ ledger'[d].invested = ledger[d].invested + amount
          /\ ledger'[d].units = ledger[d].units + units
          /\ balance'[d] = balance[d] + amount
          /\ spent'[d] = spent[d]
      BY <1>3 DEF TypeOK, Fund
    <3>2. /\ ledger[d].invested \in Nat /\ ledger[d].units \in Nat
          /\ balance[d] \in Nat /\ spent[d] \in Nat
      BY DEF TypeOK
    <3>3. (ledger[d].units + units) * UnitPrice = ledger[d].units * UnitPrice + amount
      BY <1>1, <3>2, TimesDistributes
    <3>. QED BY <1>1, <1>3, <2>2, <3>1, <3>2, <3>3 DEF RefundsCovered
  <2>. QED BY <2>1, <2>2
<1>6. PricesKept'
  BY <1>2, <1>3 DEF PricesKept, TypeOK
<1>. QED BY <1>4, <1>5, <1>6

\* refundInvestment: they shrink alike.
LEMMA RefundKeeps ==
    ASSUME TypeOK, RefundsCovered, PricesKept, DealAssumption,
           NEW sender \in Accounts, NEW id \in Ids, RefundInvestment(sender, id)
    PROVE  TypeOK' /\ RefundsCovered' /\ PricesKept'
<1>. DEFINE d == id[1]
            amount == investment[id].amount
            units == investment[id].units
<1>1. d \in Deals
  BY DEF Ids
<1>2. /\ investment[id] \in Investment /\ amount \in Nat /\ units \in Nat
      /\ amount = units * UnitPrice /\ UnitPrice \in Nat
  BY DEF RefundInvestment, Refundable, TypeOK, Investment, PricesKept, DealAssumption
<1>3. /\ amount <= ledger[d].invested
      /\ units <= ledger[d].units
      /\ investment' = [investment EXCEPT ![id].status = "Refunded"]
      /\ ledger' = Unclaimed(d, amount, units)
      /\ Pay(d, d, amount)
      /\ UNCHANGED <<roleVars, project, listing, collided, spent, paid, block, moves>>
  BY DEF RefundInvestment
<1>4. TypeOK'
  <2>1. balance' \in [Deals -> Nat] /\ total' \in Nat
    BY <1>1, <1>3, PayTypes
  <2>2. ledger' \in [Deals -> [invested : Nat, units : Nat, settled : BOOLEAN]]
    BY <1>1, <1>2, <1>3, UnclaimedTypes
  <2>3. investment' \in [Ids -> Investment \cup {NoInvestment}]
    BY <1>2, <1>3 DEF TypeOK, Investment
  <2>. QED BY <1>3, <2>1, <2>2, <2>3 DEF TypeOK, RolesTypeOK, roleVars
<1>5. RefundsCovered'
  <2>. SUFFICES ASSUME NEW e \in Deals
                PROVE  /\ ledger'[e].invested <= balance'[e] + spent'[e]
                       /\ ledger'[e].invested = ledger'[e].units * UnitPrice
                       /\ ledger'[e].units <= UnitsOf[e]
    BY DEF RefundsCovered
  <2>0. balance' = [balance EXCEPT ![d] = @ - amount]
    BY <1>1, <1>3, PayFacts
  <2>1. CASE e # d
    BY <1>3, <2>0, <2>1 DEF RefundsCovered, TypeOK, Unclaimed
  <2>2. CASE e = d
    <3>1. /\ ledger'[d].invested = ledger[d].invested - amount
          /\ ledger'[d].units = ledger[d].units - units
          /\ balance'[d] = balance[d] - amount
          /\ spent'[d] = spent[d]
      BY <1>1, <1>3, <2>0 DEF TypeOK, Unclaimed
    <3>2. /\ ledger[d].invested \in Nat /\ ledger[d].units \in Nat
          /\ balance[d] \in Nat /\ spent[d] \in Nat /\ UnitsOf[d] \in Nat
      BY <1>1 DEF TypeOK, DealAssumption
    <3>3. (ledger[d].units - units) * UnitPrice = ledger[d].units * UnitPrice - amount
      BY <1>2, <3>2, TimesDistributes
    <3>. QED BY <1>1, <1>2, <1>3, <2>2, <3>1, <3>2, <3>3 DEF RefundsCovered
  <2>. QED BY <2>1, <2>2
<1>6. PricesKept'
  BY <1>2, <1>3 DEF PricesKept, TypeOK, Investment
<1>. QED BY <1>4, <1>5, <1>6

LEMMA InitKeeps == Init => IInv
<1>. SUFFICES ASSUME Init PROVE IInv
  OBVIOUS
<1>. USE DealAssumption, RoleAssumption DEF DealAssumption, RoleAssumption
<1>1. RolesTypeOK
  BY DEF Init, RolesInit, RolesTypeOK, AllRoles, Contracts, Roles, Principals
<1>2. TypeOK
  <2>1. listing \in [Deals -> [status : {"none", "Draft", "Funding", "Settled"} \cup Statuses,
                             total : Nat]]
    BY DEF Init
  <2>2. ledger \in [Deals -> [invested : Nat, units : Nat, settled : BOOLEAN]]
    BY DEF Init
  <2>3. investment \in [Ids -> Investment \cup {NoInvestment}]
    BY DEF Init
  <2>4. /\ balance \in [Deals -> Nat] /\ spent \in [Deals -> Nat]
        /\ paid \in [Deals \X Investors -> Nat]
    BY DEF Init
  <2>5. block \in 1 .. MaxBlock /\ moves \in 0 .. MaxMoves /\ total \in Nat
    BY DEF Init
  <2>6. project \in {"none", "registered", "verified"} /\ collided \subseteq Deals
    BY DEF Init
  <2>. QED BY <1>1, <2>1, <2>2, <2>3, <2>4, <2>5, <2>6 DEF TypeOK
<1>3. RefundsCovered
  BY DEF Init, RefundsCovered
<1>4. PricesKept
  BY DEF Init, PricesKept
<1>. QED BY <1>2, <1>3, <1>4 DEF IInv

\* Roles, the registry and the clock.
LEMMA QuietKeeps ==
    ASSUME IInv, RoleAssumption, DealAssumption,
           UNCHANGED <<listing, dealVars, escrowVars, paid, moves>>,
           \/ RoleStep /\ UNCHANGED <<project, block>>
           \/ RegisterProject
           \/ \E sender \in Accounts, verified \in BOOLEAN : VerifyProject(sender, verified)
           \/ NextBlock
    PROVE  IInv'
<1>1. RefundsCovered' /\ PricesKept'
  BY MoneyUntouched DEF IInv
<1>2. RolesTypeOK'
  <2>1. Change => changes' \in 0 .. MaxChanges
    BY DEF IInv, TypeOK, RolesTypeOK, Change, RoleAssumption
  <2>. QED BY <2>1 DEF IInv, TypeOK, RolesTypeOK, RoleStep, GrantRole, RevokeRole,
              Pause, Unpause, RegisterProject, VerifyProject, NextBlock, roleVars,
              RoleAssumption
<1>3. project' \in {"none", "registered", "verified"} /\ block' \in 1 .. MaxBlock
  BY DEF IInv, TypeOK, RegisterProject, VerifyProject, NextBlock, DealAssumption
<1>4. TypeOK'
  BY <1>2, <1>3 DEF IInv, TypeOK, dealVars, escrowVars
<1>. QED BY <1>1, <1>4 DEF IInv

\* What only changes the factory's listing of a deal, or a status.
LEMMA ListingKeeps ==
    ASSUME IInv, DealAssumption, NEW sender \in Accounts, NEW d \in Deals,
           \/ CreateDeal(sender, d)
           \/ ActivateDeal(sender, d)
           \/ \E status \in Statuses : UpdateDealStatus(sender, d, status)
           \/ \E a \in Amounts : UpdateTotalInvested(sender, d, a)
    PROVE  IInv'
<1>. DEFINE S == {"none", "Draft", "Funding", "Settled"} \cup Statuses
            L == [Deals -> [status : S, total : Nat]]
<1>1. UNCHANGED <<roleVars, project, dealVars, escrowVars, paid, block>>
  BY DEF CreateDeal, ActivateDeal, UpdateDealStatus, UpdateTotalInvested
<1>2. RefundsCovered' /\ PricesKept'
  BY <1>1, MoneyUntouched DEF IInv
<1>3. listing \in L
  BY DEF IInv, TypeOK
<1>4. listing' \in L
  <2>1. ASSUME NEW status \in S, listing' = [listing EXCEPT ![d].status = status]
        PROVE  listing' \in L
    <3>. HIDE DEF S
    <3>. QED BY <1>3, <2>1
  <2>2. CASE CreateDeal(sender, d)
    BY <1>3, <2>2 DEF CreateDeal
  <2>3. CASE ActivateDeal(sender, d)
    BY <2>1, <2>3 DEF ActivateDeal
  <2>4. CASE \E status \in Statuses : UpdateDealStatus(sender, d, status)
    BY <2>1, <2>4 DEF UpdateDealStatus
  <2>5. ASSUME NEW a \in Amounts, UpdateTotalInvested(sender, d, a)
        PROVE  listing' \in L
    BY <2>5, ListingTypes DEF UpdateTotalInvested, TotalInvested, IInv, DealAssumption
  <2>. QED BY <2>2, <2>3, <2>4, <2>5
<1>5. moves' \in 0 .. MaxMoves
  BY DEF CreateDeal, ActivateDeal, UpdateDealStatus, UpdateTotalInvested, Move,
         IInv, TypeOK, DealAssumption
<1>6. TypeOK'
  BY <1>1, <1>4, <1>5 DEF IInv, TypeOK, RolesTypeOK, dealVars, escrowVars, roleVars
<1>. QED BY <1>2, <1>6 DEF IInv

\* What changes a DealContract but no money.
LEMMA StatusKeeps ==
    ASSUME IInv, NEW sender \in Accounts,
           \/ \E id \in Ids : ConfirmInvestment(sender, id)
           \/ \E d \in Deals : Settle(sender, d)
    PROVE  IInv'
<1>1. ASSUME NEW id \in Ids, ConfirmInvestment(sender, id)
      PROVE  IInv'
  <2>1. investment' \in [Ids -> Investment \cup {NoInvestment}]
    BY <1>1 DEF IInv, TypeOK, ConfirmInvestment, Investment
  <2>2. TypeOK'
    BY <1>1, <2>1 DEF IInv, TypeOK, RolesTypeOK, ConfirmInvestment, roleVars, escrowVars
  <2>3. RefundsCovered'
    BY <1>1 DEF IInv, RefundsCovered, ConfirmInvestment, escrowVars
  <2>4. PricesKept'
    BY <1>1 DEF IInv, PricesKept, TypeOK, Investment, ConfirmInvestment
  <2>. QED BY <2>2, <2>3, <2>4 DEF IInv
<1>2. ASSUME NEW d \in Deals, Settle(sender, d)
      PROVE  IInv'
  <2>1. ledger' \in [Deals -> [invested : Nat, units : Nat, settled : BOOLEAN]]
    <3>1. /\ ledger \in [Deals -> [invested : Nat, units : Nat, settled : BOOLEAN]]
          /\ ledger' = [ledger EXCEPT ![d].settled = TRUE]
      BY <1>2 DEF IInv, TypeOK, Settle
    <3>2. TRUE \in BOOLEAN
      OBVIOUS
    <3>. QED BY <3>1, <3>2, Zenon
  <2>2. listing' \in [Deals ->
            [status : {"none", "Draft", "Funding", "Settled"} \cup Statuses, total : Nat]]
    BY <1>2 DEF IInv, TypeOK, Settle
  <2>3. TypeOK'
    BY <1>2, <2>1, <2>2 DEF IInv, TypeOK, RolesTypeOK, Settle, roleVars, escrowVars
  <2>4. RefundsCovered'
    BY <1>2 DEF IInv, RefundsCovered, TypeOK, Settle, escrowVars
  <2>5. PricesKept'
    BY <1>2 DEF IInv, PricesKept, Settle
  <2>. QED BY <2>3, <2>4, <2>5 DEF IInv
<1>. QED BY <1>1, <1>2

\* What brings money to a deal or pays it out, but is no refund.
LEMMA PaymentKeeps ==
    ASSUME IInv, DealAssumption, NEW d \in Deals,
           \/ \E a \in Amounts : Donate(d, a)
           \/ \E sender \in Accounts, a \in Amounts :
                 \/ PayDirectly(sender, d, a)
                 \/ \E i \in Investors : DistributeProfit(sender, d, i, a)
           \/ \E sender \in Accounts, S \in SUBSET Investors, fee \in Amounts \cup {0} :
                 \E amounts \in [S -> Amounts] :
                     CalculateAndDistribute(sender, d, amounts, fee)
    PROVE  IInv'
<1>1. /\ UNCHANGED <<roleVars, project, listing, dealVars, block>>
      /\ Move
  BY DEF Donate, PayDirectly, DistributeProfit, CalculateAndDistribute
<1>2. moves' \in 0 .. MaxMoves
  BY <1>1 DEF Move, IInv, TypeOK, DealAssumption
<1>3. paid' \in [Deals \X Investors -> Nat]
  <2>1. ASSUME NEW a \in Amounts, NEW sender \in Accounts, NEW i \in Investors,
               DistributeProfit(sender, d, i, a)
        PROVE  paid' \in [Deals \X Investors -> Nat]
    BY <2>1 DEF DistributeProfit, IInv, TypeOK, DealAssumption
  <2>2. ASSUME NEW sender \in Accounts, NEW S \in SUBSET Investors,
               NEW fee \in Amounts \cup {0}, NEW amounts \in [S -> Amounts],
               CalculateAndDistribute(sender, d, amounts, fee)
        PROVE  paid' \in [Deals \X Investors -> Nat]
    <3>1. paid' = [p \in Deals \X Investors |->
               IF p[1] = d /\ p[2] \in S THEN paid[p] + amounts[p[2]] ELSE paid[p]]
      BY <2>2 DEF CalculateAndDistribute, IInv, TypeOK
    <3>2. ASSUME NEW p \in Deals \X Investors
          PROVE  /\ paid[p] \in Nat
                 /\ p[2] \in S => amounts[p[2]] \in Nat
      BY DEF IInv, TypeOK, DealAssumption
    <3>. QED BY <3>1, <3>2
  <2>3. paid \in [Deals \X Investors -> Nat]
    BY DEF IInv, TypeOK
  <2>. QED BY <2>1, <2>2, <2>3 DEF Donate, PayDirectly, DealAssumption
<1>4. PICK amount \in Nat :
          \/ Fund(d, amount) /\ UNCHANGED spent
          \/ /\ \E sender : Pay(sender, d, amount)
             /\ spent' = [spent EXCEPT ![d] = @ + amount]
  <2>1. CASE \E a \in Amounts : Donate(d, a)
    BY <2>1 DEF Donate, DealAssumption
  <2>2. ASSUME NEW sender \in Accounts, NEW a \in Amounts,
               PayDirectly(sender, d, a) \/ \E i \in Investors : DistributeProfit(sender, d, i, a)
        PROVE  /\ a \in Nat
               /\ \E x : Pay(x, d, a)
               /\ spent' = [spent EXCEPT ![d] = @ + a]
    BY <2>2 DEF PayDirectly, DistributeProfit, DealAssumption
  <2>3. ASSUME NEW sender \in Accounts, NEW amounts, NEW fee,
               CalculateAndDistribute(sender, d, amounts, fee)
        PROVE  /\ Payments(amounts, fee) \in Nat
               /\ Pay("profits", d, Payments(amounts, fee))
               /\ spent' = [spent EXCEPT ![d] = @ + Payments(amounts, fee)]
    BY <2>3 DEF CalculateAndDistribute, Pay
  <2>. QED BY <2>1, <2>2, <2>3
<1>5. RefundsCovered' /\ PricesKept'
  BY <1>1, <1>4, MoneyAccounted, PayFacts DEF IInv, Fund, dealVars
<1>6. /\ balance' \in [Deals -> Nat] /\ total' \in Nat
      /\ spent' \in [Deals -> Nat]
  BY <1>4, FundTypes, PayTypes, SpentTypes DEF IInv, TypeOK
<1>7. TypeOK'
  BY <1>1, <1>2, <1>3, <1>6 DEF IInv, TypeOK, RolesTypeOK, roleVars, dealVars
<1>. QED BY <1>5, <1>7 DEF IInv

LEMMA NextKeeps == IInv /\ [Next]_vars => IInv'
<1>. SUFFICES ASSUME IInv, [Next]_vars
              PROVE  IInv'
  OBVIOUS
<1>. USE DealAssumption, RoleAssumption
<1>1. CASE UNCHANGED vars
  <2>1. TypeOK'
    BY <1>1 DEF IInv, TypeOK, RolesTypeOK, vars, roleVars, dealVars, escrowVars
  <2>. QED BY <1>1, <2>1, MoneyUntouched DEF IInv, vars
<1>2. CASE \/ RoleStep /\ UNCHANGED <<project, listing, dealVars, escrowVars, paid, block, moves>>
           \/ RegisterProject
           \/ \E sender \in Accounts, verified \in BOOLEAN : VerifyProject(sender, verified)
           \/ NextBlock
  BY <1>2, QuietKeeps DEF RegisterProject, VerifyProject, NextBlock
<1>3. ASSUME NEW sender \in Accounts, NEW d \in Deals,
             \/ CreateDeal(sender, d)
             \/ ActivateDeal(sender, d)
             \/ \E status \in Statuses : UpdateDealStatus(sender, d, status)
             \/ \E a \in Amounts : UpdateTotalInvested(sender, d, a)
      PROVE  IInv'
  BY <1>3, ListingKeeps
<1>4. ASSUME NEW sender \in Accounts,
             \/ \E id \in Ids : ConfirmInvestment(sender, id)
             \/ \E d \in Deals : Settle(sender, d)
      PROVE  IInv'
  BY <1>4, StatusKeeps
<1>5. ASSUME NEW i \in Investors, NEW d \in Deals, NEW units \in 1 .. UnitsOf[d],
             Invest(i, d, units)
      PROVE  IInv'
  BY <1>5, InvestKeeps DEF IInv
<1>6. ASSUME NEW sender \in Accounts, NEW id \in Ids, RefundInvestment(sender, id)
      PROVE  IInv'
  BY <1>6, RefundKeeps DEF IInv
<1>7. ASSUME NEW d \in Deals,
             \/ \E a \in Amounts : Donate(d, a)
             \/ \E sender \in Accounts, a \in Amounts :
                   \/ PayDirectly(sender, d, a)
                   \/ \E i \in Investors : DistributeProfit(sender, d, i, a)
             \/ \E sender \in Accounts, S \in SUBSET Investors, fee \in Amounts \cup {0} :
                   \E amounts \in [S -> Amounts] :
                       CalculateAndDistribute(sender, d, amounts, fee)
      PROVE  IInv'
  BY <1>7, PaymentKeeps
<1>. QED BY <1>1, <1>2, <1>3, <1>4, <1>5, <1>6, <1>7 DEF Next

\* IInv is an invariant, whoever holds which roles.
THEOREM Invariant == Spec => []IInv
  BY InitKeeps, NextKeeps, PTL DEF Spec

\* Every variable keeps its type; no balance or total goes below zero.
THEOREM TypeCorrect == Spec => []TypeOK
  BY Invariant, PTL DEF IInv

\* What a deal counts as invested is in the Escrow, less what was paid out of
\* it for other ends, and no more units are sold than there are.
THEOREM RefundsAlwaysCovered == Spec => []RefundsCovered
  BY Invariant, PTL DEF IInv

----------------------------------------------------------------------------
(***************************************************************************)
(* The refinement.                                                         *)
(***************************************************************************)
LEMMA InitMaps == Init => Money!Init
  BY DEF Init, Money!Init

LEMMA UntouchedMaps ==
    UNCHANGED <<ledger, balance, spent>> => UNCHANGED Money!moneyVars
  BY DEF Money!moneyVars

LEMMA PaymentMaps ==
    ASSUME TypeOK, UNCHANGED ledger, NEW d \in Deals, NEW amount \in Nat,
           \/ Fund(d, amount) /\ UNCHANGED spent
           \/ /\ \E sender : Pay(sender, d, amount)
              /\ spent' = [spent EXCEPT ![d] = @ + amount]
    PROVE  Money!Next
<1>1. CASE Fund(d, amount) /\ UNCHANGED spent
  <2>1. /\ amount > 0
        /\ balance' = [balance EXCEPT ![d] = @ + amount]
        /\ amount = balance'[d] - balance[d]
    BY <1>1 DEF Fund, TypeOK
  <2>2. Money!Give(d, amount)
    BY <1>1, <2>1 DEF Money!Give, Money!Added
  <2>. QED BY <2>1, <2>2 DEF Money!Next
<1>2. CASE /\ \E sender : Pay(sender, d, amount)
           /\ spent' = [spent EXCEPT ![d] = @ + amount]
  <2>1. /\ amount > 0
        /\ amount <= balance[d]
        /\ balance' = [balance EXCEPT ![d] = @ - amount]
    <3>1. PICK sender : Pay(sender, d, amount)
      BY <1>2
    <3>. QED BY <3>1, PayFacts
  <2>2. amount = balance[d] - balance'[d]
    BY <2>1 DEF TypeOK
  <2>3. Money!Spend(d, amount)
    BY <1>2, <2>1, <2>2 DEF Money!Spend, Money!Added, Money!Taken
  <2>. QED BY <2>1, <2>2, <2>3 DEF Money!Next
<1>. QED BY <1>1, <1>2

LEMMA InvestMaps ==
    ASSUME TypeOK, DealAssumption, NEW i \in Investors, NEW d \in Deals,
           NEW units \in 1 .. UnitsOf[d], Invest(i, d, units)
    PROVE  Money!Next
<1>. DEFINE amount == units * UnitPrice
<1>1. units \in Nat \ {0} /\ amount \in Nat
  BY DEF DealAssumption
<1>2. /\ ledger' = [ledger EXCEPT ![d] = [invested |-> @.invested + amount,
                          units |-> @.units + units, settled |-> @.settled]]
      /\ amount > 0
      /\ balance' = [balance EXCEPT ![d] = @ + amount]
      /\ UNCHANGED spent
  BY DEF Invest, Fund
<1>. HIDE DEF amount
<1>3. amount = balance'[d] - balance[d]
  BY <1>1, <1>2 DEF TypeOK
<1>4. [e \in Deals |-> ledger'[e].invested]
          = [[e \in Deals |-> ledger[e].invested] EXCEPT ![d] = @ + amount]
  BY <1>1, <1>2 DEF TypeOK
<1>5. Money!Invest(d, amount)
  BY <1>2, <1>4 DEF Money!Invest, Money!Added
<1>. QED BY <1>2, <1>3, <1>5 DEF Money!Next

LEMMA ClaimTakenMaps ==
    ASSUME TypeOK, NEW d \in Deals, NEW amount \in Nat, NEW units,
           ledger' = Unclaimed(d, amount, units),
           amount <= ledger[d].invested,
           Pay(d, d, amount), UNCHANGED spent
    PROVE  Money!Next
<1>1. /\ amount > 0 /\ amount <= balance[d]
      /\ balance' = [balance EXCEPT ![d] = @ - amount]
  BY PayFacts
<1>2. amount = balance[d] - balance'[d]
  BY <1>1 DEF TypeOK
<1>3. [e \in Deals |-> ledger'[e].invested]
          = [[e \in Deals |-> ledger[e].invested] EXCEPT ![d] = @ - amount]
  BY <1>1 DEF TypeOK, Unclaimed
<1>4. Money!Refund(d, amount)
  BY <1>1, <1>3 DEF Money!Refund, Money!Taken
<1>. QED BY <1>1, <1>2, <1>4 DEF Money!Next

LEMMA RefundMaps ==
    ASSUME TypeOK, NEW sender \in Accounts, NEW id \in Ids, RefundInvestment(sender, id)
    PROVE  Money!Next
<1>1. id[1] \in Deals
  BY DEF Ids
<1>2. /\ investment[id].amount <= ledger[id[1]].invested
      /\ ledger' = Unclaimed(id[1], investment[id].amount, investment[id].units)
      /\ Pay(id[1], id[1], investment[id].amount)
      /\ UNCHANGED spent
  BY DEF RefundInvestment
<1>3. investment[id].amount \in Nat
  BY <1>2 DEF Pay
<1>. QED BY <1>1, <1>2, <1>3, ClaimTakenMaps

LEMMA NextMaps == TypeOK /\ [Next]_vars => [Money!Next]_(Money!moneyVars)
<1>. SUFFICES ASSUME TypeOK, [Next]_vars
              PROVE  Money!Next \/ UNCHANGED Money!moneyVars
  OBVIOUS
<1>. USE DealAssumption
<1>1. CASE UNCHANGED <<ledger, balance, spent>>
  BY <1>1, UntouchedMaps
<1>2. CASE \/ UNCHANGED vars
           \/ RoleStep /\ UNCHANGED <<project, listing, dealVars, escrowVars, paid, block, moves>>
           \/ RegisterProject
           \/ NextBlock
           \/ \E sender \in Accounts :
                 \/ \E verified \in BOOLEAN : VerifyProject(sender, verified)
                 \/ \E id \in Ids : ConfirmInvestment(sender, id)
                 \/ \E d \in Deals :
                       \/ CreateDeal(sender, d)
                       \/ ActivateDeal(sender, d)
                       \/ \E status \in Statuses : UpdateDealStatus(sender, d, status)
                       \/ \E a \in Amounts : UpdateTotalInvested(sender, d, a)
  BY <1>1, <1>2 DEF vars, dealVars, escrowVars, RegisterProject, NextBlock, VerifyProject,
     ConfirmInvestment, CreateDeal, ActivateDeal, UpdateDealStatus, UpdateTotalInvested
<1>3. ASSUME NEW sender \in Accounts, NEW d \in Deals, Settle(sender, d)
      PROVE  UNCHANGED Money!moneyVars
  BY <1>3 DEF Settle, TypeOK, escrowVars, Money!moneyVars
<1>4. ASSUME NEW i \in Investors, NEW d \in Deals, NEW units \in 1 .. UnitsOf[d],
             Invest(i, d, units)
      PROVE  Money!Next
  BY <1>4, InvestMaps
<1>5. ASSUME NEW sender \in Accounts, NEW id \in Ids, RefundInvestment(sender, id)
      PROVE  Money!Next
  BY <1>5, RefundMaps
<1>6. ASSUME NEW d \in Deals, NEW a \in Amounts, Donate(d, a)
      PROVE  Money!Next
  BY <1>6, PaymentMaps DEF Donate, dealVars, DealAssumption
<1>7. ASSUME NEW sender \in Accounts, NEW d \in Deals, NEW a \in Amounts,
             PayDirectly(sender, d, a) \/ \E i \in Investors : DistributeProfit(sender, d, i, a)
      PROVE  Money!Next
  BY <1>7, PaymentMaps DEF PayDirectly, DistributeProfit, dealVars, DealAssumption
<1>8. ASSUME NEW sender \in Accounts, NEW d \in Deals, NEW amounts, NEW fee,
             CalculateAndDistribute(sender, d, amounts, fee)
      PROVE  Money!Next
  BY <1>8, PaymentMaps DEF CalculateAndDistribute, Pay, dealVars
<1>. QED BY <1>2, <1>3, <1>4, <1>5, <1>6, <1>7, <1>8 DEF Next

\* The contracts implement DealMoney: they keep the money of the deals apart,
\* and nobody gets back more than the deal counts as invested.
THEOREM MoneyRefinement == Spec => MoneyKeptApart
<1>1. Init => Money!Init
  BY InitMaps
<1>2. TypeOK /\ [Next]_vars => [Money!Next]_(Money!moneyVars)
  BY NextMaps
<1>. QED BY <1>1, <1>2, TypeCorrect, PTL DEF Spec, MoneyKeptApart, Money!Spec

----------------------------------------------------------------------------
(***************************************************************************)
(* The sums.  A deal the factory does not list has taken no money yet, and *)
(* the investments that stand are finitely many, since each was made.      *)
(***************************************************************************)
Unlisted == \A d \in Deals : listing[d].status = "none" => ledger[d].invested = 0

StandingFinite == \A d \in Deals : IsFiniteSet(Standing(d))

\* TotalsAgree and InvestmentsAddUp, deal by deal.
PaidFor(d) == [i \in Investors |-> paid[<<d, i>>]]

DealTotals(d) ==
    /\ ledger[d].invested <= listing[d].total
    /\ SumFunction(PaidFor(d)) <= spent[d]

AddsUp(d) ==
    /\ SumFunction(StandingAmounts(d)) <= ledger[d].invested
    /\ SumFunction(StandingUnits(d)) <= ledger[d].units
    /\ d \notin collided => /\ SumFunction(StandingAmounts(d)) = ledger[d].invested
                            /\ SumFunction(StandingUnits(d)) = ledger[d].units

SInv ==
    /\ TypeOK
    /\ Unlisted
    /\ StandingFinite
    /\ total = SumFunction(balance)
    /\ \A d \in Deals : DealTotals(d) /\ AddsUp(d)

LEMMA SInvTells == SInv => TotalsAgree /\ InvestmentsAddUp
  BY DEF SInv, DealTotals, AddsUp, TotalsAgree, InvestmentsAddUp, PaidFor

\* What is standing is typed.
LEMMA StandingTypes ==
    ASSUME TypeOK, NEW d \in Deals
    PROVE  /\ StandingAmounts(d) \in [Standing(d) -> Nat]
           /\ StandingUnits(d) \in [Standing(d) -> Nat]
           /\ Standing(d) \subseteq Ids
  BY DEF TypeOK, Investment, Standing, StandingAmounts, StandingUnits, Refundable

LEMMA StandingTypesNext ==
    ASSUME TypeOK', NEW d \in Deals
    PROVE  /\ StandingAmounts(d)' \in [Standing(d)' -> Nat]
           /\ StandingUnits(d)' \in [Standing(d)' -> Nat]
  BY DEF TypeOK, Investment, Standing, StandingAmounts, StandingUnits, Refundable

LEMMA StandingSums ==
    ASSUME TypeOK, StandingFinite, NEW d \in Deals
    PROVE  /\ SumFunction(StandingAmounts(d)) \in Nat
           /\ SumFunction(StandingUnits(d)) \in Nat
<1>1. IsFiniteSet(Standing(d))
  BY DEF StandingFinite
<1>2. ASSUME NEW f \in [Standing(d) -> Nat]
      PROVE  SumFunction(f) \in Nat
  BY <1>1, SumOfNaturals DEF SumFunction
<1>. QED BY <1>2, StandingTypes

\* A deal none of whose investments changes counts as before.
LEMMA StandingSame ==
    ASSUME TypeOK, NEW d \in Deals, 
           \A id \in Ids : id[1] = d => 
               /\ Refundable(id)' = Refundable(id)
               /\ Refundable(id) => /\ investment'[id].amount = investment[id].amount
                                    /\ investment'[id].units = investment[id].units
    PROVE  /\ Standing(d)' = Standing(d)
           /\ StandingAmounts(d)' = StandingAmounts(d)
           /\ StandingUnits(d)' = StandingUnits(d)
<1>1. Standing(d)' = Standing(d)
  BY DEF Standing
<1>2. \A id \in Standing(d) : /\ investment'[id].amount = investment[id].amount
                              /\ investment'[id].units = investment[id].units
  BY DEF Standing
<1>. QED BY <1>1, <1>2 DEF StandingAmounts, StandingUnits

\* The balances of the deals and the Escrow's total move together.
LEMMA TotalMoves ==
    ASSUME TypeOK, DealAssumption, total = SumFunction(balance),
           NEW d \in Deals, NEW v \in Int,
           balance' \in [Deals -> Int], balance'[d] = balance[d] + v,
           \A e \in Deals \ {d} : balance'[e] = balance[e],
           total' = total + v
    PROVE  total' = SumFunction(balance')
<1>1. balance \in [Deals -> Int] /\ IsFiniteSet(Deals)
  BY DEF TypeOK, DealAssumption
<1>2. SumFunction(balance') = SumFunction(balance) + v
  BY <1>1, SumExcept
<1>. QED BY <1>2

LEMMA TotalPays ==
    ASSUME TypeOK, DealAssumption, total = SumFunction(balance),
           NEW sender, NEW d \in Deals, NEW amount, Pay(sender, d, amount)
    PROVE  total' = SumFunction(balance')
<1>1. /\ amount \in Nat
      /\ balance' = [balance EXCEPT ![d] = @ - amount]
      /\ total' = total - amount
  BY PayFacts
<1>. DEFINE v == 0 - amount
<1>2. /\ balance' \in [Deals -> Int] /\ balance'[d] = balance[d] + v
      /\ \A e \in Deals \ {d} : balance'[e] = balance[e]
      /\ total' = total + v /\ v \in Int
  BY <1>1 DEF TypeOK
<1>. HIDE DEF v
<1>. QED BY <1>2, TotalMoves

LEMMA TotalFunds ==
    ASSUME TypeOK, DealAssumption, total = SumFunction(balance),
           NEW d \in Deals, NEW amount \in Nat, Fund(d, amount)
    PROVE  total' = SumFunction(balance')
<1>1. /\ balance' \in [Deals -> Int] /\ balance'[d] = balance[d] + amount
      /\ \A e \in Deals \ {d} : balance'[e] = balance[e]
      /\ total' = total + amount
  BY DEF Fund, TypeOK
<1>. QED BY <1>1, TotalMoves

\* What the investors were paid for a deal grows by what they are paid now.
LEMMA PaidGrows ==
    ASSUME TypeOK, DealAssumption, NEW d \in Deals, NEW g \in [Investors -> Nat],
           \A e \in Deals, i \in Investors :
               paid'[<<e, i>>] = IF e = d THEN paid[<<e, i>>] + g[i] ELSE paid[<<e, i>>]
    PROVE  \A e \in Deals : SumFunction(PaidFor(e)') =
               IF e = d THEN SumFunction(PaidFor(e)) + SumFunction(g)
               ELSE SumFunction(PaidFor(e))
<1>1. IsFiniteSet(Investors)
  BY DEF DealAssumption
<1>2. ASSUME NEW e \in Deals, e # d
      PROVE  PaidFor(e)' = PaidFor(e)
  BY <1>2 DEF PaidFor
<1>3. SumFunction(PaidFor(d)') = SumFunction(PaidFor(d)) + SumFunction(g)
  <2>. DEFINE f == PaidFor(d)
              h == PaidFor(d)'
  <2>1. f \in [Investors -> Int] /\ h \in [Investors -> Int] /\ g \in [Investors -> Int]
        /\ \A i \in Investors : h[i] = f[i] + g[i]
    BY DEF PaidFor, TypeOK
  <2>. HIDE DEF f, h
  <2>2. SumFunctionOnSet(h, Investors)
            = SumFunctionOnSet(f, Investors) + SumFunctionOnSet(g, Investors)
    BY <1>1, <2>1, SumPlus
  <2>3. SumFunction(h) = SumFunction(f) + SumFunction(g)
    BY <1>1, <2>1, <2>2, SumOfFunction
  <2>. QED BY <2>3 DEF f, h
<1>. QED BY <1>2, <1>3

\* Profit paid to some investors of the deal.
LEMMA PaidSum ==
    ASSUME TypeOK, DealAssumption, NEW S \in SUBSET Investors,
           NEW amounts \in [S -> Nat]
    PROVE  LET g == [i \in Investors |-> IF i \in S THEN amounts[i] ELSE 0]
           IN  /\ g \in [Investors -> Nat]
               /\ SumFunction(g) = SumFunction(amounts)
<1>. DEFINE g == [i \in Investors |-> IF i \in S THEN amounts[i] ELSE 0]
<1>0. IsFiniteSet(Investors) /\ IsFiniteSet(S)
  BY FS_Subset DEF DealAssumption
<1>1. /\ g \in [Investors -> Nat]
      /\ \A i \in S : g[i] = amounts[i]
      /\ \A i \in Investors \ S : g[i] = 0
  OBVIOUS
<1>2. DOMAIN amounts = S /\ DOMAIN g = Investors
  OBVIOUS
<1>. HIDE DEF g
<1>3. SumFunctionOnSet(g, Investors) = SumFunctionOnSet(g, S)
  BY <1>0, <1>1, SumOfSubset
<1>4. SumFunctionOnSet(g, S) = SumFunctionOnSet(amounts, S)
  BY <1>0, <1>1, SumAgree
<1>5. SumFunction(g) = SumFunction(amounts)
  BY <1>2, <1>3, <1>4 DEF SumFunction
<1>. QED BY <1>1, <1>5 DEF g

\* A step that moves no money and leaves what the investors may claim.
LEMMA SumsUntouched ==
    ASSUME SInv, TypeOK', UNCHANGED <<collided, escrowVars, paid>>,
           \A d \in Deals : /\ ledger'[d].invested = ledger[d].invested
                            /\ ledger'[d].units = ledger[d].units
                            /\ listing'[d].status = "none" => listing[d].status = "none"
                            /\ \/ listing[d].total <= listing'[d].total
                               \/ listing[d].status = "none",
           \A id \in Ids : /\ Refundable(id)' = Refundable(id)
                           /\ Refundable(id) => /\ investment'[id].amount = investment[id].amount
                                                /\ investment'[id].units = investment[id].units
    PROVE  SInv'
<1>1. ASSUME NEW d \in Deals
      PROVE  /\ Standing(d)' = Standing(d)
             /\ StandingAmounts(d)' = StandingAmounts(d)
             /\ StandingUnits(d)' = StandingUnits(d)
  BY StandingSame DEF SInv
<1>2. StandingFinite'
  BY <1>1 DEF SInv, StandingFinite
<1>3. Unlisted'
  BY DEF SInv, Unlisted
<1>4. total' = SumFunction(balance')
  BY DEF SInv, escrowVars
<1>5. ASSUME NEW d \in Deals
      PROVE  DealTotals(d)' /\ AddsUp(d)'
  <2>1. PaidFor(d)' = PaidFor(d)
    BY DEF PaidFor
  <2>2. ledger'[d].invested <= listing'[d].total
    <3>1. /\ ledger[d].invested \in Nat /\ listing[d].total \in Nat
          /\ listing'[d].total \in Nat
      BY DEF SInv, TypeOK
    <3>2. listing[d].status = "none" => ledger[d].invested = 0
      BY DEF SInv, Unlisted
    <3>3. ledger[d].invested <= listing[d].total
      BY DEF SInv, DealTotals
    <3>. QED BY <3>1, <3>2, <3>3
  <2>3. DealTotals(d)'
    BY <2>1, <2>2 DEF SInv, DealTotals, escrowVars
  <2>4. AddsUp(d)'
    BY <1>1 DEF SInv, AddsUp
  <2>. QED BY <2>3, <2>4
<1>. QED BY <1>2, <1>3, <1>4, <1>5 DEF SInv

\* Roles, the registry, the clock and the factory's listing.
LEMMA ListingSums ==
    ASSUME SInv, TypeOK', DealAssumption,
           \/ UNCHANGED vars
           \/ RoleStep /\ UNCHANGED <<project, listing, dealVars, escrowVars, paid, block, moves>>
           \/ RegisterProject
           \/ NextBlock
           \/ \E sender \in Accounts :
                 \/ \E verified \in BOOLEAN : VerifyProject(sender, verified)
                 \/ \E d \in Deals :
                       \/ CreateDeal(sender, d)
                       \/ ActivateDeal(sender, d)
                       \/ \E status \in Statuses : UpdateDealStatus(sender, d, status)
                       \/ \E a \in Amounts : UpdateTotalInvested(sender, d, a)
    PROVE  SInv'
<1>1. UNCHANGED <<dealVars, escrowVars, paid>>
  BY DEF vars, RegisterProject, NextBlock, VerifyProject, CreateDeal, ActivateDeal,
     UpdateDealStatus, UpdateTotalInvested
<1>2. ASSUME NEW e \in Deals
      PROVE  /\ listing'[e].status = "none" => listing[e].status = "none"
             /\ \/ listing[e].total <= listing'[e].total
                \/ listing[e].status = "none"
  <2>0. listing \in [Deals -> [status : {"none", "Draft", "Funding", "Settled"} \cup Statuses,
                               total : Nat]]
    BY DEF SInv, TypeOK
  <2>1. CASE UNCHANGED listing
    BY <2>0, <2>1
  <2>2. ASSUME NEW sender \in Accounts, NEW d \in Deals,
               CreateDeal(sender, d) \/ ActivateDeal(sender, d)
        PROVE  /\ listing'[e].status = "none" => listing[e].status = "none"
               /\ \/ listing[e].total <= listing'[e].total
                  \/ listing[e].status = "none"
    BY <2>0, <2>2 DEF CreateDeal, ActivateDeal
  <2>3. ASSUME NEW sender \in Accounts, NEW d \in Deals, NEW status \in Statuses,
               UpdateDealStatus(sender, d, status)
        PROVE  /\ listing'[e].status = "none" => listing[e].status = "none"
               /\ \/ listing[e].total <= listing'[e].total
                  \/ listing[e].status = "none"
    BY <2>0, <2>3 DEF UpdateDealStatus, DealAssumption
  <2>4. ASSUME NEW sender \in Accounts, NEW d \in Deals, NEW a \in Amounts,
               UpdateTotalInvested(sender, d, a)
        PROVE  /\ listing'[e].status = "none" => listing[e].status = "none"
               /\ \/ listing[e].total <= listing'[e].total
                  \/ listing[e].status = "none"
    <3>1. a \in Nat
      BY DEF DealAssumption
    <3>2. listing' = [listing EXCEPT ![d].total = @ + a]
      BY <2>4 DEF UpdateTotalInvested, TotalInvested
    <3>3. listing[e].total \in Nat
      BY <2>0
    <3>. QED BY <2>0, <3>1, <3>2, <3>3
  <2>. QED BY <2>1, <2>2, <2>3, <2>4 DEF vars, RegisterProject, NextBlock, VerifyProject
<1>3. ASSUME NEW e \in Deals
      PROVE  /\ ledger'[e].invested = ledger[e].invested
             /\ ledger'[e].units = ledger[e].units
  BY <1>1 DEF dealVars
<1>4. ASSUME NEW id \in Ids
      PROVE  /\ Refundable(id)' = Refundable(id)
             /\ investment'[id] = investment[id]
  BY <1>1 DEF dealVars, Refundable
<1>5. UNCHANGED <<collided, escrowVars, paid>>
  BY <1>1 DEF dealVars
<1>. QED BY <1>2, <1>3, <1>4, <1>5, SumsUntouched

\* What changes a DealContract but no money.
LEMMA StatusSums ==
    ASSUME SInv, TypeOK', DealAssumption, NEW sender \in Accounts,
           \/ \E id \in Ids : ConfirmInvestment(sender, id)
           \/ \E d \in Deals : Settle(sender, d)
    PROVE  SInv'
<1>1. /\ UNCHANGED <<collided, escrowVars, paid>>
      /\ \A d \in Deals : /\ ledger'[d].invested = ledger[d].invested
                          /\ ledger'[d].units = ledger[d].units
                          /\ listing'[d].total = listing[d].total
                          /\ listing'[d].status = "none" => listing[d].status = "none"
  <2>0. /\ listing \in [Deals -> [status : {"none", "Draft", "Funding", "Settled"} \cup Statuses,
                                  total : Nat]]
        /\ ledger \in [Deals -> [invested : Nat, units : Nat, settled : BOOLEAN]]
    BY DEF SInv, TypeOK
  <2>1. ASSUME NEW id \in Ids, ConfirmInvestment(sender, id)
        PROVE  UNCHANGED <<collided, escrowVars, paid, ledger, listing>>
    BY <2>1 DEF ConfirmInvestment
  <2>2. ASSUME NEW d \in Deals, Settle(sender, d)
        PROVE  /\ UNCHANGED <<collided, escrowVars, paid>>
               /\ ledger' = [ledger EXCEPT ![d].settled = TRUE]
               /\ listing' = [listing EXCEPT ![d].status = "Settled"]
    BY <2>2 DEF Settle
  <2>3. ASSUME NEW d \in Deals, Settle(sender, d), NEW e \in Deals
        PROVE  /\ ledger'[e].invested = ledger[e].invested
               /\ ledger'[e].units = ledger[e].units
               /\ listing'[e].total = listing[e].total
               /\ listing'[e].status = "none" => listing[e].status = "none"
    <3>1. CASE e = d
      BY <2>0, <2>2, <2>3, <3>1
    <3>2. CASE e # d
      BY <2>0, <2>2, <2>3, <3>2
    <3>. QED BY <3>1, <3>2
  <2>. QED BY <2>1, <2>2, <2>3
<1>2. ASSUME NEW id \in Ids
      PROVE  /\ Refundable(id)' = Refundable(id)
             /\ Refundable(id) => /\ investment'[id].amount = investment[id].amount
                                  /\ investment'[id].units = investment[id].units
  <2>1. CASE UNCHANGED investment
    BY <2>1 DEF Refundable
  <2>2. ASSUME NEW x \in Ids, ConfirmInvestment(sender, x)
        PROVE  /\ Refundable(id)' = Refundable(id)
               /\ Refundable(id) => /\ investment'[id].amount = investment[id].amount
                                    /\ investment'[id].units = investment[id].units
    <3>1. /\ investment[x] # NoInvestment /\ investment[x].status = "Pending"
          /\ investment' = [investment EXCEPT ![x].status = "Confirmed"]
          /\ investment[x] \in Investment
      BY <2>2 DEF ConfirmInvestment, SInv, TypeOK
    <3>2. CASE id # x
      BY <3>1, <3>2 DEF Refundable, SInv, TypeOK
    <3>3. CASE id = x
      <4>1. /\ investment'[x].status = "Confirmed"
            /\ investment'[x].amount = investment[x].amount
            /\ investment'[x].units = investment[x].units
        BY <3>1 DEF SInv, TypeOK, Investment
      <4>2. investment'[x] # NoInvestment
        <5>1. investment'[x] = [investment[x] EXCEPT !.status = "Confirmed"]
          BY <3>1 DEF SInv, TypeOK
        <5>2. investment'[x] \in Investment
          BY <3>1, <5>1 DEF Investment
        <5>. QED BY <5>2 DEF DealAssumption
      <4>. QED BY <3>1, <3>3, <4>1, <4>2 DEF Refundable
    <3>. QED BY <3>2, <3>3
  <2>. QED BY <2>1, <2>2 DEF Settle
<1>3. ASSUME NEW d \in Deals
      PROVE  listing[d].total <= listing'[d].total
  BY <1>1 DEF SInv, TypeOK
<1>. QED BY <1>1, <1>2, <1>3, SumsUntouched

\* What brings money to a deal or pays it out, but is no refund: the payments
\* to the investors are no more than what leaves the deal.
LEMMA PaymentTotals ==
    ASSUME SInv, TypeOK', DealAssumption, NEW d \in Deals, UNCHANGED <<listing, dealVars>>,
           total' = SumFunction(balance'),
           NEW amount \in Nat, NEW g \in [Investors -> Nat], SumFunction(g) <= amount,
           \/ UNCHANGED <<paid, spent>>
           \/ /\ spent' = [spent EXCEPT ![d] = @ + amount]
              /\ \A e \in Deals, i \in Investors :
                    paid'[<<e, i>>] = IF e = d THEN paid[<<e, i>>] + g[i] ELSE paid[<<e, i>>]
    PROVE  SInv'
<1>1. ASSUME NEW e \in Deals
      PROVE  /\ Standing(e)' = Standing(e)
             /\ StandingAmounts(e)' = StandingAmounts(e)
             /\ StandingUnits(e)' = StandingUnits(e)
  <2>1. \A id \in Ids : Refundable(id)' = Refundable(id) /\ investment'[id] = investment[id]
    BY DEF dealVars, Refundable
  <2>. QED BY <2>1, StandingSame DEF SInv
<1>2. StandingFinite'
  BY <1>1 DEF SInv, StandingFinite
<1>3. Unlisted'
  BY DEF SInv, Unlisted, dealVars
<1>4. ASSUME NEW e \in Deals
      PROVE  SumFunction(PaidFor(e)') <= spent'[e]
  <2>0. SumFunction(PaidFor(e)) <= spent[e]
    BY DEF SInv, DealTotals
  <2>1. CASE UNCHANGED <<paid, spent>>
    <3>1. PaidFor(e)' = PaidFor(e)
      BY <2>1 DEF PaidFor
    <3>. QED BY <2>0, <2>1, <3>1
  <2>2. CASE /\ spent' = [spent EXCEPT ![d] = @ + amount]
             /\ \A x \in Deals, i \in Investors :
                   paid'[<<x, i>>] = IF x = d THEN paid[<<x, i>>] + g[i] ELSE paid[<<x, i>>]
    <3>1. SumFunction(PaidFor(e)') =
              IF e = d THEN SumFunction(PaidFor(e)) + SumFunction(g)
              ELSE SumFunction(PaidFor(e))
      BY <2>2, PaidGrows DEF SInv
    <3>2. /\ SumFunction(PaidFor(e)) \in Int /\ SumFunction(g) \in Int
          /\ spent[e] \in Nat
      <4>1. IsFiniteSet(Investors) /\ PaidFor(e) \in [Investors -> Int] /\ g \in [Investors -> Int]
        BY DEF PaidFor, SInv, TypeOK, DealAssumption
      <4>. QED BY <4>1, SumOfFunction DEF SInv, TypeOK
    <3>3. spent'[e] = IF e = d THEN spent[e] + amount ELSE spent[e]
      BY <2>2 DEF SInv, TypeOK
    <3>. QED BY <2>0, <3>1, <3>2, <3>3
  <2>. QED BY <2>1, <2>2
<1>5. ASSUME NEW e \in Deals
      PROVE  DealTotals(e)' /\ AddsUp(e)'
  BY <1>1, <1>4 DEF SInv, DealTotals, AddsUp, dealVars
<1>. QED BY <1>2, <1>3, <1>5 DEF SInv

LEMMA PaymentSums ==
    ASSUME SInv, TypeOK', DealAssumption, NEW d \in Deals,
           \/ \E a \in Amounts : Donate(d, a)
           \/ \E sender \in Accounts, a \in Amounts :
                 \/ PayDirectly(sender, d, a)
                 \/ \E i \in Investors : DistributeProfit(sender, d, i, a)
           \/ \E sender \in Accounts, S \in SUBSET Investors, fee \in Amounts \cup {0} :
                 \E amounts \in [S -> Amounts] :
                     CalculateAndDistribute(sender, d, amounts, fee)
    PROVE  SInv'
<1>. DEFINE none == [i \in Investors |-> 0]
<1>0. /\ TypeOK /\ total = SumFunction(balance) /\ IsFiniteSet(Investors)
      /\ paid \in [Deals \X Investors -> Nat]
  BY DEF SInv, TypeOK, DealAssumption
<1>1. none \in [Investors -> Nat] /\ SumFunction(none) = 0
  <2>1. none \in [Investors -> Int] /\ \A i \in Investors : none[i] = 0
    OBVIOUS
  <2>. HIDE DEF none
  <2>2. SumFunctionOnSet(none, Investors) = 0
    BY <1>0, <2>1, SumOfZeros
  <2>. QED BY <1>0, <2>1, <2>2, SumOfFunction
<1>. HIDE DEF none
<1>2. ASSUME NEW a \in Amounts, Donate(d, a)
      PROVE  SInv'
  <2>1. /\ Fund(d, a) /\ a \in Nat
        /\ UNCHANGED <<listing, dealVars, spent, paid>>
    BY <1>2 DEF Donate, DealAssumption
  <2>2. total' = SumFunction(balance')
    BY <1>0, <2>1, TotalFunds
  <2>3. SumFunction(none) <= a
    BY <1>1, <2>1
  <2>. QED BY <1>1, <2>1, <2>2, <2>3, PaymentTotals
<1>3. ASSUME NEW sender \in Accounts, NEW a \in Amounts, PayDirectly(sender, d, a)
      PROVE  SInv'
  <2>1. /\ Pay(sender, d, a) /\ a \in Nat
        /\ UNCHANGED <<listing, dealVars, paid>>
        /\ spent' = [spent EXCEPT ![d] = @ + a]
    BY <1>3 DEF PayDirectly, DealAssumption
  <2>2. total' = SumFunction(balance')
    BY <1>0, <2>1, TotalPays
  <2>3. SumFunction(none) <= a
    BY <1>1, <2>1
  <2>4. \A e \in Deals, i \in Investors :
            paid'[<<e, i>>] = IF e = d THEN paid[<<e, i>>] + none[i] ELSE paid[<<e, i>>]
    BY <1>0, <2>1 DEF none
  <2>. QED BY <1>1, <2>1, <2>2, <2>3, <2>4, PaymentTotals
<1>4. ASSUME NEW sender \in Accounts, NEW a \in Amounts, NEW i \in Investors,
             DistributeProfit(sender, d, i, a)
      PROVE  SInv'
  <2>. DEFINE g == [j \in Investors |-> IF j = i THEN a ELSE 0]
  <2>1. /\ Pay("profits", d, a) /\ a \in Nat
        /\ UNCHANGED <<listing, dealVars>>
        /\ spent' = [spent EXCEPT ![d] = @ + a]
        /\ paid' = [paid EXCEPT ![<<d, i>>] = @ + a]
    BY <1>4 DEF DistributeProfit, DealAssumption
  <2>2. total' = SumFunction(balance')
    BY <1>0, <2>1, TotalPays
  <2>3. g \in [Investors -> Nat] /\ SumFunction(g) = a
    BY <1>0, <2>1, SumOfOne
  <2>4. \A e \in Deals, j \in Investors :
            paid'[<<e, j>>] = IF e = d THEN paid[<<e, j>>] + g[j] ELSE paid[<<e, j>>]
    BY <1>0, <2>1
  <2>. HIDE DEF g
  <2>5. SumFunction(g) <= a
    BY <2>1, <2>3
  <2>. QED BY <2>1, <2>2, <2>3, <2>4, <2>5, PaymentTotals
<1>5. ASSUME NEW sender \in Accounts, NEW S \in SUBSET Investors,
             NEW fee \in Amounts \cup {0}, NEW amounts \in [S -> Amounts],
             CalculateAndDistribute(sender, d, amounts, fee)
      PROVE  SInv'
  <2>. DEFINE g == [i \in Investors |-> IF i \in S THEN amounts[i] ELSE 0]
              all == Payments(amounts, fee)
  <2>0. amounts \in [S -> Nat] /\ fee \in Nat
    <3>1. Amounts \subseteq Nat
      BY DEF DealAssumption
    <3>2. fee \in Nat
      BY <3>1
    <3>3. amounts \in [S -> Nat]
      BY <3>1
    <3>. QED BY <3>2, <3>3
  <2>1. /\ Pay("profits", d, all) /\ all \in Nat
        /\ UNCHANGED <<listing, dealVars>>
        /\ spent' = [spent EXCEPT ![d] = @ + all]
    BY <1>5 DEF CalculateAndDistribute, Pay
  <2>2. paid' = [p \in Deals \X Investors |->
             IF p[1] = d /\ p[2] \in S THEN paid[p] + amounts[p[2]] ELSE paid[p]]
    BY <1>0, <1>5 DEF CalculateAndDistribute
  <2>3. total' = SumFunction(balance')
    BY <1>0, <2>1, TotalPays
  <2>4. g \in [Investors -> Nat] /\ SumFunction(g) = SumFunction(amounts)
    BY <1>0, <2>0, PaidSum
  <2>5. SumFunction(g) <= all
    <3>1. SumFunction(amounts) \in Int
      BY <1>0, <2>4, SumOfFunction
    <3>. QED BY <2>0, <2>4, <3>1 DEF Payments
  <2>6. \A e \in Deals, j \in Investors :
            paid'[<<e, j>>] = IF e = d THEN paid[<<e, j>>] + g[j] ELSE paid[<<e, j>>]
    BY <1>0, <2>0, <2>2
  <2>. HIDE DEF g, all
  <2>. QED BY <2>1, <2>3, <2>4, <2>5, <2>6, PaymentTotals
<1>. QED BY <1>2, <1>3, <1>4, <1>5

\* An investor's claim at the id it gets: in place of an earlier one of the
\* same block, or beside what stands.
LEMMA ClaimAdded ==
    ASSUME TypeOK, TypeOK', StandingFinite, NEW d \in Deals, NEW id \in Ids, id[1] = d,
           NEW r \in Investment, r.status = "Pending", DealAssumption,
           investment' = [investment EXCEPT ![id] = r]
    PROVE  /\ IsFiniteSet(Standing(d)')
           /\ SumFunction(StandingAmounts(d)') <= SumFunction(StandingAmounts(d)) + r.amount
           /\ SumFunction(StandingUnits(d)') <= SumFunction(StandingUnits(d)) + r.units
           /\ ~ Refundable(id) =>
                  /\ SumFunction(StandingAmounts(d)') = SumFunction(StandingAmounts(d)) + r.amount
                  /\ SumFunction(StandingUnits(d)') = SumFunction(StandingUnits(d)) + r.units
           /\ \A e \in Deals \ {d} :
                  /\ Standing(e)' = Standing(e)
                  /\ StandingAmounts(e)' = StandingAmounts(e)
                  /\ StandingUnits(e)' = StandingUnits(e)
<1>. DEFINE s == Standing(d)
            z == Standing(d)'
<1>1. /\ investment'[id] = r
      /\ \A x \in Ids : x # id => investment'[x] = investment[x]
  BY DEF TypeOK
<1>2. Refundable(id)'
  BY <1>1 DEF Refundable, DealAssumption
<1>3. \A x \in Ids : x # id => Refundable(x)' = Refundable(x)
  BY <1>1 DEF Refundable
<1>4. z = s \cup {id} /\ (id \in s <=> Refundable(id))
  BY <1>2, <1>3 DEF Standing
<1>5. IsFiniteSet(s) /\ IsFiniteSet(z)
  <2>1. IsFiniteSet(s)
    BY DEF StandingFinite
  <2>2. IsFiniteSet(s \cup {id})
    BY <2>1, FS_AddElement
  <2>. QED BY <1>4, <2>1, <2>2
<1>6. \A x \in s : investment[x].amount \in Nat /\ investment[x].units \in Nat
  BY DEF TypeOK, Investment, Standing, Refundable
<1>7. r.amount \in Nat /\ r.units \in Nat
  BY DEF Investment
<1>8. ASSUME NEW f \in [s -> Nat], NEW h \in [z -> Nat], NEW v \in Nat,
             h[id] = v, \A x \in s \ {id} : h[x] = f[x]
      PROVE  /\ SumFunction(h) <= SumFunction(f) + v
             /\ ~ Refundable(id) => SumFunction(h) = SumFunction(f) + v
  <2>. HIDE DEF s, z
  <2>0. /\ SumFunction(h) = SumFunctionOnSet(h, z) /\ SumFunction(f) = SumFunctionOnSet(f, s)
        /\ SumFunctionOnSet(f, s) \in Nat
    BY <1>5, SumOfNaturals DEF SumFunction
  <2>1. CASE Refundable(id)
    <3>1. z = s /\ id \in s
      BY <1>4, <2>1
    <3>2. SumFunctionOnSet(h, s) = SumFunctionOnSet(f, s) + (h[id] - f[id])
      BY <1>5, <1>8, <3>1, SumChange
    <3>3. f[id] \in Nat
      BY <3>1
    <3>. QED BY <1>8, <2>0, <2>1, <3>1, <3>2, <3>3
  <2>2. CASE ~ Refundable(id)
    <3>1. id \notin s /\ z = s \cup {id}
      BY <1>4, <2>2
    <3>2. \A x \in s : h[x] = f[x]
      BY <1>8, <3>1
    <3>3. SumFunctionOnSet(h, s) = SumFunctionOnSet(f, s)
      BY <1>5, <3>2, SumAgree
    <3>4. \A x \in s \cup {id} : h[x] \in Int
      BY <3>1
    <3>5. SumFunctionOnSet(h, s \cup {id}) = h[id] + SumFunctionOnSet(h, s)
      BY <1>5, <3>1, <3>4, SumWith
    <3>. QED BY <1>8, <2>0, <3>1, <3>3, <3>5
  <2>. QED BY <2>1, <2>2
<1>9. /\ SumFunction(StandingAmounts(d)') <= SumFunction(StandingAmounts(d)) + r.amount
      /\ ~ Refundable(id) =>
             SumFunction(StandingAmounts(d)') = SumFunction(StandingAmounts(d)) + r.amount
  <2>. DEFINE f == StandingAmounts(d)
              h == StandingAmounts(d)'
  <2>1. /\ f \in [s -> Nat] /\ h \in [z -> Nat] /\ h[id] = r.amount
        /\ \A x \in s \ {id} : h[x] = f[x]
    <3>1. h = [x \in z |-> investment'[x].amount] /\ f = [x \in s |-> investment[x].amount]
      BY DEF StandingAmounts
    <3>. HIDE DEF f, h
    <3>2. \A x \in s : x \in Ids
      BY DEF Standing
    <3>. HIDE DEF s, z
    <3>. QED BY <1>1, <1>4, <1>6, <1>7, <3>1, <3>2
  <2>. HIDE DEF f, h, s, z
  <2>2. /\ SumFunction(h) <= SumFunction(f) + r.amount
        /\ ~ Refundable(id) => SumFunction(h) = SumFunction(f) + r.amount
    BY <1>7, <1>8, <2>1
  <2>. QED BY <2>2 DEF f, h
<1>10. /\ SumFunction(StandingUnits(d)') <= SumFunction(StandingUnits(d)) + r.units
       /\ ~ Refundable(id) =>
              SumFunction(StandingUnits(d)') = SumFunction(StandingUnits(d)) + r.units
  <2>. DEFINE f == StandingUnits(d)
              h == StandingUnits(d)'
  <2>1. /\ f \in [s -> Nat] /\ h \in [z -> Nat] /\ h[id] = r.units
        /\ \A x \in s \ {id} : h[x] = f[x]
    <3>1. h = [x \in z |-> investment'[x].units] /\ f = [x \in s |-> investment[x].units]
      BY DEF StandingUnits
    <3>. HIDE DEF f, h
    <3>2. \A x \in s : x \in Ids
      BY DEF Standing
    <3>. HIDE DEF s, z
    <3>. QED BY <1>1, <1>4, <1>6, <1>7, <3>1, <3>2
  <2>. HIDE DEF f, h, s, z
  <2>2. /\ SumFunction(h) <= SumFunction(f) + r.units
        /\ ~ Refundable(id) => SumFunction(h) = SumFunction(f) + r.units
    BY <1>7, <1>8, <2>1
  <2>. QED BY <2>2 DEF f, h
<1>11. ASSUME NEW e \in Deals \ {d}
       PROVE  /\ Standing(e)' = Standing(e)
              /\ StandingAmounts(e)' = StandingAmounts(e)
              /\ StandingUnits(e)' = StandingUnits(e)
  <2>1. \A x \in Ids : x[1] = e =>
            Refundable(x)' = Refundable(x) /\ investment'[x] = investment[x]
    BY <1>1, <1>3
  <2>. QED BY <2>1, StandingSame
<1>. QED BY <1>5, <1>9, <1>10, <1>11

\* An investment that is refunded no longer stands.
LEMMA ClaimRemoved ==
    ASSUME TypeOK, TypeOK', StandingFinite, NEW d \in Deals, NEW id \in Ids, id[1] = d,
           Refundable(id), investment' = [investment EXCEPT ![id].status = "Refunded"]
    PROVE  /\ IsFiniteSet(Standing(d)')
           /\ SumFunction(StandingAmounts(d))
                  = investment[id].amount + SumFunction(StandingAmounts(d)')
           /\ SumFunction(StandingUnits(d))
                  = investment[id].units + SumFunction(StandingUnits(d)')
           /\ \A e \in Deals \ {d} :
                  /\ Standing(e)' = Standing(e)
                  /\ StandingAmounts(e)' = StandingAmounts(e)
                  /\ StandingUnits(e)' = StandingUnits(e)
<1>. DEFINE s == Standing(d)
            z == Standing(d)'
<1>1. /\ investment[id] \in Investment
      /\ investment'[id].status = "Refunded"
      /\ \A x \in Ids : x # id => investment'[x] = investment[x]
  BY DEF TypeOK, Refundable, Investment
<1>2. ~ Refundable(id)'
  BY <1>1 DEF Refundable
<1>3. \A x \in Ids : x # id => Refundable(x)' = Refundable(x)
  BY <1>1 DEF Refundable
<1>4. z = s \ {id} /\ id \in s
  BY <1>2, <1>3 DEF Standing
<1>5. IsFiniteSet(s) /\ IsFiniteSet(z)
  <2>1. IsFiniteSet(s)
    BY DEF StandingFinite
  <2>2. IsFiniteSet(s \ {id})
    BY <2>1, FS_RemoveElement
  <2>. QED BY <1>4, <2>1, <2>2
<1>6. \A x \in s : investment[x].amount \in Nat /\ investment[x].units \in Nat
  BY DEF TypeOK, Investment, Standing, Refundable
<1>8. ASSUME NEW f \in [s -> Nat], NEW h, DOMAIN h = z, \A x \in z : h[x] = f[x]
      PROVE  SumFunction(f) = f[id] + SumFunction(h)
  <2>. HIDE DEF s, z
  <2>0. /\ SumFunction(h) = SumFunctionOnSet(h, z) /\ SumFunction(f) = SumFunctionOnSet(f, s)
    BY <1>8 DEF SumFunction
  <2>1. SumFunctionOnSet(h, z) = SumFunctionOnSet(f, z)
    BY <1>5, <1>8, SumAgree
  <2>2. SumFunctionOnSet(f, s) = f[id] + SumFunctionOnSet(f, s \ {id})
    BY <1>4, <1>5, SumWithout
  <2>. QED BY <1>4, <2>0, <2>1, <2>2
<1>9. SumFunction(StandingAmounts(d))
          = investment[id].amount + SumFunction(StandingAmounts(d)')
  <2>. DEFINE f == StandingAmounts(d)
              h == StandingAmounts(d)'
  <2>1. /\ f \in [s -> Nat] /\ DOMAIN h = z /\ f[id] = investment[id].amount
        /\ \A x \in z : h[x] = f[x]
    <3>1. h = [x \in z |-> investment'[x].amount] /\ f = [x \in s |-> investment[x].amount]
      BY DEF StandingAmounts
    <3>. HIDE DEF f, h
    <3>2. \A x \in s : x \in Ids
      BY DEF Standing
    <3>. HIDE DEF s, z
    <3>. QED BY <1>1, <1>4, <1>6, <3>1, <3>2
  <2>. HIDE DEF f, h, s, z
  <2>2. SumFunction(f) = f[id] + SumFunction(h)
    BY <1>8, <2>1
  <2>. QED BY <2>1, <2>2 DEF f, h
<1>10. SumFunction(StandingUnits(d))
          = investment[id].units + SumFunction(StandingUnits(d)')
  <2>. DEFINE f == StandingUnits(d)
              h == StandingUnits(d)'
  <2>1. /\ f \in [s -> Nat] /\ DOMAIN h = z /\ f[id] = investment[id].units
        /\ \A x \in z : h[x] = f[x]
    <3>1. h = [x \in z |-> investment'[x].units] /\ f = [x \in s |-> investment[x].units]
      BY DEF StandingUnits
    <3>. HIDE DEF f, h
    <3>2. \A x \in s : x \in Ids
      BY DEF Standing
    <3>. HIDE DEF s, z
    <3>. QED BY <1>1, <1>4, <1>6, <3>1, <3>2
  <2>. HIDE DEF f, h, s, z
  <2>2. SumFunction(f) = f[id] + SumFunction(h)
    BY <1>8, <2>1
  <2>. QED BY <2>1, <2>2 DEF f, h
<1>11. ASSUME NEW e \in Deals \ {d}
       PROVE  /\ Standing(e)' = Standing(e)
              /\ StandingAmounts(e)' = StandingAmounts(e)
              /\ StandingUnits(e)' = StandingUnits(e)
  <2>1. \A x \in Ids : x[1] = e =>
            Refundable(x)' = Refundable(x) /\ investment'[x] = investment[x]
    BY <1>1, <1>3
  <2>. QED BY <2>1, StandingSame
<1>. QED BY <1>5, <1>9, <1>10, <1>11

\* Investing: the deal and what stands grow by the same amount.
LEMMA InvestSums ==
    ASSUME SInv, TypeOK', DealAssumption, NEW i \in Investors, NEW d \in Deals,
           NEW units \in 1 .. UnitsOf[d], Invest(i, d, units)
    PROVE  SInv'
<1>. DEFINE amount == units * UnitPrice
            id == <<d, i, block>>
            r == [units |-> units, amount |-> amount, status |-> "Pending"]
<1>0. TypeOK /\ StandingFinite /\ Unlisted /\ total = SumFunction(balance)
  BY DEF SInv
<1>1. units \in Nat /\ amount \in Nat /\ id \in Ids /\ id[1] = d
  BY <1>0 DEF TypeOK, Ids, DealAssumption
<1>2. r \in Investment /\ r.status = "Pending" /\ r.amount = amount /\ r.units = units
  BY <1>1 DEF Investment
<1>3. /\ investment' = [investment EXCEPT ![id] = r]
      /\ collided' = IF Refundable(id) THEN collided \cup {d} ELSE collided
      /\ ledger' = [ledger EXCEPT ![d] = [invested |-> @.invested + amount,
                        units |-> @.units + units, settled |-> @.settled]]
      /\ Fund(d, amount)
      /\ listing[d].status # "none"
      /\ listing' = [listing EXCEPT ![d].total = @ + amount]
      /\ UNCHANGED <<spent, paid>>
  BY DEF Invest, TotalInvested
<1>. HIDE DEF amount, id, r
<1>4. /\ IsFiniteSet(Standing(d)')
      /\ SumFunction(StandingAmounts(d)') <= SumFunction(StandingAmounts(d)) + amount
      /\ SumFunction(StandingUnits(d)') <= SumFunction(StandingUnits(d)) + units
      /\ ~ Refundable(id) =>
             /\ SumFunction(StandingAmounts(d)') = SumFunction(StandingAmounts(d)) + amount
             /\ SumFunction(StandingUnits(d)') = SumFunction(StandingUnits(d)) + units
      /\ \A e \in Deals \ {d} : /\ Standing(e)' = Standing(e)
                                /\ StandingAmounts(e)' = StandingAmounts(e)
                                /\ StandingUnits(e)' = StandingUnits(e)
  BY <1>0, <1>1, <1>2, <1>3, ClaimAdded
<1>5. StandingFinite'
  BY <1>0, <1>4 DEF StandingFinite
<1>6. total' = SumFunction(balance')
  BY <1>0, <1>1, <1>3, TotalFunds
<1>7. /\ ledger'[d].invested = ledger[d].invested + amount
      /\ ledger'[d].units = ledger[d].units + units
      /\ listing'[d].total = listing[d].total + amount
      /\ listing'[d].status = listing[d].status
      /\ \A e \in Deals \ {d} : ledger'[e] = ledger[e] /\ listing'[e] = listing[e]
      /\ ledger[d].invested \in Nat /\ ledger[d].units \in Nat /\ listing[d].total \in Nat
  BY <1>0, <1>3 DEF TypeOK
<1>8. Unlisted'
  BY <1>0, <1>3, <1>7 DEF Unlisted
<1>9. ASSUME NEW e \in Deals
      PROVE  DealTotals(e)'
  <2>1. PaidFor(e)' = PaidFor(e)
    BY <1>3 DEF PaidFor
  <2>2. ledger'[e].invested <= listing'[e].total
    BY <1>1, <1>7 DEF SInv, DealTotals
  <2>. QED BY <1>3, <2>1, <2>2 DEF SInv, DealTotals
<1>10. ASSUME NEW e \in Deals
       PROVE  AddsUp(e)'
  <2>1. CASE e # d
    BY <1>3, <1>4, <1>7, <2>1 DEF SInv, AddsUp
  <2>2. CASE e = d
    <3>1. AddsUp(d)
      BY DEF SInv
    <3>2. /\ SumFunction(StandingAmounts(d)) \in Nat /\ SumFunction(StandingUnits(d)) \in Nat
          /\ SumFunction(StandingAmounts(d)') \in Nat /\ SumFunction(StandingUnits(d)') \in Nat
      <4>1. /\ SumFunction(StandingAmounts(d)) \in Nat
            /\ SumFunction(StandingUnits(d)) \in Nat
        BY <1>0, StandingSums
      <4>2. /\ StandingAmounts(d)' \in [Standing(d)' -> Nat]
            /\ StandingUnits(d)' \in [Standing(d)' -> Nat]
        BY StandingTypesNext
      <4>3. ASSUME NEW f \in [Standing(d)' -> Nat]
            PROVE  SumFunction(f) \in Nat
        BY <1>4, SumOfNaturals DEF SumFunction
      <4>. QED BY <4>1, <4>2, <4>3
    <3>3. /\ SumFunction(StandingAmounts(d)') <= ledger'[d].invested
          /\ SumFunction(StandingUnits(d)') <= ledger'[d].units
      BY <1>1, <1>4, <1>7, <3>1, <3>2 DEF AddsUp
    <3>4. d \notin collided' => d \notin collided /\ ~ Refundable(id)
      BY <1>3
    <3>5. d \notin collided' =>
              /\ SumFunction(StandingAmounts(d)') = ledger'[d].invested
              /\ SumFunction(StandingUnits(d)') = ledger'[d].units
      BY <1>1, <1>4, <1>7, <3>1, <3>2, <3>4 DEF AddsUp
    <3>. QED BY <2>2, <3>3, <3>5 DEF AddsUp
  <2>. QED BY <2>1, <2>2
<1>. QED BY <1>5, <1>6, <1>8, <1>9, <1>10 DEF SInv

\* A refund: they shrink by the same amount.
LEMMA RefundSums ==
    ASSUME SInv, TypeOK', DealAssumption, NEW sender \in Accounts, NEW id \in Ids,
           RefundInvestment(sender, id)
    PROVE  SInv'
<1>. DEFINE d == id[1]
            amount == investment[id].amount
            units == investment[id].units
<1>0. /\ TypeOK /\ StandingFinite /\ Unlisted /\ total = SumFunction(balance)
      /\ d \in Deals
  BY DEF SInv, Ids
<1>1. /\ Refundable(id)
      /\ amount <= ledger[d].invested
      /\ units <= ledger[d].units
      /\ investment' = [investment EXCEPT ![id].status = "Refunded"]
      /\ ledger' = Unclaimed(d, amount, units)
      /\ Pay(d, d, amount)
      /\ UNCHANGED <<listing, collided, spent, paid>>
  BY DEF RefundInvestment
<1>2. amount \in Nat /\ units \in Nat
  BY <1>0, <1>1 DEF TypeOK, Investment, Refundable
<1>3. /\ IsFiniteSet(Standing(d)')
      /\ SumFunction(StandingAmounts(d)) = amount + SumFunction(StandingAmounts(d)')
      /\ SumFunction(StandingUnits(d)) = units + SumFunction(StandingUnits(d)')
      /\ \A e \in Deals \ {d} : /\ Standing(e)' = Standing(e)
                                /\ StandingAmounts(e)' = StandingAmounts(e)
                                /\ StandingUnits(e)' = StandingUnits(e)
  BY <1>0, <1>1, ClaimRemoved
<1>. HIDE DEF d, amount, units
<1>4. StandingFinite'
  BY <1>0, <1>3 DEF StandingFinite
<1>5. total' = SumFunction(balance')
  BY <1>0, <1>1, TotalPays
<1>6. /\ ledger'[d].invested = ledger[d].invested - amount
      /\ ledger'[d].units = ledger[d].units - units
      /\ \A e \in Deals \ {d} : ledger'[e] = ledger[e]
      /\ ledger[d].invested \in Nat /\ ledger[d].units \in Nat
      /\ \A e \in Deals : listing[e].total \in Nat
  BY <1>0, <1>1 DEF TypeOK, Unclaimed
<1>7. Unlisted'
  <2>1. ASSUME NEW e \in Deals, listing'[e].status = "none"
        PROVE  ledger'[e].invested = 0
    <3>1. ledger[e].invested = 0
      BY <1>0, <1>1, <2>1 DEF Unlisted
    <3>. QED BY <1>1, <1>2, <1>6, <3>1
  <2>. QED BY <2>1 DEF Unlisted
<1>8. ASSUME NEW e \in Deals
      PROVE  DealTotals(e)'
  <2>1. PaidFor(e)' = PaidFor(e)
    BY <1>1 DEF PaidFor
  <2>2. ledger'[e].invested <= listing'[e].total
    BY <1>1, <1>2, <1>6 DEF SInv, DealTotals
  <2>. QED BY <1>1, <2>1, <2>2 DEF SInv, DealTotals
<1>9. ASSUME NEW e \in Deals
      PROVE  AddsUp(e)'
  <2>1. CASE e # d
    BY <1>1, <1>3, <1>6, <2>1 DEF SInv, AddsUp
  <2>2. CASE e = d
    <3>1. AddsUp(d)
      BY <1>0 DEF SInv
    <3>2. /\ SumFunction(StandingAmounts(d)') \in Nat
          /\ SumFunction(StandingUnits(d)') \in Nat
      <4>2. /\ StandingAmounts(d)' \in [Standing(d)' -> Nat]
            /\ StandingUnits(d)' \in [Standing(d)' -> Nat]
        BY <1>0, StandingTypesNext
      <4>3. ASSUME NEW f \in [Standing(d)' -> Nat]
            PROVE  SumFunction(f) \in Nat
        BY <1>3, SumOfNaturals DEF SumFunction
      <4>. QED BY <4>2, <4>3
    <3>. QED BY <1>1, <1>2, <1>3, <1>6, <2>2, <3>1, <3>2 DEF AddsUp
  <2>. QED BY <2>1, <2>2
<1>. QED BY <1>4, <1>5, <1>7, <1>8, <1>9 DEF SInv

LEMMA InitSums == Init => SInv
<1>. SUFFICES ASSUME Init PROVE SInv
  OBVIOUS
<1>. USE DealAssumption
<1>1. TypeOK
  BY InitKeeps DEF IInv
<1>2. ASSUME NEW S, IsFiniteSet(S), NEW f, DOMAIN f = S, \A x \in S : f[x] = 0
      PROVE  SumFunction(f) = 0
  BY <1>2, SumOfZeros DEF SumFunction
<1>3. total = SumFunction(balance)
  <2>1. /\ IsFiniteSet(Deals) /\ DOMAIN balance = Deals /\ total = 0
        /\ \A d \in Deals : balance[d] = 0
    BY DEF Init, DealAssumption
  <2>. QED BY <1>2, <2>1
<1>4. ASSUME NEW d \in Deals
      PROVE  /\ Standing(d) = {}
             /\ DealTotals(d)
             /\ AddsUp(d)
  <2>1. Standing(d) = {}
    BY DEF Init, Standing, Refundable
  <2>2. SumFunction(PaidFor(d)) = 0
    <3>1. /\ IsFiniteSet(Investors) /\ DOMAIN PaidFor(d) = Investors
          /\ \A i \in Investors : PaidFor(d)[i] = 0
      BY DEF Init, PaidFor, DealAssumption
    <3>. QED BY <1>2, <3>1
  <2>3. SumFunction(StandingAmounts(d)) = 0 /\ SumFunction(StandingUnits(d)) = 0
    <3>1. DOMAIN StandingAmounts(d) = {} /\ DOMAIN StandingUnits(d) = {}
      BY <2>1 DEF StandingAmounts, StandingUnits
    <3>. QED BY <3>1, SumOfNone DEF SumFunction
  <2>4. /\ ledger[d].invested = 0 /\ ledger[d].units = 0
        /\ listing[d].total = 0 /\ spent[d] = 0
    BY DEF Init
  <2>. QED BY <2>1, <2>2, <2>3, <2>4 DEF DealTotals, AddsUp
<1>5. StandingFinite /\ Unlisted
  BY <1>4, FS_EmptySet DEF StandingFinite, Unlisted, Init
<1>. QED BY <1>1, <1>3, <1>4, <1>5 DEF SInv

LEMMA NextSums == SInv /\ TypeOK' /\ [Next]_vars => SInv'
<1>. SUFFICES ASSUME SInv, TypeOK', [Next]_vars
              PROVE  SInv'
  OBVIOUS
<1>. USE DealAssumption
<1>1. CASE \/ UNCHANGED vars
           \/ RoleStep /\ UNCHANGED <<project, listing, dealVars, escrowVars, paid, block, moves>>
           \/ RegisterProject
           \/ NextBlock
           \/ \E sender \in Accounts :
                 \/ \E verified \in BOOLEAN : VerifyProject(sender, verified)
                 \/ \E d \in Deals :
                       \/ CreateDeal(sender, d)
                       \/ ActivateDeal(sender, d)
                       \/ \E status \in Statuses : UpdateDealStatus(sender, d, status)
                       \/ \E a \in Amounts : UpdateTotalInvested(sender, d, a)
  BY <1>1, ListingSums
<1>2. ASSUME NEW sender \in Accounts,
             \/ \E id \in Ids : ConfirmInvestment(sender, id)
             \/ \E d \in Deals : Settle(sender, d)
      PROVE  SInv'
  BY <1>2, StatusSums
<1>3. ASSUME NEW i \in Investors, NEW d \in Deals, NEW units \in 1 .. UnitsOf[d],
             Invest(i, d, units)
      PROVE  SInv'
  BY <1>3, InvestSums
<1>4. ASSUME NEW sender \in Accounts, NEW id \in Ids, RefundInvestment(sender, id)
      PROVE  SInv'
  BY <1>4, RefundSums
<1>5. ASSUME NEW d \in Deals,
             \/ \E a \in Amounts : Donate(d, a)
             \/ \E sender \in Accounts, a \in Amounts :
                   \/ PayDirectly(sender, d, a)
                   \/ \E i \in Investors : DistributeProfit(sender, d, i, a)
             \/ \E sender \in Accounts, S \in SUBSET Investors, fee \in Amounts \cup {0} :
                   \E amounts \in [S -> Amounts] :
                       CalculateAndDistribute(sender, d, amounts, fee)
      PROVE  SInv'
  BY <1>5, PaymentSums
<1>. QED BY <1>1, <1>2, <1>3, <1>4, <1>5 DEF Next

LEMMA SumsInvariant == Spec => []SInv
<1>1. SInv /\ TypeOK /\ TypeOK' /\ [Next]_vars => SInv'
  BY NextSums
<1>. QED BY <1>1, InitSums, TypeCorrect, PTL DEF Spec

\* What a DealContract counts is the sum of what its investors can claim back,
\* unless one investment took the place of another.
THEOREM InvestmentsAlwaysAddUp == Spec => []InvestmentsAddUp
  BY SInvTells, SumsInvariant, PTL

\* The Escrow's total is the sum of the balances it keeps, the factory's total
\* of a deal is never below the deal's own, and the profit paid to a deal's
\* investors adds up to no more than left the deal.
THEOREM TotalsAlwaysAgree == Spec => []TotalsAgree
  BY SInvTells, SumsInvariant, PTL
=============================================================================
