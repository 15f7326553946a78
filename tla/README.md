# GramBandhan: verification of the financial core

TLA+ models of the parts of this repository that move money, the TLC runs that
check them, and TLAPS proofs. GramBandhan funds farming deals: investors buy units
of a deal, payments are taken from a provider, a double-entry ledger and an escrow
balance per deal record what happened, and contracts on a chain mirror it.

Paths below are those of `apps/api/src` unless they say otherwise. `backend/` holds
byte-identical copies of `apps/api`, `contracts` and `crates/gram-indexer` and is
covered by what is said of the originals.

## 1. The system

| component | state it keeps | operations | called by |
|---|---|---|---|
| ledger (`ledger/ledger.service.ts`) | accounts, ledger transactions with a unique idempotency key, lines with a running balance | `createTransaction`, `ensureAccount`, `validateBalance`, `reconcile` | every other money service, often inside the caller's database transaction |
| payments (`payments/payments.service.ts`, providers) | payments, attempts, stored webhooks | `createPayment`, `processPayment`, `handleWebhook`, `verifyPayment`, `finalizePayment`, `failPayment`, `reconcilePayments` | controllers, the provider's webhooks |
| investments (`investments/investments.service.ts`) | investments and their units, `deal.totalInvested`, the escrow balance | `create`, `confirm`, `fail`, `refund` | controllers; `confirm` by payments |
| deals (`deals/deal-lifecycle.service.ts`, `deals.service.ts`) | the deal's status, terms, audit trail | drafting, editing, review, publication, `cancel`, `close`, all through `transitionDeal` | controllers; `close` after profits |
| escrow (`escrow/escrow.service.ts`) | balance and locked balance of a deal | `deposit`, `lock`, `release`, `refund`, `deductFee` | settlements |
| profits, settlements (`profits/`, `settlements/`) | profit calculations, distributions, settlements, withdrawals | calculate, approve, distribute; create, approve, process | controllers |
| chain consumer (`blockchain/event-listener/`) | events seen, a block cursor | poll, Redis subscription, handlers, reorganisation, restart | timers, Redis |
| gram-indexer (`crates/gram-indexer`, Rust) | block cursor, `blockchain_events` | `run`, `process_block_range`, `insert_events` | its own loop |
| contracts (`contracts/src`, Solidity) | deals, investments, escrow balances, roles | invest, confirm, refund, release, declare and distribute profit | wallets, other contracts |
| the rest | one record at a time (users, farmers, farms, projects, oracle data), reports, notifications, user interfaces | CRUD, queries, output | |

What is hard here: the API serves requests concurrently on PostgreSQL at READ
COMMITTED, and most services read a row, decide, and write in a later statement or
transaction without repeating the read. A request may die between two transactions.
Providers deliver webhooks late, twice or before the reference they name is
recorded. The ledger is the one service that takes row locks, in the order of the
lines it is given. `PROJECT.json` lists each hazard at its line with the properties
that cover it.

What makes each part correct:

* ledger: every transaction balances, a key is booked once, an answer is durable,
  the running balances add up, every call ends;
* payments: money is booked once per payment, an investment is confirmed on
  collected money only, a settled payment's investment is confirmed;
* investments and deals: units are not sold twice, escrow, total and ledger agree,
  an investment has one outcome, a final status is final;
* deals: what is offered is what was reviewed, and it is complete;
* escrow, settlements, withdrawals: nobody is paid for what was not drawn, nothing
  leaves twice, the balance agrees with the ledger;
* profits: the parts add up to the whole, a settled deal has paid everybody;
* indexer and consumer: no final event is passed over, only final events are acted
  on, an event has its effect once;
* contracts: the escrow covers what investors can claim, deals do not touch each
  other's money.

## 2. Modules

| module | models |
|---|---|
| `DoubleEntry` | the arithmetic of `createTransaction`: what a line is, when lines are accepted, `signedDelta` |
| `IdempotentJournal` | abstract specification of the ledger: balanced requests are booked whole, once per key, and stay |
| `Ledger` | `createTransaction` statement by statement, for concurrent callers |
| `PaymentSettlement` | `payments.service.ts` with `confirm`, await by await |
| `DealLifecycle` | `deals.service.ts` and `deal-lifecycle.service.ts`: drafting, editing, review, publication, cancellation |
| `DealFunding` | `create`, `confirm`, `fail`, `refund` on that deal (EXTENDS `DealLifecycle`) |
| `PayoutRequests` | what the paying services share: requests in progress, ledger keys, payments table |
| `SettlementPayouts` | `createSettlement`, `approve`, `processSettlement` and `escrow.service.ts` |
| `WithdrawalPayouts` | withdrawals and their review |
| `ProfitSplit` | the arithmetic of `calculateProfit` |
| `ProfitPayouts` | `calculateProfit`, `approveProfitCalculation`, `distributeProfit`, `close` |
| `Payouts` | the three payout modules side by side |
| `ChainTables` | the chain, reorganisations, `blockchain_events`, the shared cursor |
| `GramIndexer` | `crates/gram-indexer` |
| `ChainConsumer` | `blockchain-event.service.ts` and its handlers |
| `ChainEvents` | indexer and consumer on the same tables |
| `OnchainRoles` | roles and pauses of all contracts |
| `DealMoney` | abstract specification: what the contracts promise of a deal's money |
| `OnchainDeal` | registry, factory, deal contracts, escrow, profit distribution |
| `LedgerProofs`, `PaymentProofs`, `DealProofs`, `PayoutsProofs`, `PayoutStatusProofs`, `ChainEventsProofs`, `OnchainDealProofs` | the theorems and their proofs |
| `SumLemmas` | induction on finite sets, and what it gives for sums over them |
| `MC...` | instances for TLC |

**Ledger.** `pc[p]` is where caller `p` stands in `createTransaction`: `lock` is the
first loop (`LockAccount`, `RefuseInactive`), `insert` the `ledgerTransaction.create`
(`InsertTransaction`, or `RefuseDuplicate` when the unique index refuses it), `post`
the second loop (`PostLine`), then `Commit`. `lock` is the set of `FOR UPDATE` row
locks, `draft` the lines not committed, `book` the committed transactions. `Call` is
the lookup of the key and the checks made before the transaction. `Fail` is any
roll-back: a lost connection, or the failure of the outer transaction the posting is
part of. `BreakDeadlock` is PostgreSQL's deadlock detection. `createdAt` is a rank: a
new line gets the newest rank of its account or the next one, as two lines can be
inserted in one millisecond. A clock that steps back is not modelled. Reading the
latest line and inserting the next one is one step because the account's row is
locked; `PostsUnderLock` is the property that justifies this.

**PaymentSettlement.** A worker is one request; its `pc` names the await it stands
before. `RequestProcess`, `Load` … `CatchError` are `processPayment`; `LookUpEvent` …
`MarkProcessed` are `handleWebhook`; `Reread`, `Ask` are `verifyPayment` and the same
question in `reconcilePayments`; `Settle` is the transaction of `finalizePayment`;
`ReadInvestment`, `ReadDeal`, `BookInvestment` are `confirm`. A charge is named after
the worker that made it. `task[w].seen` and `task[w].total` are the rows read earlier
that the code goes on to use. A database transaction is one step when its first update
locks the row its later statements depend on. `confirm` is three: its reads take no
lock, and `findUnique` with `include: { deal: true }` is a SELECT on each table, each of
which sees what is committed by then (READ COMMITTED), so that another request may
commit between the two. `fail` is `FindPending`, the check outside of its transaction,
and `FailInvestment`, the unconditional write; `failing` holds the investments some
such request has found PENDING. `Throw` takes an exception at any await where the code
takes it (`Thrown`): into the catch block of `processPayment`, or to the end of the
request. `interrupted` is history: payments whose request was cut off while confirming.
`traffic` is chosen at the start and stays: the payments there are, how many requests
come and how many of them are served at a time, and how many faults there may be.
Workers are numbered and begin in that order, as a number means nothing but the request
it stands for. The mock provider (the only one in the repository) collects at once and
hands its webhook to `handleWebhook` in the same request; the remote provider is what
`payment-provider.interface.ts` and the webhook route allow for: no `buildWebhook`,
events from outside in any order and any number of times. `reconcilePayments` has no
caller in the repository; `Reconciled` says on which payments a run calls it.

**DealLifecycle.** The deal's row is `deal` (status and total) and `offer` (its
economics, project and the text of its terms). `CreateDeal` is `create`, `EditRead`,
`TextWrite` and `OfferWrite` are `update` and `saveDealTerms`: the checks are made on
the deal as read, the terms are written first, and one field of the economics brings
all of them, from that same read. `Submit`, `Review`, `MarkSmartContractCreated`,
`Publish` and `Cancel` start `transitionDeal`, whose check (`StartTransition`,
`TransitionRead`) and write (`TransitionWrite`) are two steps; `approve` and `reject`
of a SUBMITTED deal go through UNDER_REVIEW, which makes them two transitions. A
request that reads twice before it writes reads once here: when the status has changed
between the two reads it ends without a write. `OpenFunding` is external: no code moves
a deal from PUBLISHED to FUNDING, so an operator does, and does so when no request is
in progress. `approved` (the offer at its approval) and `overlapped` (some request
began while another was in progress) are history.

**DealFunding.** Every operation is a `Read` action (the checks) and a `Write` action
(the transaction). `confirm` reads the investment and then the deal (`ConfirmRead`,
`ConfirmReadDeal`), `refund` the investment and then the escrow account (`RefundRead`,
`RefundReadEscrow`). The reads of `create` are one step, taken as of the last of them,
the one of the units: nothing the model has lowers what the earlier ones saw to the
investor's advantage but an operation that overlaps, and the properties about the
maximum and the status are stated one by one. `deposited` is the sum of the escrow
transactions of type DEPOSIT. What a read saw and `Write` uses (`deal.totalInvested`,
the escrow balance of `refund`) travels in `task`. `confirm` reads the escrow balance
after it has locked the deal row and, through the ledger, the deal's escrow account,
which `refund` locks before it writes; so that read is never stale. `fail` and `refund`
have no route; they are modelled as the service offers them. Both `PaymentSettlement`
and `DealFunding` contain `confirm`: in the first it is what payments do to it, in the
second what the other operations on the deal do.

**Payouts.** A worker serves one request in steps; a step is one statement or one
database transaction between two awaits, and `task[w]` keeps what the request has
read. `posted` and `payments` are the unique keys of the ledger and of the payments
table. In `SettlementPayouts`, `CheckEscrow` is the read of the escrow account that
`release`, `refund` and `deductFee` make before their transaction, `MoveEscrow` that
transaction, which writes `balance` and `lockedBalance` from the read
(`Drawn`), `PayOut` the payment record, `FailSettlement` the catch block,
`ThrowIntoCatch` any statement of the try block that throws. `moved` counts how often
the balance was moved for a reference. In `WithdrawalPayouts` the transaction of
`processWithdrawal` is two steps because the wallet's balance is read outside of it
while it holds the withdrawal's row (`RowHeld`). In `ProfitPayouts` a distribution is
paid, posted and marked in three steps, and `Duplicate` is the unique key that throws
out of the request. `ProfitSplit` counts in ticks, `Scale` to one; `RoundDiv` is the
rounding of `decimal.util.ts`.

**ChainEvents.** `head` and `canon` are the chain; `Reorganise` takes an event of the
newest `Buffer` blocks back (one that nobody reads logs of would change nothing else and
is left out). `row` is `blockchain_events`, `saved` the `blockchain_sync_state` row both
programs write, `missed` the history of events that a failed call or a start at the head
passed. `deployment`, chosen at the start, is what the programs find: the one address
whose logs both ask for, which makes `Watched` the events of that contract, and whether
the database has the tables the raw SQL names; the Prisma schema does not give it them.
`ix` is the Rust process: `Start` is its recovery, whose first query ends it without
those tables, `Fetch` … `SaveCursor` its loop; `RowFails` is a row that aborts the
transaction without an error to the caller. The API runs in Redis mode or polls
(`api.redis`, the environment's `USE_RUST_INDEXER`). The poller starts at the highest
processed block (`RecoverPoller`), at the final block when there is none
(`StartPollerAtHead`) or when the query fails (`RecoverFails`), or never
(`RecoverGivesUp`); it takes a range topic by topic (`Topic`, `IsNext`). `Create`
inserts under `RowId`, which two investments of one investor in one block share, and
does nothing when the id is taken. `PublishNext` composes the two:
a message is in hand at once, or lost. Every handler statement is a step. The raw SQL is
modelled as what its statements do to the tables they name.

**OnchainDeal.** An action is a transaction that succeeds, with every contract it
calls; one that reverts changes nothing. `OnchainRoles` holds the role tables of every
contract, granted from outside. The refinement `MoneyKeptApart` maps a deal's money to
`DealMoney`: `held` is the escrow's balance of the deal, `claims` what the deal contract
counts as invested, and every transaction is a step of it or leaves the money alone.

## 3. Runs

| run | what it shows | bounds |
|---|---|---|
| `ledger` | all properties of `Ledger`, and that it implements `IdempotentJournal` | 2 callers, 3 accounts of which one is inactive, 2 keys, requests that lock two accounts in opposite orders, share a key, are unbalanced, or use the inactive account |
| `ledger_ties` | **violation**: a running balance misses a movement when two lines share `createdAt` | 3 balanced requests |
| `payments` | under any overlap only money collected for a payment is booked and confirms its investment, no deposit is lost, escrow covers what the total and FUNDED count, and whoever settles a payment has its investment in hand until it is confirmed, unless a fault cuts the request off; one at a time the books agree exactly and a payment is not charged again while a charge stands | four traffics (`MCTraffics`): 3 requests for a remote payment, 2 at a time; 2 overlapping requests for two payments of one investment, or of two investments, 1 fault; 3 requests one by one for two payments of one investment and a wallet payment, 1 fault; 1.1 million states |
| `payments_double_deposit` | **violation**: escrow exceeds what was booked | 2 overlapping requests |
| `payments_stranded` | **violation**: settled, never confirmed | 1 fault |
| `deal_funding` | a deal from draft to refund: what is offered was approved and complete, total and `FUNDED` never run ahead of the deposits, overselling is bounded by the overlap, and one by one the books agree and each investment has one outcome | 2 workers, 3 investments of 2 investors asking for 4 of 3 units, 2 edits out of two kinds (terms with the maximum; a higher target with an unapproved project); 1.7 million states |
| `deal_oversold` | **violation**: more units are held than the deal has | 2 workers |
| `deal_maximum` | **violation**: an investor exceeds `maximumInvestment` | 1 worker |
| `deal_cancelled` | **violation**: a cancelled deal becomes funded | 1 worker |
| `payouts` | settlements, withdrawals and distributions together: paid only what was drawn, booked once, the split adds up, a settled deal has paid everybody | 2 workers, 4 requests, 1 fault; a refund of 2 and a fee of 1 on an escrow of 2, two withdrawals of 1 on a wallet of 1, investors holding 3 and 203, three statements; 0.4 million states |
| `onchain_deal` | the totals the contracts keep in four places agree, refunds are covered, and deals keep their money apart (refinement of `DealMoney`) | two deals of 2 and 1 units, 2 blocks, 3 movements of money, 1 change of roles or pauses; 0.3 million states |
| `chain_events` | only final events are acted on, the shared cursor passes an event only by failure, a processed event has its investment or lost its id to another's, an event has its effect once, every final event of the watched contract is indexed | three investments, two of them in one block and of one id, with a deposit and a release of the escrow in that block; one PENDING row, buffer and range of 1, height 3, 1 fault, 2 messages in hand and the poller, both modes; set to a deal's contract, with and without the tables, to the escrow or to the platform; 0.6 million states |

Why the bounds are enough to mean something: two callers are what a race, a lock cycle
and a duplicate key need, and requests are repeated without limit in `ledger` until each
key is booked. In `payments` three requests are two that overlap and one that comes
after them (a retry, a duplicate delivery); where a fault or a second payment is added
two requests do, since what such a mix can break (two confirmations of one investment, a
settlement whose confirmation is cut off) takes two. In `deal_funding` the investments
ask for one unit more than there is, exactly reach the target, and exceed one investor's
maximum; the edit that raises the target to 7 leaves a price whose rounding keeps all
units together below it. In `payouts` either settlement fits the escrow and both
together do not; the second statement leaves an investor nothing and the third has a fee
of nothing, which the ledger refuses; four requests are two processed twice, or
approval, processing and a retry beside a withdrawal. In `chain_events` a height of 3
lets the chain grow while each event in turn is still in the buffer; one PENDING row for
three investments makes one confirm it and the others need rows of their own; two kinds
of escrow event in one block are what the poller's order of topics is about. In
`onchain_deal` three movements are two investments and a refund or a payment between
them, on the same deal or on two.

The bounds that appear in guards: `Traffics` (requests, how many at a time, and faults
of payments), `Workers` elsewhere (requests in progress), `MaxRequests`, `MaxEdits`,
`MaxFaults` (crashes, exceptions, lost messages), `MaxHead` and `MaxBlock` (the chain),
`MaxMoves`, `MaxChanges` (movements of money, changes of roles). Workers are
interchangeable in `deal_funding` and `payouts`, and so are the two investments of one
unit in the first, the withdrawals in the second and the investors in `onchain_deal`,
hence the symmetry (`Alike`) in these runs; no run with liveness uses any.
`deal_funding` also has a `VIEW`: once two requests have overlapped no step and no
property reads the history variable `approved`.

The violation runs are disagreements between the code and what the repository says of
it; `PROJECT.json` "findings" quotes the line. In short: (1) the latest ledger line is
looked up by a millisecond timestamp; (2) `confirm` deposits into the escrow balance
even when its posting turns out to be booked already; (3) `finalizePayment` commits
the settlement before `confirm`, and every later attempt stops at the `COMPLETED`
status or at the stored webhook; (4) pending investments do not count against an
investor's maximum; (5) `confirm` writes `FUNDED` over any status; (6) `create` checks
the remaining units outside its transaction, where two documents promise that a deal is
not oversold.

Some more limits of the code are in the behaviours of the passing runs, and the
properties are stated so that they say what is still true. `confirm` may read its
investment as PENDING and then the deal's total with that investment in it, when another
request confirms it in between; it adds the amount again, so a deal may count, and become
FUNDED by, money that was deposited twice and booked once. `TotalIsDeposited` and
`NoDepositLost` therefore compare the total with the deposits, not with the ledger. Of
two on-chain investments with one id the second record is dropped without an error
(`investment.handler.ts:99`) and `ProcessedIsConfirmed` says so. The logs of one address
are read and the events come from several contracts, and the indexer needs a table the
deployed schema does not have: `WatchedEventsAreIndexed` speaks of the events of the
watched contract on a database with the tables, and the run has the other deployments
beside it, where nothing is due and nothing is indexed (§6).

Properties that end in `OneByOne`, and those with `overlapped` or `traffic.atOnce = 1`
in them, state what holds without overlap on purpose: with overlap the code does lose it
(edits, transitions, escrow movements overwrite each other). Of overlapping investments
the documents do promise more: `docs/security/10-threat-model.md:42` lists the race as
mitigated and `docs/architecture/05-transaction-lifecycle.md:101` ticks that funding is
not exceeded. `NotOversold` states this and `deal_oversold` refutes it;
`OversoldByOverlapOnly` is the bound that the code does keep. The overlapping behaviours
are explored for all properties that hold in all of them. `ChargedOnce` also leaves out
payments of a FAILED investment: there `confirm` throws after the settlement, the
payment that was just settled becomes `FAILED`, and processing it again charges it
again.

Deadlock checking is on for the ledger runs. The others end when their one-shot
requests are served, or when the height of the chain, the requests or the faults are
used up, so there it is off.

## 4. Fairness

`Ledger!Fairness`: a caller that can take its next step does (the event loop and the
database go on), and `LockAccount` is strongly fair because PostgreSQL queues waiters
for a row lock, so a caller is not overtaken for ever. `Call` and `Fail` are not fair:
nobody has to call, nothing has to fail. `PaymentSettlement!FairSpec`, which only
`payments_stranded` uses: a request that was accepted is worked on until it ends; no
provider, caller or fault is fair.
`ChainEvents!Spec` has weak fairness of `IndexerStep` only: the indexer is an endless
loop, and the container it runs in is started again when it ends
(`docker-compose.yml:83-106`, `restart: unless-stopped`). Neither the chain nor the API
nor a fault has to move.

## 5. Proofs

Each theorem holds for any values of the constants that satisfy the assumptions of
its module; these only say that the constants are of the right kind.

| module | theorem | property |
|---|---|---|
| `LedgerProofs` | `TypeCorrect` | `TypeOK` |
| | `LedgerBalances` | `TrialBalance` |
| | `LedgerIsIdempotent` | `AtMostOncePerKey` |
| | `AnswersAreDurable` | `AnsweredIsCommitted` |
| | `LinesAreLocked` | `PostsUnderLock` |
| | `RunningBalancesAddUp` | `DistinctTimesAddUp` |
| | `LedgerImplementsJournal` | `ImplementsJournal` |
| `PaymentProofs` | `TypeCorrect` | `TypeOK` |
| | `OnlyCollectedMoney` | `OnlyCollectedIsBooked` |
| | `DepositsStay` | `NoDepositLost` |
| | `BooksAlwaysAgree` | `BooksAgree` |
| | `ChargesAreSingle` | `ChargedOnce` |
| | `SettledStaysInHand` | `SettledIsInHand` |
| `DealProofs` | `TypeCorrect` | `TypeOK` |
| | `OfferedAsReviewed` | `OfferedAsApproved` |
| | `FundedOnDeposits` | `TotalIsDeposited` |
| | `OversellingIsBounded` | `OversoldByOverlapOnly` |
| | `BooksAgreeAlone` | `BooksAgreeOneByOne` |
| | `OneOutcome` | `OneOutcomeOneByOne` |
| `PayoutsProofs` | `TypeCorrect` | `TypeOK` |
| | `ReleasedBeforePaid` | `PayoutFollowsRelease` |
| | `SettledMeansDistributed` | `SettledDealIsDistributed` |
| `PayoutStatusProofs` | `StatusIsTrue` | `FailedDrewNothing` |
| | `PaidGetsMarked` | `NoStrandedDistribution` |
| | `EscrowAddsUp` | `EscrowBooksOneByOne` |
| | `WithdrawnExactlyOnce` | `WithdrawnOnce` |
| | `OverdraftIsBounded` | `WalletOverdrawnByOverlapOnly` |
| | `ProfitAlwaysAddsUp` | `ProfitAddsUp` |
| `OnchainDealProofs` | `TypeCorrect` | `TypeOK` |
| | `RefundsAlwaysCovered` | `RefundsCovered` |
| | `InvestmentsAlwaysAddUp` | `InvestmentsAddUp` |
| | `TotalsAlwaysAgree` | `TotalsAgree` |
| | `MoneyRefinement` | `MoneyKeptApart` |
| `ChainEventsProofs` | `TypesCorrect` | `TypeOK` |
| | `CursorCorrect` | `PassedOnlyByFailure` |
| | `FinalityCorrect` | `OnlyFinalEvents` |
| | `ProcessedCorrect` | `ProcessedIsConfirmed` |
| | `EffectsCorrect` | `EffectsOnce` |

Every theorem covers any number of overlapping requests; a property that only promises
something one by one says so itself, by the variable `overlapped` or by
`traffic.atOnce`.

No safety property is inductive alone. Each module has one lemma per action that shows
that the strengthened invariant `IInv` is kept, and `NextPreserves`, or the theorem
itself, joins them.

* Sums. The library folds a function over a set by a recursive function that takes an
  arbitrary element out at each step, and its induction theorems take an operator as a
  parameter. `SumLemmas` therefore argues by minimal counterexample: of a family of
  subsets of a finite set one has no proper subset in the family (`SmallestSet`, from the
  well-foundedness of the strict subset ordering). It shows that the recursive function
  exists, that the order of the elements does not matter (`SumWithout`), and from there
  what one changed term, one more element, a bound on each term or a renaming of the
  elements do to a sum. The constants that sums range over are assumed finite, as the
  rows of a table are.
* Ledger. `LoopInv`: a caller inside its transaction works on an accepted request, its
  index is at one of the lines and its draft is the prefix it has been through, so that
  what is committed has the lines of the request and balances. `LockInv`: a caller holds
  the row of every line its first loop has passed. `KeyInv`: the key of a caller that
  has inserted is neither committed nor inserted by anybody else, which is what the
  unique index and its waiting give. `RunningInv`: the committed lines of an account add
  up, and so do the lines each caller sees on it. A new line follows the last one its
  caller sees; the lines a commit brings are the ones its caller saw, at new places, and
  nobody else has any on the accounts concerned, for it does not hold their locks. If
  two lines share a timestamp nothing is promised, which is where `ledger_ties` finds
  the disagreement with the document. For the refinement, `Commit` maps to `Book` of the
  caller's request and every other step to a stutter.
* Payments. `Grounded(w)` says what a request knows where it stands: before `settle` a
  charge for its payment was collected, before `confirm` and `book` the settlement is
  posted. `References` ties the reference a payment carries to a charge made for it.
  `Keeping` shows that no step takes any of this back (charges made, references set,
  postings), so only the request that moves needs an argument of its own. `BooksInv`: an
  investment is posted at most once, and a total that a request has read is one the
  escrow balance covers, which each confirmation raises by its amount.
  `AgreeInv`, for traffic that is served one by one (`TrafficStays`: a step changes no
  traffic): the one request that is served has read the total as it is. `OnceInv`: a
  charge that counts is about to be recorded, or the payment carries its reference and
  will not be processed again.
* Deals. `OpenedForGood`: once funding has begun nobody edits or reviews, so the price
  of what was asked for stays. `Sound` and `Priced`: the economics of a created deal
  make sense and every amount is positive, under any overlap. `OneByOne`: with one
  request at a time, what it checked still holds when it writes (`Fits`), from which an
  offer is what was approved and an investment has one outcome. `DepositInv`: the total
  a `confirm` has read counts no more than is deposited, and its write deposits its
  amount. `BalancedInv`: one by one, what a request has read is still so when it writes,
  and the rest is how the price is rounded. `WantedInv` counts the units that are held
  or may be without another check: a `create` that checks finds enough beside those
  held, so that only what the other workers have in hand can be too many.
* Payouts. `Knows(w)`: a request that is about to pay has drawn, one that is about to
  mark a distribution has paid and posted it, one that distributes has in hand every
  distribution that is not marked yet. `Onward` lists what no step takes back.
  `PayoutStatusProofs` builds on that invariant. `Settled`: a calculation is made
  before it is approved and approved before it is paid, so what a paid distribution is
  due is fixed; every other service is a `ForeignStep` that leaves the payments of
  distributions alone. `InStep`: while `Calm` (no overlap, no fault) at most one request
  is in progress, and `Serves(w)` says which status its settlement has where it stands
  and that it has moved the money only from `pay` on, so that nobody has paid before it
  does. This one needs deposits and settlements to have keys of their own, as the
  prefixes `escrow-deposit-` and `escrow-release-` give them. `EInv`: one by one, the
  account a request has read is the account it writes. `WInv`: what is left in the wallet
  when everybody has paid who found enough in it (`Overdraft`) is above the bound, which
  is inductive where the balance alone is not. For `ProfitAddsUp`, a rounded quotient is
  off by at most a half (`RoundedIsNear`), so that each allocation is near its share and,
  by `SumClose`, all of them together are near the investors' part; the fee is no more
  than the gross profit, so that this part is not negative.
* Contracts. `RefundsCovered` with `PricesKept` (an investment is priced at its units)
  and the types; the refinement needs them for the guard of `Refund`. `SInv` adds the
  sums: an investment, a refund or a payment changes one term, and an investment under
  an id that is taken replaces one and marks the deal as `collided`.
* Chain. Whatever is at or below a cursor has a row or is in `missed`: `IndexerCovers`,
  `ListenerCovers` and `TasksCover` say it of the process's memory, the poller's range
  and the events in hand, `TablesGrow` that tables only gain. Finality follows from
  every event in hand or in a range being at or below the final block when it was read.
  `EffectsInv` says of a handler that works alone what the steps before its next one have
  left (`ProgressOf`), so that what is handled is confirmed and entered; `NoRepeat` says
  that without a failure the indexer hands out each event once.

Only model-checked: liveness (`EveryCallEnds`, `WatchedEventsAreIndexed`), which needs
fairness and `ENABLED`.

## 6. Not modelled

`PROJECT.json` "components" gives the reason for each part. The map covers a small
share of the repository because most of it is user interface, CRUD, reports and data;
reports, queries, notifications, authentication and the user interfaces keep no state
the financial core depends on.

* Ledger: `ensureAccount` is an idempotent upsert, so accounts are a constant.
  `createIdempotencyCheck` has no caller. Amounts are whole numbers of ticks.
* Payments: signature checks; an event is one that verified.
* Deals: title, duration and the version number of the terms; the audit log; the shares
  (a constant of `ProfitSplit`). `updateFundingProgress` has no caller, the statuses
  between FUNDED and SETTLED have none but `distributeProfit`, which writes SETTLED past
  the table. `PATCH :id/status` ignores the status it is given. Ties of `Math.round` on
  floating-point quotients are taken as exact.
  `docs/architecture/04-deal-lifecycle.md:150` says that SUBMITTED is locked for
  editing, while `editableStatuses` (`deals.service.ts:72-75`) include it; the model
  follows the code. An edit may move a SUBMITTED deal to a project that is not approved:
  `OfferedAsApproved` therefore does not promise an approved project.
* Settlements: a process that dies after PROCESSING leaves a settlement no call takes
  up. CLOSED is a status of the escrow no code writes.
* Profits: a share that rounds to nothing (`profits.service.ts:338`) is paid and then
  refused by the ledger, which wants amounts that are not zero: its distribution is
  stranded. `NoStrandedDistribution` leaves such shares out. The sums of revenues and
  approved expenses, from the oracle's verification services, are inputs.
* Chain consumer: the profit handler, which writes records of its own on the pattern of
  the escrow handler; `handleReorg`, `handle_reorg` and `getUnprocessedEvents`, which
  have no caller. The raw SQL names tables and columns (`escrow_balances`,
  `blockchain_sync_state`, columns of `blockchain_events` and `investments`) the Prisma
  schema does not have. `deployment.tables` stands for the two tables of the cursor and
  the events; where it is TRUE the model speaks of a database to which somebody has
  added them, and the handlers' tables too. On the database that `npx prisma db push`
  makes the indexer ends at its first query: that is the deployment of `chain_events`
  without tables, in which nothing is ever indexed. Likewise only the logs of one
  address are read, and as no contract emits all the events, one deployment of the two
  programs sees the investments of one deal contract or the movements of the escrow, not
  both; with the address `docker-compose.yml:93` configures, the platform's, it sees
  neither. The handlers of deposits and refunds end in an `UPDATE … ORDER BY … LIMIT`,
  which PostgreSQL refuses, after the balance has moved; the first row of
  `escrow_balances` is inserted with 0, so movements are counted and not summed. The
  poller passes the escrow handler an event without its name, so such an event is marked
  processed without effect; it skips every event that has a row, handled or not.
  Reorganisations are assumed less than the buffer deep (`src/README.md:369`). When all
  `Workers` are busy a message counts as lost; that is a bound of the model.
* Reconciliation between chain and database compares and reports; the one automatic fix
  with a caller takes no action.
* Contracts: `receive()`, reentrancy through the recipient of a `.call`;
  `recordHarvest`, `recordRevenue`, `declareProfit`, whose records no contract reads; the
  records `ProfitDistribution` keeps of a calculation, which do not bar a second one; a
  farmer's amount above zero, for which `ProfitDistribution` looks up a deal at
  `msg.sender` and reverts; `AgriPlatform`, which grants roles on its own storage
  (`AgriPlatform.sol:37-41`) and owns the contracts it deploys without a function to
  grant roles on them. The model takes roles as granted from outside. Gas and the price
  of the coin are not modelled.

## 7. Plan

Every invariant and both refinements are proved. What is left, in this order: the safety
part of the two liveness properties as theorems (what is not done yet is in the hands
of somebody who can do it); the profit handler; the oracle's verification services in
front of `calculateProfit`.
