---------------------------- MODULE DealFunding ----------------------------
(***************************************************************************)
(* How a deal in FUNDING is filled: InvestmentsService.create, confirm,    *)
(* fail and refund, together with the operations on the deal itself that   *)
(* module DealLifecycle describes, served by several workers at once.      *)
(* Each of these reads what it decides on and then writes, in one database *)
(* transaction whose statements lock the rows they update; the reads are   *)
(* not repeated under the lock.  So a request is a read, or two, and a     *)
(* write here, and what another request writes in between is overwritten   *)
(* or overlooked as it is in the code: confirm's include is two SELECTs,   *)
(* the investment and then its deal, and each sees what is committed by    *)
(* then; refund reads the investment and then the escrow account.  create  *)
(* reads the deal, the investor's sum and the units in this order; its     *)
(* reads are taken together here, as of the last, which the units that are *)
(* given away depend on.  confirm's escrow balance is read after the deal  *)
(* row and the ledger account of the escrow are locked, which refund locks *)
(* too, so it is never stale.                                              *)
(*                                                                         *)
(* An amount is a number of units times the unit price, which nobody       *)
(* changes any more; a ledger posting is the amount booked under its key,  *)
(* as createTransaction is idempotent (module Ledger).                     *)
(***************************************************************************)
EXTENDS DealLifecycle, FiniteSets, FiniteSetsExt, Functions

CONSTANTS
    Investments,    \* ids: one per idempotency key of a create request
    InvestorOf,     \* the investor who asks for each investment
    UnitsOf         \* the units asked for

ASSUME FundingAssumption ==
    /\ IsFiniteSet(Workers)
    /\ IsFiniteSet(Investments)
    /\ Investments # {}
    /\ UnitsOf \in [Investments -> Nat \ {0}]

VARIABLES
    status,     \* the status of each investment, "none" before it is created
    escrow,     \* the balance of the deal's escrowAccount
    booked,     \* the amount posted under each ledger key, 0 before
    deposited   \* the sum of the escrow transactions of type DEPOSIT

fundingVars == <<status, escrow, booked, deposited>>
vars == <<deal, offerVars, task, overlapped, fundingVars>>

Keys == {"create", "confirm", "fail", "refund"} \X Investments

Target == offer.target
DealUnits == offer.units

Amount(i) == UnitsOf[i] * offer.price

Amounts == [i \in Investments |-> Amount(i)]

\* The investments in one of the given states.
In(states) == {i \in Investments : status[i] \in states}

\* createTransaction: a key that is booked stays as it is.
Post(k, amount) == [booked EXCEPT ![k] = IF @ = 0 THEN amount ELSE @]

----------------------------------------------------------------------------
Init ==
    /\ LifecycleInit
    /\ status = [i \in Investments |-> "none"]
    /\ escrow = 0
    /\ booked = [k \in Keys |-> 0]
    /\ deposited = 0

\* Mutant: units of investments that are not paid yet are given away again.
Allocated_ConfirmedOnly == SumFunctionOnSet(UnitsOf, In({"CONFIRMED"}))

\* The units held by PENDING and CONFIRMED investments.
Allocated == SumFunctionOnSet(UnitsOf, In({"PENDING", "CONFIRMED"}))

\* What the investor has CONFIRMED in this deal; PENDING does not count.
Invested(x) ==
    SumFunctionOnSet(Amounts, {i \in In({"CONFIRMED"}) : InvestorOf[i] = x})

(***************************************************************************)
(* create: the checks, made before the transaction is opened.              *)
(***************************************************************************)
CreateRead(w, i) ==
    /\ status[i] = "none"
    /\ deal.status = "FUNDING"
    /\ Amount(i) >= offer.minimum
    /\ Amount(i) <= offer.maximum - Invested(InvestorOf[i])
    /\ Allocated + UnitsOf[i] <= DealUnits
    /\ Begin(w, [op |-> "create", inv |-> i])
    /\ UNCHANGED <<deal, offerVars, fundingVars>>

\* The insert, unless another request has used the idempotency key since.
CreateWrite(w) ==
    LET i == task[w].inv IN
    /\ task[w].op = "create"
    /\ IF status[i] = "none"
       THEN /\ status' = [status EXCEPT ![i] = "PENDING"]
            /\ booked' = Post(<<"create", i>>, Amount(i))
       ELSE UNCHANGED <<status, booked>>
    /\ Finish(w)
    /\ UNCHANGED <<deal, offerVars, escrow, deposited>>

(***************************************************************************)
(* confirm: CONFIRMED returns, FAILED and REFUNDED are conflicts.  The     *)
(* investment and the deal are read by two SELECTs of one query.           *)
(***************************************************************************)
\* Mutant: only an investment that is confirmed already is left alone.
Confirmable_Any(s) == s \notin {"none", "CONFIRMED"}

Confirmable(s) == s = "PENDING"

ConfirmRead(w, i) ==
    /\ Confirmable(status[i])
    /\ Begin(w, [op |-> "include", inv |-> i])
    /\ UNCHANGED <<deal, offerVars, fundingVars>>

ConfirmReadDeal(w) ==
    /\ task[w].op = "include"
    /\ Continue(w, [op |-> "confirm", inv |-> task[w].inv, total |-> deal.total])
    /\ UNCHANGED <<deal, offerVars, fundingVars>>

\* Mutant: totalInvested is counted anew, from what is not paid yet too.
NewTotal_Promised(t) == SumFunctionOnSet(Amounts, In({"PENDING", "CONFIRMED"}))

\* totalInvested is written from the deal that was read.
NewTotal(t) == t.total + Amount(t.inv)

\* The deal becomes FUNDED at the target, whatever its status is.
ConfirmWrite(w) ==
    LET t == task[w] IN
    /\ t.op = "confirm"
    /\ status' = [status EXCEPT ![t.inv] = "CONFIRMED"]
    /\ deal' = [status |-> IF NewTotal(t) >= Target THEN "FUNDED"
                           ELSE deal.status,
                total |-> NewTotal(t)]
    /\ booked' = Post(<<"confirm", t.inv>>, Amount(t.inv))
    /\ escrow' = escrow + Amount(t.inv)
    /\ deposited' = deposited + Amount(t.inv)
    /\ Finish(w)
    /\ UNCHANGED offerVars

(***************************************************************************)
(* fail: only what is neither confirmed nor ended.                         *)
(***************************************************************************)
Failable(s) == s = "PENDING"

FailRead(w, i) ==
    /\ Failable(status[i])
    /\ Begin(w, [op |-> "fail", inv |-> i])
    /\ UNCHANGED <<deal, offerVars, fundingVars>>

FailWrite(w) ==
    LET i == task[w].inv IN
    /\ task[w].op = "fail"
    /\ status' = [status EXCEPT ![i] = "FAILED"]
    /\ booked' = Post(<<"fail", i>>, Amount(i))
    /\ Finish(w)
    /\ UNCHANGED <<deal, offerVars, escrow, deposited>>

(***************************************************************************)
(* refund: at most what the escrow balance, as read, holds; the balance is *)
(* written from what was read, and totalInvested stays.                    *)
(***************************************************************************)
RefundRead(w, i) ==
    /\ status[i] = "CONFIRMED"
    /\ Begin(w, [op |-> "weigh", inv |-> i])
    /\ UNCHANGED <<deal, offerVars, fundingVars>>

RefundReadEscrow(w) ==
    /\ task[w].op = "weigh"
    /\ Continue(w, [op |-> "refund", inv |-> task[w].inv, balance |-> escrow])
    /\ UNCHANGED <<deal, offerVars, fundingVars>>

\* Mutant: the units are refunded, not the amount they cost.
Refundable_Units(t) == Min({UnitsOf[t.inv], t.balance})

\* Mutant: the refund is not capped at the escrow balance.
Refundable_Uncapped(t) == Amount(t.inv)

Refundable(t) == Min({Amount(t.inv), t.balance})

RefundWrite(w) ==
    LET t == task[w] IN
    /\ t.op = "refund"
    /\ status' = [status EXCEPT ![t.inv] = "REFUNDED"]
    /\ IF Refundable(t) > 0
       THEN /\ booked' = Post(<<"refund", t.inv>>, Refundable(t))
            /\ escrow' = t.balance - Refundable(t)
       ELSE UNCHANGED <<booked, escrow>>
    /\ Finish(w)
    /\ UNCHANGED <<deal, offerVars, deposited>>

\* The request dies, or its transaction is rolled back.
Abort(w) ==
    /\ task[w] # None
    /\ Finish(w)
    /\ UNCHANGED <<deal, offerVars, fundingVars>>

Next ==
    \/ LifecycleStep /\ UNCHANGED fundingVars
    \/ \E w \in Workers :
          \/ \E i \in Investments :
                \/ CreateRead(w, i)
                \/ ConfirmRead(w, i)
                \/ FailRead(w, i)
                \/ RefundRead(w, i)
          \/ CreateWrite(w)
          \/ ConfirmReadDeal(w)
          \/ ConfirmWrite(w)
          \/ FailWrite(w)
          \/ RefundReadEscrow(w)
          \/ RefundWrite(w)
          \/ Abort(w)

Spec == Init /\ [][Next]_vars

----------------------------------------------------------------------------
Posted(op) == SumFunction([i \in Investments |-> booked[<<op, i>>]])

\* The units that the investments which are neither failed nor refunded hold.
UnitsHeld ==
    SumFunctionOnSet(UnitsOf,
          {i \in Investments : status[i] \notin {"none", "FAILED", "REFUNDED"}})

\* The state of a deal, its investments and the requests in progress.
TypeOK ==
    /\ LifecycleTypeOK
    /\ status \in [Investments ->
                      {"none", "PENDING", "CONFIRMED", "FAILED", "REFUNDED"}]
    /\ escrow \in Nat
    /\ booked \in [Keys -> Nat]
    /\ deposited \in Nat
    /\ \A w \in Workers :
          task[w].op \in {"none", "edit", "transition", "create", "include", "confirm",
                         "fail", "weigh", "refund"}

(***************************************************************************)
(* confirm writes totalInvested from a deal it read before it had the      *)
(* deal's lock.  However the requests overlap, the total only ever falls   *)
(* behind what was recorded as deposited in the escrow account, so a deal  *)
(* is never FUNDED on fewer deposits than its target.  (That it is backed  *)
(* by as many postings is not true: of two confirmations of one investment *)
(* one can read the investment before the other's commit and the deal      *)
(* after it.  It then counts and deposits the amount a second time, while  *)
(* the posting's key lets it be booked only once.)                         *)
(***************************************************************************)
TotalIsDeposited ==
    /\ deal.total <= deposited
    /\ deal.status = "FUNDED" => deposited >= Target

(***************************************************************************)
(* "Race condition (investment) ... Distributed locking (Redis), database  *)
(* transactions" (docs/security/10-threat-model.md:42) and "Deal funding   *)
(* not exceeded" (docs/architecture/05-transaction-lifecycle.md:101): no   *)
(* more units are held than the deal has.  create sums the units before    *)
(* its transaction and takes no lock.                                      *)
(***************************************************************************)
NotOversold == UnitsHeld <= DealUnits

(***************************************************************************)
(* How far NotOversold can fail: by at most the units of one request for   *)
(* each further worker, and not at all when the requests are served one by *)
(* one.                                                                    *)
(***************************************************************************)
OversoldByOverlapOnly ==
    UnitsHeld <= DealUnits +
        IF overlapped
        THEN (Cardinality(Workers) - 1) * Max({UnitsOf[i] : i \in Investments})
        ELSE 0

SoldOut == SumFunctionOnSet(UnitsOf, In({"CONFIRMED"})) = DealUnits

(***************************************************************************)
(* While the requests are served one by one, the escrow balance is what    *)
(* confirm has moved in less what refund has moved out, totalInvested is   *)
(* what was moved in, and an investor is refunded in full: refund's cap at *)
(* the escrow balance never bites.  With all units confirmed the deal is   *)
(* FUNDED, or lacks what the rounding of the price takes: at most half of  *)
(* the last digit for each unit.                                           *)
(***************************************************************************)
BooksAgreeOneByOne ==
    overlapped \/
      /\ escrow = Posted("confirm") - Posted("refund")
      /\ deal.total = Posted("confirm")
      /\ \A i \in Investments :
            status[i] = "REFUNDED" => booked[<<"refund", i>>] = Amount(i)
      /\ deal.status = "FUNDING" /\ SoldOut => 2 * (Target - deal.total) <= DealUnits

(***************************************************************************)
(* While the requests are served one by one, an investment has one         *)
(* outcome: its receivable is not reversed by fail and its money moved by  *)
(* confirm both, and its status says which of the two was booked.          *)
(***************************************************************************)
OneOutcomeOneByOne ==
    overlapped \/
      \A i \in Investments :
        /\ booked[<<"fail", i>>] > 0 <=> status[i] = "FAILED"
        /\ booked[<<"confirm", i>>] > 0 <=> status[i] \in {"CONFIRMED", "REFUNDED"}

Reviewed == DOMAIN DealTransitions \ {"none", "DRAFT", "CANCELLED"}
Offered == {"APPROVED", "SMART_CONTRACT_CREATED", "PUBLISHED", "FUNDING", "FUNDED"}

(***************************************************************************)
(* What a deal that was submitted offers is complete, however requests     *)
(* overlap; while they are served one by one, it offers from its approval  *)
(* on what was approved.                                                   *)
(***************************************************************************)
OfferedAsApproved ==
    /\ deal.status \in Reviewed => Economical(offer) /\ offer.text # NoText
    /\ ~overlapped => (deal.status \in Offered => offer = approved)

(***************************************************************************)
(* "Investor hasn't exceeded max investments"                              *)
(* (docs/architecture/05-transaction-lifecycle.md:99): what an investor    *)
(* has confirmed in a deal stays within the deal's maximumInvestment.      *)
(* create does not count the investor's PENDING investments, so two that   *)
(* fit one by one are both confirmed.                                      *)
(***************************************************************************)
InvestorWithinMaximum ==
    \A i \in Investments : Invested(InvestorOf[i]) <= offer.maximum

(***************************************************************************)
(* "Deal cancelled (terminal)" (docs/architecture/04-deal-lifecycle.md:113,*)
(* and DEAL_TRANSITIONS): a CANCELLED deal keeps its status.  confirm sets *)
(* FUNDED without asking DEAL_TRANSITIONS.                                 *)
(***************************************************************************)
CancelledIsFinal ==
    [][deal.status = "CANCELLED" => deal'.status = "CANCELLED"]_vars
=============================================================================
