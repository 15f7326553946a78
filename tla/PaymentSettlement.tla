------------------------- MODULE PaymentSettlement -------------------------
(***************************************************************************)
(* How a payment is taken from the provider to the books: PaymentsService  *)
(* (createPayment, processPayment, handleWebhook, verifyPayment,           *)
(* reconcilePayments, finalizePayment, failPayment) with the part of       *)
(* InvestmentsService that finalizePayment calls (confirm), run by several *)
(* requests at once.  The state is the database; a step is what happens    *)
(* between two awaits of a request: one statement, or one database         *)
(* transaction whose first update locks the row the later ones depend on.  *)
(*                                                                         *)
(* A worker serves one request.  A provider charge is named after the      *)
(* worker that created it: every accepted provider.createPayment returns a *)
(* reference of its own.  Postings go through createTransaction, which     *)
(* module Ledger models; here it is a count per idempotency key.           *)
(***************************************************************************)
EXTENDS Integers, FiniteSets, Functions

CONSTANTS
    Payments,       \* payment ids
    Investments,    \* investment ids, all of one deal
    InvestmentOf,   \* the investment each payment is for, or NoInvestment
    Amount,         \* the amount of each investment
    Target,         \* the deal's fundingTarget
    Reconciled,     \* the payments reconcilePayments is run on
    Workers,        \* requests, numbered as they begin
    Inline,         \* the payments whose provider has buildWebhook (the mock)
    Traffics,       \* what the surroundings may ask for, see traffic
    NoPayment, NoInvestment, NoCharge, NoEvent

ASSUME ConfigurationAssumption ==
    /\ IsFiniteSet(Investments)
    /\ IsFiniteSet(Workers) /\ Workers \subseteq Nat
    /\ InvestmentOf \in [Payments -> Investments \cup {NoInvestment}]
    /\ Amount \in [Investments -> Nat]
    /\ Inline \subseteq Payments
    /\ Target \in Nat
    /\ Traffics \subseteq [payments : SUBSET Payments, requests : Nat,
                           atOnce : Nat, faults : Nat]
    /\ NoPayment \notin Payments
    /\ NoInvestment \notin Investments
    /\ NoCharge \notin Workers

VARIABLES
    payment,    \* the payments table: status and providerReference
    attempt,    \* the paymentAttempt row each worker created
    charge,     \* what the provider did with each worker's charge
    webhook,    \* the paymentWebhook row of each event: none, stored, processed
    investment, \* the status of each investment
    deal,       \* totalInvested and whether the deal became FUNDED
    escrow,     \* the balance of the deal's escrowAccount
    posted,     \* how often each ledger key was posted
    task,       \* where each worker stands and what it has read
    faults,     \* crashes, timeouts and rolled back transactions so far
    traffic,    \* the payments there are, and the bounds on requests, on those
                \* served at the same time and on faults: chosen at the start
    failing,    \* the investments that a request to fail them found PENDING
    interrupted \* history: payments whose request was cut off while confirming

store == <<payment, attempt, charge, webhook, investment, deal, escrow, posted>>
vars == <<store, task, faults, failing, interrupted, traffic>>

Keys == {<<"settlement", p>> : p \in Payments} \cup
        {<<"confirm", i>> : i \in Investments}

\* An event: the charge it is about and what it says.
Event == [charge : Workers, type : {"SUCCEEDED", "FAILED", "REFUND"}]

ASSUME EventAssumption == NoEvent \notin Event

\* What a request works on: the payment it was called for, the payment found
\* by reference, the row read last, the event, and the deal's totalInvested read.
Idle == [pc |-> "idle", kind |-> "none", payment |-> NoPayment,
         found |-> NoPayment, seen |-> NoPayment, event |-> NoEvent, total |-> 0]

PaymentTask(pc, kind, p) ==
    [Idle EXCEPT !.pc = pc, !.kind = kind, !.payment = p, !.found = p,
                 !.seen = payment[p]]

Busy == {w \in Workers : task[w].pc \notin {"idle", "end"}}

\* The next request begins.
Begin(w, t) ==
    /\ task[w].pc = "idle" /\ w <= traffic.requests
    /\ \A v \in Workers : task[v].pc = "idle" => w <= v
    /\ Cardinality(Busy) < traffic.atOnce
    /\ task' = [task EXCEPT ![w] = t]
    /\ UNCHANGED <<store, faults, failing, interrupted>>

\* A worker goes on, with what it has read; one that ends forgets it.
Continue(w, t, pc) ==
    task' = [task EXCEPT ![w] =
        IF pc = "end"
        THEN [Idle EXCEPT !.pc = "end", !.payment = t.payment]
        ELSE [t EXCEPT !.pc = pc]]

Goto(w, pc) == Continue(w, task[w], pc)

\* Where a worker goes when finalizePayment or confirm returns to it: back
\* into handleWebhook, or to its end.
Returned(w) == IF task[w].event = NoEvent THEN "end" ELSE "mark"

\* Where an exception takes it: only processPayment catches, from the creation
\* of the charge on; of its catch block, the attempt's update is caught too.
Thrown(w) ==
    CASE task[w].pc = "catch" -> "fail"
      [] task[w].pc \notin {"load", "attempt", "catch"} /\ task[w].kind = "process"
            -> "catch"
      [] OTHER -> "end"

\* In the catch block, or on a rejection, the request fails its own payment.
Caught(w) == [task[w] EXCEPT !.kind = "caught", !.found = task[w].payment]

\* finalizePayment returns at once on a payment that was read as COMPLETED.
Finalize(w, seen) == IF seen.status = "COMPLETED" THEN Returned(w) ELSE "settle"

\* createTransaction is idempotent on its key.
Post(k) == [posted EXCEPT ![k] = IF @ = 0 THEN 1 ELSE @]

\* The attempts of p that updateMany finds in PROCESSING get a new status.
CloseAttempts(p, status) ==
    [w \in Workers |-> IF task[w].payment = p /\ attempt[w] = "PROCESSING"
                       THEN status ELSE attempt[w]]

----------------------------------------------------------------------------
Init ==
    /\ payment = [p \in Payments |-> [status |-> "none", ref |-> NoCharge]]
    /\ attempt = [w \in Workers |-> "none"]
    /\ charge = [w \in Workers |-> "none"]
    /\ webhook = [e \in Event |-> "none"]
    /\ investment = [i \in Investments |-> "PENDING"]
    /\ deal = [total |-> 0, funded |-> FALSE]
    /\ escrow = 0
    /\ posted = [k \in Keys |-> 0]
    /\ task = [w \in Workers |-> Idle]
    /\ faults = 0
    /\ failing = {}
    /\ interrupted = {}
    /\ traffic \in Traffics

(***************************************************************************)
(* Requests.                                                               *)
(***************************************************************************)
\* createPayment: its reads and its insert are one step, since nobody looks
\* at the payment of an investment that changes in between before it exists.
CreatePayment(p) ==
    /\ p \in traffic.payments
    /\ payment[p].status = "none"
    /\ InvestmentOf[p] \in Investments => investment[InvestmentOf[p]] = "PENDING"
    /\ payment' = [payment EXCEPT ![p].status = "PENDING"]
    /\ UNCHANGED <<attempt, charge, webhook, investment, deal, escrow, posted,
                   task, faults, failing, interrupted>>

\* Mutant: a payment that is being processed is processed again.
Processable_InFlight(status) == status # "COMPLETED"

\* COMPLETED returns the payment, PROCESSING is a conflict, the rest goes on.
Processable(status) == status \notin {"COMPLETED", "PROCESSING"}

\* processPayment is called, and reads the payment.
RequestProcess(w, p) ==
    /\ payment[p].status # "none"
    /\ Begin(w, IF Processable(payment[p].status)
                THEN PaymentTask("attempt", "process", p)
                ELSE [Idle EXCEPT !.pc = "end", !.payment = p])

\* reconcilePayments on one stale payment: one without a reference goes
\* through processPayment, one with a reference is verified with the provider.
Reconcile(w, p) ==
    /\ p \in Reconciled
    /\ payment[p].status \in {"PENDING", "PROCESSING"}
    /\ Begin(w, IF payment[p].ref = NoCharge
                THEN PaymentTask("load", "process", p)
                ELSE PaymentTask("ask", "reconcile", p))

\* A remote provider delivers an event, again if it likes.
Deliver(w, e) ==
    /\ task[e.charge].payment \notin Inline
    /\ charge[e.charge] \in CASE e.type = "SUCCEEDED" -> {"paid", "refunded"}
                              [] e.type = "FAILED" -> {"declined"}
                              [] e.type = "REFUND" -> {"refunded"}
    /\ Begin(w, [Idle EXCEPT !.pc = "lookup", !.kind = "webhook", !.event = e])

(***************************************************************************)
(* processPayment.                                                         *)
(***************************************************************************)
\* The read of a payment that reconcilePayments resubmits.
Load(w) ==
    LET now == payment[task[w].payment] IN
    /\ task[w].pc = "load"
    /\ Continue(w, [task[w] EXCEPT !.seen = now],
                IF Processable(now.status) THEN "attempt" ELSE "end")
    /\ UNCHANGED <<store, faults, failing, interrupted>>

CreateAttempt(w) ==
    /\ task[w].pc = "attempt"
    /\ attempt' = [attempt EXCEPT ![w] = "PROCESSING"]
    /\ Goto(w, "charge")
    /\ UNCHANGED <<payment, charge, webhook, investment, deal, escrow, posted,
                   faults, failing, interrupted>>

\* The provider takes the charge; the mock provider collects it at once.
NewCharge(w) == IF task[w].payment \in Inline THEN "paid" ELSE "open"

Charge(w) ==
    /\ task[w].pc = "charge"
    /\ charge' = [charge EXCEPT ![w] = NewCharge(w)]
    /\ Goto(w, "record")
    /\ UNCHANGED <<payment, attempt, webhook, investment, deal, escrow, posted,
                   faults, failing, interrupted>>

\* The provider answers success: false, which ends like an exception.
ChargeRejected(w) ==
    /\ task[w].pc = "charge"
    /\ task[w].payment \notin Inline
    /\ Goto(w, "rejected")
    /\ UNCHANGED <<store, faults, failing, interrupted>>

InlineEvent(w) == [charge |-> w, type |-> "SUCCEEDED"]

\* The transaction that records the reference, whatever the status now is; then
\* the inline webhook of the mock provider, or verifyPayment.
RecordReference(w) ==
    LET p == task[w].payment IN
    /\ task[w].pc = "record"
    /\ payment' = [payment EXCEPT ![p] = [status |-> "PROCESSING", ref |-> w]]
    /\ attempt' = [attempt EXCEPT ![w] = "PROCESSING"]
    /\ IF p \in Inline
       THEN Continue(w, [task[w] EXCEPT !.event = InlineEvent(w)], "lookup")
       ELSE Goto(w, "reread")
    /\ UNCHANGED <<charge, webhook, investment, deal, escrow, posted, faults,
                   failing, interrupted>>

\* The catch block, like the branch of a rejected charge, marks the attempt and
\* then fails the payment, where nothing is caught any more.
CatchError(w) ==
    /\ task[w].pc \in {"rejected", "catch"}
    /\ attempt' = [attempt EXCEPT ![w] = "FAILED"]
    /\ Continue(w, Caught(w), "fail")
    /\ UNCHANGED <<payment, charge, webhook, investment, deal, escrow, posted,
                   faults, failing, interrupted>>

\* failPayment, whatever the status now is.
FailPayment(w) ==
    LET p == task[w].found IN
    /\ task[w].pc = "fail"
    /\ payment' = [payment EXCEPT ![p].status = "FAILED"]
    /\ attempt' = CloseAttempts(p, "FAILED")
    /\ Goto(w, IF task[w].kind = "webhook" THEN "mark" ELSE "end")
    /\ UNCHANGED <<charge, webhook, investment, deal, escrow, posted, faults,
                   failing, interrupted>>

(***************************************************************************)
(* handleWebhook.                                                          *)
(***************************************************************************)
\* The event's row and the payment with its reference; an event that was
\* stored before is a duplicate, whether or not it was processed.
LookUpEvent(w) ==
    LET e == task[w].event
        found == {p \in Payments : payment[p].ref = e.charge}
    IN  /\ task[w].pc = "lookup"
        /\ IF webhook[e] # "none"
           THEN Goto(w, "end")
           ELSE \E p \in IF found = {} THEN {NoPayment} ELSE found :
                   Continue(w, [task[w] EXCEPT
                       !.found = p,
                       !.seen = IF p = NoPayment THEN NoPayment ELSE payment[p]],
                       "store")
        /\ UNCHANGED <<store, faults, failing, interrupted>>

\* Mutant: a failure is acted on without a payment to fail.
EventStep_Unmatched(w) ==
    LET t == task[w] IN
    CASE t.event.type = "FAILED" -> "fail"
      [] t.event.type # "FAILED" /\ t.found = NoPayment -> "mark"
      [] t.event.type = "REFUND" /\ t.found # NoPayment -> "refund"
      [] t.event.type = "SUCCEEDED" /\ t.found # NoPayment -> Finalize(w, t.seen)

\* What the stored event asks for: nothing when no payment has its reference.
EventStep(w) ==
    LET t == task[w] IN
    CASE t.found = NoPayment -> "mark"
      [] t.found # NoPayment /\ t.event.type = "FAILED" -> "fail"
      [] t.found # NoPayment /\ t.event.type = "REFUND" -> "refund"
      [] t.found # NoPayment /\ t.event.type = "SUCCEEDED" -> Finalize(w, t.seen)

\* The insert of the event, which the unique key lets through once.
StoreEvent(w) ==
    LET e == task[w].event
        new == webhook[e] = "none"
    IN  /\ task[w].pc = "store"
        /\ webhook' = IF new THEN [webhook EXCEPT ![e] = "stored"] ELSE webhook
        /\ Goto(w, IF new THEN EventStep(w) ELSE Thrown(w))
        /\ UNCHANGED <<payment, attempt, charge, investment, deal, escrow,
                       posted, faults, failing, interrupted>>

RefundEvent(w) ==
    /\ task[w].pc = "refund"
    /\ payment' = [payment EXCEPT ![task[w].found].status = "REFUNDED"]
    /\ Goto(w, "mark")
    /\ UNCHANGED <<attempt, charge, webhook, investment, deal, escrow, posted,
                   faults, failing, interrupted>>

MarkProcessed(w) ==
    /\ task[w].pc = "mark"
    /\ webhook' = [webhook EXCEPT ![task[w].event] = "processed"]
    /\ Goto(w, "end")
    /\ UNCHANGED <<payment, attempt, charge, investment, deal, escrow, posted,
                   faults, failing, interrupted>>

(***************************************************************************)
(* verifyPayment, and the same question as reconcilePayments asks it.      *)
(***************************************************************************)
Reread(w) ==
    LET now == payment[task[w].payment] IN
    /\ task[w].pc = "reread"
    /\ Continue(w, [task[w] EXCEPT !.seen = now],
                IF now.status = "COMPLETED" THEN "end" ELSE "ask")
    /\ UNCHANGED <<store, faults, failing, interrupted>>

\* Mutant: a charge the provider has not collected yet counts as paid.
Collected_Open(c) == charge[c] \in {"open", "paid"}

Collected(c) == charge[c] = "paid"

Ask(w) ==
    LET seen == task[w].seen IN
    /\ task[w].pc = "ask"
    /\ Goto(w, CASE Collected(seen.ref) -> Finalize(w, seen)
                 [] charge[seen.ref] = "declined" -> "fail"
                 [] OTHER -> "end")
    /\ UNCHANGED <<store, faults, failing, interrupted>>

(***************************************************************************)
(* finalizePayment and confirm.                                            *)
(***************************************************************************)
\* Mutant: the linked investment is forgotten.
AfterSettlement_Forgets(w, p) == Returned(w)

\* A payment that is not for an investment funds a wallet.
AfterSettlement(w, p) ==
    IF InvestmentOf[p] = NoInvestment THEN Returned(w) ELSE "confirm"

\* The first transaction of finalizePayment: its update locks the payment.
Settle(w) ==
    LET p == task[w].found IN
    /\ task[w].pc = "settle"
    /\ payment' = [payment EXCEPT ![p].status = "COMPLETED"]
    /\ attempt' = CloseAttempts(p, "COMPLETED")
    /\ posted' = Post(<<"settlement", p>>)
    /\ Goto(w, AfterSettlement(w, p))
    /\ UNCHANGED <<charge, webhook, investment, deal, escrow, faults, failing,
                   interrupted>>

\* Mutant: an investment that is confirmed already is confirmed again.
ConfirmStep_Again(w, status) == IF status = "FAILED" THEN Thrown(w) ELSE "include"

\* A CONFIRMED investment is returned as it is, a FAILED one is a conflict.
ConfirmStep(w, status) ==
    CASE status = "CONFIRMED" -> Returned(w)
      [] status = "FAILED" -> Thrown(w)
      [] status = "PENDING" -> "include"

\* confirm reads the investment with include: { deal: true }, which is a SELECT
\* on each table, outside its transaction: first the investment,
ReadInvestment(w) ==
    /\ task[w].pc = "confirm"
    /\ Goto(w, ConfirmStep(w, investment[InvestmentOf[task[w].found]]))
    /\ UNCHANGED <<store, faults, failing, interrupted>>

\* then the deal, which others may have written in between.
ReadDeal(w) ==
    /\ task[w].pc = "include"
    /\ Continue(w, [task[w] EXCEPT !.total = deal.total], "book")
    /\ UNCHANGED <<store, faults, failing, interrupted>>

\* Mutant: the escrow balance is written from the amount alone.
Deposited_Overwrites(i) == Amount[i]

Deposited(i) == escrow + Amount[i]

NewTotal(w, i) == task[w].total + Amount[i]

\* The writes of confirm: the updates lock the investment and then the deal
\* until the transaction ends, so the escrow balance is read under that lock;
\* totalInvested is written from the deal that was read before.
BookInvestment(w) ==
    LET i == InvestmentOf[task[w].found]
        total == NewTotal(w, i)
    IN  /\ task[w].pc = "book"
        /\ investment' = [investment EXCEPT ![i] = "CONFIRMED"]
        /\ deal' = [total |-> total, funded |-> deal.funded \/ total >= Target]
        /\ posted' = Post(<<"confirm", i>>)
        /\ escrow' = Deposited(i)
        /\ Goto(w, Returned(w))
        /\ UNCHANGED <<payment, attempt, charge, webhook, faults, failing,
                       interrupted>>

(***************************************************************************)
(* The surroundings.                                                       *)
(***************************************************************************)
\* A provider decides about a charge; only a remote one gives money back.
Collect(w, outcome) ==
    /\ task[w].payment \notin Inline
    /\ <<charge[w], outcome>> \in {<<"open", "paid">>, <<"open", "declined">>,
                                  <<"paid", "refunded">>}
    /\ charge' = [charge EXCEPT ![w] = outcome]
    /\ UNCHANGED <<payment, attempt, webhook, investment, deal, escrow, posted,
                   task, faults, failing, interrupted>>

\* InvestmentsService.fail, as far as a payment can tell, finds the investment
\* PENDING outside its transaction (one that no payment is for makes no difference),
FindPending(i) ==
    /\ i \in {InvestmentOf[p] : p \in traffic.payments}
    /\ investment[i] = "PENDING"
    /\ failing' = failing \cup {i}
    /\ UNCHANGED <<store, task, faults, interrupted>>

\* and writes FAILED later, whatever the status now is.  Any number of requests
\* may have found it PENDING, so the write may come at any time, and again.
FailInvestment(i) ==
    /\ i \in failing
    /\ investment' = [investment EXCEPT ![i] = "FAILED"]
    /\ UNCHANGED <<payment, attempt, charge, webhook, deal, escrow, posted, task,
                   faults, failing, interrupted>>

Fault == faults < traffic.faults /\ faults' = faults + 1

\* A request that is cut off between the settlement and the confirmation.
Interrupt(w) ==
    interrupted' = IF task[w].pc \in {"confirm", "include", "book"}
                   THEN interrupted \cup {task[w].found} ELSE interrupted

\* The API process dies: the request ends where it is.
Die(w) ==
    /\ Fault
    /\ w \in Busy
    /\ Goto(w, "end")
    /\ Interrupt(w)
    /\ UNCHANGED <<store, failing>>

\* A call throws: the provider cannot be reached, or the database refuses a
\* statement or rolls a transaction back (a deadlock, a timeout).
Throw(w) ==
    /\ Fault
    /\ w \in Busy
    /\ Continue(w, IF task[w].pc = "catch" THEN Caught(w) ELSE task[w], Thrown(w))
    /\ Interrupt(w)
    /\ UNCHANGED <<store, failing>>

\* provider.createPayment throws after the provider took the charge.
ChargeUnanswered(w) ==
    /\ Fault
    /\ task[w].pc = "charge"
    /\ charge' = [charge EXCEPT ![w] = NewCharge(w)]
    /\ Goto(w, "catch")
    /\ UNCHANGED <<payment, attempt, webhook, investment, deal, escrow, posted,
                   failing, interrupted>>

----------------------------------------------------------------------------
Work(w) ==
    \/ Load(w)
    \/ CreateAttempt(w)
    \/ Charge(w)
    \/ ChargeRejected(w)
    \/ RecordReference(w)
    \/ CatchError(w)
    \/ FailPayment(w)
    \/ LookUpEvent(w)
    \/ StoreEvent(w)
    \/ RefundEvent(w)
    \/ MarkProcessed(w)
    \/ Reread(w)
    \/ Ask(w)
    \/ Settle(w)
    \/ ReadInvestment(w)
    \/ ReadDeal(w)
    \/ BookInvestment(w)

Step ==
    \/ \E p \in Payments : CreatePayment(p)
    \/ \E w \in Workers, p \in Payments : RequestProcess(w, p) \/ Reconcile(w, p)
    \/ \E w \in Workers, e \in Event : Deliver(w, e)
    \/ \E w \in Workers : Work(w)
    \/ \E w \in Workers, o \in {"paid", "declined", "refunded"} : Collect(w, o)
    \/ \E i \in Investments : FindPending(i) \/ FailInvestment(i)
    \/ \E w \in Workers : Die(w) \/ Throw(w) \/ ChargeUnanswered(w)

Next == Step /\ UNCHANGED traffic

Spec == Init /\ [][Next]_vars

\* A request that was accepted is worked on until it ends.
FairSpec == Spec /\ \A w \in Workers : WF_vars(Work(w) /\ UNCHANGED traffic)

----------------------------------------------------------------------------
(***************************************************************************)
(* Properties.                                                             *)
(***************************************************************************)
\* Every table row and every request is in a state the code can put it in.
TypeOK ==
    /\ payment \in [Payments ->
          [status : {"none", "PENDING", "PROCESSING", "COMPLETED", "FAILED",
                     "REFUNDED"},
           ref : Workers \cup {NoCharge}]]
    /\ attempt \in [Workers -> {"none", "PROCESSING", "COMPLETED", "FAILED"}]
    /\ charge \in [Workers -> {"none", "open", "paid", "declined", "refunded"}]
    /\ webhook \in [Event -> {"none", "stored", "processed"}]
    /\ investment \in [Investments -> {"PENDING", "CONFIRMED", "FAILED"}]
    /\ deal \in [total : Nat, funded : BOOLEAN]
    /\ escrow \in Nat /\ faults \in Nat /\ traffic \in Traffics
    /\ posted \in [Keys -> Nat]
    /\ failing \subseteq Investments /\ interrupted \subseteq Payments
    /\ \A w \in Workers :
          /\ task[w].pc \in {"idle", "load", "attempt", "charge", "rejected",
                "record", "lookup", "store", "refund", "mark", "reread", "ask",
                "settle", "confirm", "include", "book", "catch", "fail", "end"}
          /\ task[w].pc \in {"settle", "confirm", "include", "book", "fail",
                             "refund"} => task[w].found \in Payments
          /\ task[w].pc \in {"lookup", "store", "mark"} =>
                task[w].event \in Event

BookedAmount ==
    SumFunction([i \in Investments |-> posted[<<"confirm", i>>] * Amount[i]])

\* A provider has collected a charge that was created for p, though it may have
\* given the money back since.
CollectedFor(p) == \E w \in Workers :
    task[w].payment = p /\ charge[w] \in {"paid", "refunded"}

\* Only collected money reaches the books: whoever settles a payment, a request,
\* an event or reconciliation, on however old a read of it, the provider has
\* collected a charge made for that very payment; and an investment is only
\* confirmed once one of its own payments is settled.
OnlyCollectedIsBooked ==
    /\ \A p \in Payments : posted[<<"settlement", p>>] > 0 => CollectedFor(p)
    /\ \A i \in Investments : investment[i] = "CONFIRMED" =>
          \E p \in Payments : /\ InvestmentOf[p] = i
                              /\ posted[<<"settlement", p>>] > 0

\* When requests do not overlap and nothing fails, a payer never stands to pay
\* twice: however late events arrive and whatever is retried, a payment has at
\* most one charge that is open or collected.  (Of a FAILED investment this is
\* not true: confirm refuses it, which fails the payment that was just settled,
\* and a FAILED payment may be processed again.)
ChargedOnce ==
    \A p \in Payments :
        \/ traffic.atOnce # 1
        \/ faults > 0
        \/ InvestmentOf[p] \in Investments /\ investment[InvestmentOf[p]] = "FAILED"
        \/ Cardinality({w \in Workers : task[w].payment = p
                          /\ charge[w] \in {"open", "paid"}}) <= 1

\* Overlapping confirmations never lose a deposit: the deal's escrow account
\* holds at least what the ledger says was moved into it, and at least what the
\* deal counts as invested, by which it becomes FUNDED.  (That the total counts
\* no more than the ledger is not true: confirm reads the investment and its deal
\* one after the other, and may read a total that counts the investment already
\* and add its amount to it again.)
NoDepositLost ==
    /\ escrow >= BookedAmount
    /\ escrow >= deal.total
    /\ deal.funded => escrow >= Target

\* While requests are served one by one, the escrow balance, the deal's
\* totalInvested and the ledger agree on what was invested, whatever fails.
BooksAgree ==
    traffic.atOnce = 1 => escrow = BookedAmount /\ deal.total = BookedAmount

\* "Books the movement of funds into escrow" (investments.service.ts:203),
\* where payments are to be processed by "webhook or poll, not both"
\* (docs/architecture/05-transaction-lifecycle.md:331): what is deposited in
\* escrow is what was booked.
EscrowIsBooked == escrow = BookedAmount

\* Whoever settles a payment goes on to confirm its investment, whatever other
\* requests do meanwhile: a settled payment whose investment is still PENDING is in
\* the hands of a request that confirms it, unless a fault hit one that did.
SettledIsInHand ==
    \A p \in Payments :
        \/ posted[<<"settlement", p>>] = 0
        \/ InvestmentOf[p] = NoInvestment
        \/ investment[InvestmentOf[p]] # "PENDING"
        \/ p \in interrupted
        \/ \E w \in Workers : task[w].found = p
                              /\ task[w].pc \in {"confirm", "include", "book"}

\* "books cash against the receivable, then confirms the linked investment"
\* (payments.service.ts:361): a settled payment's investment is confirmed in
\* the end, unless it was failed.
SettledIsConfirmed ==
    \A p \in Payments : InvestmentOf[p] # NoInvestment =>
        (posted[<<"settlement", p>>] > 0
            ~> investment[InvestmentOf[p]] \in {"CONFIRMED", "FAILED"})
=============================================================================
