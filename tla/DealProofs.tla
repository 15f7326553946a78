----------------------------- MODULE DealProofs -----------------------------
(***************************************************************************)
(* What holds of DealFunding for any drafts, edits, investments and number *)
(* of requests.  However the requests overlap: a deal under review is      *)
(* complete, one that is FUNDED has its target in deposits, and it gives   *)
(* away at most the units of one request for each further worker beyond    *)
(* those it has.  As long as they do not overlap: a deal offers what was   *)
(* approved, an investment has one outcome, and escrow, the deal's total   *)
(* and the ledger agree.                                                   *)
(***************************************************************************)
EXTENDS DealFunding, SumLemmas

Statuses == {"none", "DRAFT", "SUBMITTED", "UNDER_REVIEW", "APPROVED", "REJECTED",
             "SMART_CONTRACT_CREATED", "PUBLISHED", "FUNDING", "FUNDED", "CANCELLED"}

Fields == {"target", "units", "minimum", "maximum", "price", "project", "text"}

Value == Nat \cup {NoProject, NoText} \cup {d.project : d \in Drafts}
         \cup UNION {{e[f] : f \in DOMAIN e} : e \in Edits}

Offers == {o \in [Fields -> Value] : \A f \in Economics \cup {"price"} : o[f] \in Nat}

Paths == {<<"SUBMITTED">>, <<"UNDER_REVIEW", "APPROVED">>, <<"UNDER_REVIEW", "REJECTED">>,
          <<"APPROVED">>, <<"REJECTED">>, <<"SMART_CONTRACT_CREATED">>, <<"PUBLISHED">>,
          <<"CANCELLED">>}

\* What a worker has in hand.
Editing ==
    {t \in [op : {"edit"}, edit : Edits, seen : Offers, pc : {"text", "fields"}] :
        t.pc = "text" => "text" \in DOMAIN t.edit}
Transitioning == [op : {"transition"}, pc : {"write", "read"}, path : Paths]
Creating == [op : {"create"}, inv : Investments]
Confirming == [op : {"confirm"}, inv : Investments, total : Nat]
Including == [op : {"include"}, inv : Investments]
Failing == [op : {"fail"}, inv : Investments]
Weighing == [op : {"weigh"}, inv : Investments]
Refunding == [op : {"refund"}, inv : Investments, balance : Nat]

InHand == {None} \cup Editing \cup Transitioning \cup Creating \cup Including
          \cup Confirming \cup Failing \cup Weighing \cup Refunding

Shapes ==
    /\ deal \in [status : Statuses, total : Nat]
    /\ offer \in Offers
    /\ approved \in Offers
    /\ edits \in 0 .. MaxEdits
    /\ overlapped \in BOOLEAN
    /\ status \in [Investments -> {"none", "PENDING", "CONFIRMED", "FAILED", "REFUNDED"}]
    /\ escrow \in Nat
    /\ booked \in [Keys -> Nat]
    /\ deposited \in Nat
    /\ task \in [Workers -> InHand]

\* Funding has begun, perhaps only for a request or an investment that is left.
Opened ==
    \/ deal.status \in {"FUNDING", "FUNDED"}
    \/ \E i \in Investments : status[i] # "none"
    \/ \E w \in Workers : task[w].op \in {"create", "include", "confirm", "fail", "weigh", "refund"}

\* From then on nobody edits or reviews the deal any more.
OpenedForGood ==
    Opened => /\ deal.status \in {"FUNDING", "FUNDED", "CANCELLED"}
              /\ \A w \in Workers : /\ task[w].op # "edit"
                                    /\ task[w].op = "transition" => task[w].path = <<"CANCELLED">>

\* A deal that was created makes sense, and has terms from its submission on.
Sound ==
    /\ deal.status # "none" => Economical(offer)
    /\ deal.status = "none" => \A w \in Workers : task[w] = None
    /\ deal.status \in Reviewed \/ Opened => offer.text # NoText
    /\ \A w \in Workers :
          task[w].op = "transition" /\ task[w].path # <<"CANCELLED">> => offer.text # NoText

\* What is asked for costs something.
Priced ==
    /\ \A i \in Investments : status[i] # "none" => Amount(i) > 0
    /\ \A w \in Workers :
          task[w].op \in {"create", "include", "confirm", "fail", "weigh", "refund"} => Amount(task[w].inv) > 0

\* While requests are served one by one, what a request has checked still holds.
Fits(t) ==
    /\ t.op = "edit" => deal.status \in {"DRAFT", "SUBMITTED"}
    /\ t.op = "transition" =>
          /\ t.pc = "write" => Head(t.path) \in DealTransitions[deal.status]
          /\ t.pc = "read" => /\ deal.status = "UNDER_REVIEW"
                              /\ t.path \in {<<"APPROVED">>, <<"REJECTED">>}
    /\ t.op = "create" => status[t.inv] = "none"
    /\ t.op \in {"include", "confirm", "fail"} => status[t.inv] = "PENDING"
    /\ t.op \in {"weigh", "refund"} => status[t.inv] = "CONFIRMED"

OneByOne ==
    ~ overlapped =>
        /\ \A v, w \in Workers : task[v] # None /\ task[w] # None => v = w
        /\ \A w \in Workers : Fits(task[w])
        /\ deal.status \in Offered \/ Opened => offer = approved

IInv ==
    /\ Shapes
    /\ OpenedForGood
    /\ Sound
    /\ Priced
    /\ OneByOne
    /\ OneOutcomeOneByOne

LEMMA OperationTells ==
    ASSUME NEW t \in InHand
    PROVE  /\ t.op = "none" <=> t = None
           /\ t.op = "edit" => t \in Editing
           /\ t.op = "transition" => t \in Transitioning
           /\ t.op = "create" => t \in Creating
           /\ t.op = "include" => t \in Including
           /\ t.op = "confirm" => t \in Confirming
           /\ t.op = "fail" => t \in Failing
           /\ t.op = "weigh" => t \in Weighing
           /\ t.op = "refund" => t \in Refunding
           /\ t.op \in {"none", "edit", "transition", "create", "include", "confirm",
                         "fail", "weigh", "refund"}
  BY DEF InHand, None, Editing, Transitioning, Creating, Including, Confirming, Failing,
         Weighing, Refunding

LEMMA PathsAndStatuses ==
    ASSUME NEW s \in Statuses, NEW path \in Paths, Head(path) \in DealTransitions[s]
    PROVE  /\ s \notin {"none", "FUNDED", "CANCELLED", "REJECTED"}
           /\ s = "FUNDING" => path = <<"CANCELLED">>
           /\ path = <<"CANCELLED">> <=> Head(path) = "CANCELLED"
           /\ Head(path) \in {"SUBMITTED", "UNDER_REVIEW", "REJECTED", "APPROVED",
                              "SMART_CONTRACT_CREATED", "PUBLISHED", "CANCELLED"}
           /\ Head(path) = "SUBMITTED" => s = "DRAFT"
           /\ Head(path) = "UNDER_REVIEW" => s = "SUBMITTED"
           /\ Head(path) \in {"APPROVED", "REJECTED"} => s = "UNDER_REVIEW"
           /\ Head(path) = "SMART_CONTRACT_CREATED" => s = "APPROVED"
           /\ Head(path) = "PUBLISHED" => s = "SMART_CONTRACT_CREATED"
<1>1. /\ path = <<"CANCELLED">> <=> Head(path) = "CANCELLED"
      /\ Head(path) \in {"SUBMITTED", "UNDER_REVIEW", "REJECTED", "APPROVED",
                         "SMART_CONTRACT_CREATED", "PUBLISHED", "CANCELLED"}
  BY DEF Paths
<1>2. Head(path) # "CANCELLED" => s # "FUNDING"
  BY <1>1 DEF Statuses, DealTransitions
<1>. QED BY <1>1, <1>2 DEF Statuses, DealTransitions

LEMMA PriceIsNatural ==
    ASSUME NEW t \in Nat, NEW u \in Nat, u > 0
    PROVE  UnitPriceOf(t, u) \in Nat
  BY DEF UnitPriceOf

LEMMA FieldsOfOffer ==
    DOMAIN NoOffer = Fields /\ Economics \subseteq Fields /\ NoOffer \in Offers
  BY DEF NoOffer, Fields, Economics, Offers, Value

LEMMA AmountsAreNatural ==
    ASSUME Shapes, NEW i \in Investments
    PROVE  Amount(i) \in Nat
<1>1. offer.price \in Nat /\ UnitsOf[i] \in Nat
  BY FundingAssumption DEF Shapes, Offers
<1>. QED BY <1>1 DEF Amount

LEMMA LeastOfTwo ==
    ASSUME NEW a \in Nat, NEW b \in Nat
    PROVE  Min({a, b}) \in Nat /\ Min({a, b}) <= a /\ Min({a, b}) <= b
  BY DEF Min

----------------------------------------------------------------------------
(***************************************************************************)
(* What every request does to the tasks.                                   *)
(***************************************************************************)
LEMMA Continuing ==
    ASSUME Shapes, NEW w \in Workers, NEW t \in InHand, Continue(w, t)
    PROVE  /\ task' \in [Workers -> InHand]
           /\ task'[w] = t
           /\ \A v \in Workers \ {w} : task'[v] = task[v]
           /\ overlapped' = overlapped
  BY DEF Shapes, Continue

LEMMA Finishing ==
    ASSUME Shapes, NEW w \in Workers, Finish(w)
    PROVE  /\ task' \in [Workers -> InHand]
           /\ task'[w] = None
           /\ \A v \in Workers \ {w} : task'[v] = task[v]
           /\ \A v \in Workers : task'[v] \in {None, task[v]}
           /\ overlapped' = overlapped
<1>1. None \in InHand
  BY DEF InHand
<1>. QED BY <1>1, Continuing DEF Finish

\* One by one, the request in progress is the only one.
LEMMA Alone ==
    ASSUME IInv, NEW w \in Workers, task[w] # None, ~ overlapped
    PROVE  /\ \A v \in Workers \ {w} : task[v] = None
           /\ Fits(task[w])
  BY DEF IInv, OneByOne

LEMMA NothingFits == Fits(None)
  BY DEF Fits, None

\* A free worker takes a request, which changes nothing yet.
LEMMA Beginning ==
    ASSUME IInv, NEW w \in Workers, NEW t \in InHand, t # None, Begin(w, t),
           UNCHANGED <<deal, offer, approved, fundingVars>>,
           edits' \in 0 .. MaxEdits,
           deal.status # "none",
           Fits(t),
           t.op \in {"create", "include", "confirm", "fail", "weigh", "refund"} => Opened /\ Amount(t.inv) > 0,
           t.op = "edit" => ~ Opened,
           t.op = "transition" /\ t.path # <<"CANCELLED">> =>
              ~ Opened /\ offer.text # NoText
    PROVE  IInv'
<1>1. /\ task' \in [Workers -> InHand]
      /\ task'[w] = t
      /\ task[w] = None
      /\ \A v \in Workers \ {w} : task'[v] = task[v]
      /\ overlapped' \in BOOLEAN
      /\ ~ overlapped' => ~ overlapped /\ \A v \in Workers : task[v] = None
  BY DEF IInv, Shapes, Begin
<1>2. Shapes'
  BY <1>1 DEF IInv, Shapes, fundingVars
<1>3. Opened' => Opened
  BY <1>1 DEF Opened, fundingVars
<1>4. OpenedForGood'
  BY <1>1, <1>3 DEF IInv, OpenedForGood
<1>5. Sound'
  BY <1>1, <1>3 DEF IInv, Sound
<1>6. Priced'
  <2>1. \A i : Amount(i)' = Amount(i)
    BY DEF Amount
  <2>. QED BY <1>1, <2>1 DEF IInv, Priced, fundingVars
<1>7. OneByOne'
  <2>. SUFFICES ASSUME ~ overlapped' PROVE OneByOne'
    BY DEF OneByOne
  <2>1. \A v \in Workers : v # w => task'[v] = None
    BY <1>1
  <2>2. \A v \in Workers : Fits(task'[v])
    BY <1>1, <2>1, NothingFits
  <2>3. \A v \in Workers : Fits(task[v])'
    BY <2>2 DEF Fits, fundingVars
  <2>. QED BY <1>1, <1>3, <2>1, <2>3 DEF IInv, OneByOne
<1>8. OneOutcomeOneByOne'
  BY <1>1 DEF IInv, OneOutcomeOneByOne, fundingVars
<1>. QED BY <1>2, <1>4, <1>5, <1>6, <1>7, <1>8 DEF IInv

\* A request for an investment writes and ends; only confirm touches the deal.
LEMMA EndOfFundingRequest ==
    ASSUME IInv, NEW w \in Workers, task[w] # None, Finish(w), UNCHANGED offerVars,
           deal' \in [status : Statuses, total : Nat],
           deal'.status = deal.status \/ (Opened /\ deal'.status = "FUNDED"),
           status' \in [Investments -> {"none", "PENDING", "CONFIRMED", "FAILED", "REFUNDED"}],
           \A i \in Investments : status'[i] # "none" => Opened /\ Amount(i) > 0,
           escrow' \in Nat,
           booked' \in [Keys -> Nat],
           deposited' \in Nat,
           OneOutcomeOneByOne'
    PROVE  IInv'
<1>1. /\ task' \in [Workers -> InHand]
      /\ task'[w] = None
      /\ \A v \in Workers \ {w} : task'[v] = task[v]
      /\ \A v \in Workers : task'[v] \in {None, task[v]}
      /\ overlapped' = overlapped
  BY Finishing DEF IInv
<1>2. Shapes'
  BY <1>1 DEF IInv, Shapes, offerVars
<1>3. None.op = "none"
  BY DEF None
<1>4. Opened' => Opened
  BY <1>1, <1>3 DEF Opened
<1>5. OpenedForGood'
  BY <1>1, <1>3, <1>4 DEF IInv, OpenedForGood
<1>6. Sound'
  <2>1. deal'.status # "none" => Economical(offer)
    BY DEF IInv, Sound, Opened, OpenedForGood
  <2>2. deal'.status # "none"
    BY DEF IInv, Sound
  <2>3. deal'.status \in Reviewed \/ Opened' => offer.text # NoText
    BY <1>4 DEF IInv, Sound
  <2>4. \A v \in Workers :
           task'[v].op = "transition" /\ task'[v].path # <<"CANCELLED">> => offer.text # NoText
    BY <1>1, <1>3 DEF IInv, Sound
  <2>. QED BY <2>1, <2>2, <2>3, <2>4 DEF Sound, offerVars
<1>7. Priced'
  <2>1. \A i : Amount(i)' = Amount(i)
    BY DEF Amount, offerVars
  <2>. QED BY <1>1, <1>3, <2>1 DEF IInv, Priced
<1>8. OneByOne'
  <2>. SUFFICES ASSUME ~ overlapped' PROVE OneByOne'
    BY DEF OneByOne
  <2>1. \A v \in Workers : task'[v] = None
    BY <1>1, Alone
  <2>2. \A v \in Workers : Fits(task[v])'
    BY <1>3, <2>1 DEF Fits
  <2>3. offer = approved \/ ~ (deal'.status \in Offered \/ Opened')
    BY <1>1, <1>4 DEF IInv, OneByOne
  <2>. QED BY <2>1, <2>2, <2>3 DEF OneByOne, offerVars
<1>. QED BY <1>2, <1>5, <1>6, <1>7, <1>8 DEF IInv

\* A request for an investment goes on to its second read.
LEMMA Proceeding ==
    ASSUME IInv, NEW w \in Workers, NEW t \in InHand, Continue(w, t),
           UNCHANGED <<deal, offerVars, fundingVars>>,
           task[w].op \in {"include", "weigh"}, t.op \in {"confirm", "refund"},
           t.inv = task[w].inv, Fits(task[w]) => Fits(t)
    PROVE  IInv'
<1>1. /\ task' \in [Workers -> InHand]
      /\ task'[w] = t
      /\ \A v \in Workers \ {w} : task'[v] = task[v]
      /\ overlapped' = overlapped
      /\ UNCHANGED <<deal, offer, approved, edits, status, escrow, booked, deposited>>
  BY Continuing DEF IInv, offerVars, fundingVars
<1>2. Shapes'
  BY <1>1 DEF IInv, Shapes
<1>3. Opened
  BY DEF Opened
<1>4. OpenedForGood'
  BY <1>1, <1>3 DEF IInv, OpenedForGood
<1>5. Sound'
  <2>1. offer.text # NoText /\ deal.status # "none"
    BY <1>3 DEF IInv, Sound, OpenedForGood
  <2>2. Economical(offer)'
    BY <1>1, <2>1 DEF IInv, Sound
  <2>. QED BY <1>1, <2>1, <2>2 DEF Sound
<1>6. Priced'
  <2>1. \A i : Amount(i)' = Amount(i)
    BY <1>1 DEF Amount
  <2>. QED BY <1>1, <2>1 DEF IInv, Priced
<1>7. OneByOne'
  <2>. SUFFICES ASSUME ~ overlapped' PROVE OneByOne'
    BY DEF OneByOne
  <2>1. task[w] # None
    BY DEF None
  <2>2. \A v \in Workers \ {w} : task'[v] = None
    BY <1>1, <2>1, Alone
  <2>3. Fits(t)
    BY <1>1, <2>1, Alone
  <2>4. \A v \in Workers : Fits(task'[v])
    BY <1>1, <2>2, <2>3, NothingFits
  <2>5. \A v \in Workers : Fits(task[v])'
    BY <1>1, <2>4 DEF Fits
  <2>6. offer = approved
    BY <1>1, <1>3 DEF IInv, OneByOne
  <2>. QED BY <1>1, <2>2, <2>5, <2>6 DEF OneByOne
<1>8. OneOutcomeOneByOne'
  BY <1>1 DEF IInv, OneOutcomeOneByOne
<1>. QED BY <1>2, <1>4, <1>5, <1>6, <1>7, <1>8 DEF IInv

----------------------------------------------------------------------------
(***************************************************************************)
(* create, confirm, fail and refund.                                       *)
(***************************************************************************)
LEMMA KeysOfInvestments ==
    \A i \in Investments : \A op \in {"create", "confirm", "fail", "refund"} :
        <<op, i>> \in Keys
  BY DEF Keys

LEMMA PostingBooks ==
    ASSUME Shapes, NEW k \in Keys, NEW a \in Nat, a > 0
    PROVE  /\ Post(k, a) \in [Keys -> Nat]
           /\ Post(k, a)[k] > 0
           /\ \A l \in Keys \ {k} : Post(k, a)[l] = booked[l]
  BY DEF Shapes, Post

LEMMA OpeningIsFunding ==
    ASSUME IInv, deal.status = "FUNDING"
    PROVE  Opened /\ Economical(offer)
  BY DEF IInv, Opened, Sound

LEMMA InvestmentIsOpened ==
    ASSUME IInv, NEW i \in Investments, status[i] # "none"
    PROVE  Opened /\ deal.status # "none" /\ Amount(i) > 0
  BY DEF IInv, Opened, OpenedForGood, Priced

LEMMA CreateReadPreserves ==
    ASSUME IInv, NEW w \in Workers, NEW i \in Investments, CreateRead(w, i)
    PROVE  IInv'
<1>. DEFINE t == [op |-> "create", inv |-> i]
<1>1. t \in InHand /\ t # None /\ t.op = "create" /\ t.inv = i
  BY DEF InHand, Creating, None
<1>2. Opened /\ Economical(offer) /\ deal.status # "none"
  BY OpeningIsFunding DEF CreateRead
<1>3. offer.minimum \in Nat
  BY DEF IInv, Shapes, Offers, Economics
<1>4. Amount(i) > 0
  BY <1>2, <1>3, AmountsAreNatural DEF IInv, CreateRead, Economical
<1>5. Begin(w, t) /\ status[i] = "none" /\ UNCHANGED <<deal, offer, approved, fundingVars>>
      /\ edits' \in 0 .. MaxEdits
  BY DEF CreateRead, offerVars, IInv, Shapes
<1>6. Fits(t)
  BY <1>1, <1>5 DEF Fits
<1>. HIDE DEF t
<1>. QED BY <1>1, <1>2, <1>4, <1>5, <1>6, Beginning

LEMMA ConfirmReadPreserves ==
    ASSUME IInv, NEW w \in Workers, NEW i \in Investments, ConfirmRead(w, i)
    PROVE  IInv'
<1>. DEFINE t == [op |-> "include", inv |-> i]
<1>1. t \in InHand /\ t # None /\ t.op = "include" /\ t.inv = i
  BY DEF InHand, Including, None
<1>2. status[i] = "PENDING"
  BY DEF ConfirmRead, Confirmable
<1>3. Opened /\ deal.status # "none" /\ Amount(i) > 0
  BY <1>2, InvestmentIsOpened
<1>5. Begin(w, t) /\ UNCHANGED <<deal, offer, approved, fundingVars>>
      /\ edits' \in 0 .. MaxEdits
  BY DEF ConfirmRead, offerVars, IInv, Shapes
<1>6. Fits(t)
  BY <1>1, <1>2 DEF Fits
<1>. HIDE DEF t
<1>. QED BY <1>1, <1>3, <1>5, <1>6, Beginning

LEMMA FailReadPreserves ==
    ASSUME IInv, NEW w \in Workers, NEW i \in Investments, FailRead(w, i)
    PROVE  IInv'
<1>. DEFINE t == [op |-> "fail", inv |-> i]
<1>1. t \in InHand /\ t # None /\ t.op = "fail" /\ t.inv = i
  BY DEF InHand, Failing, None
<1>2. status[i] = "PENDING"
  BY DEF FailRead, Failable
<1>3. Opened /\ deal.status # "none" /\ Amount(i) > 0
  BY <1>2, InvestmentIsOpened
<1>5. Begin(w, t) /\ UNCHANGED <<deal, offer, approved, fundingVars>>
      /\ edits' \in 0 .. MaxEdits
  BY DEF FailRead, offerVars, IInv, Shapes
<1>6. Fits(t)
  BY <1>1, <1>2 DEF Fits
<1>. HIDE DEF t
<1>. QED BY <1>1, <1>3, <1>5, <1>6, Beginning

LEMMA RefundReadPreserves ==
    ASSUME IInv, NEW w \in Workers, NEW i \in Investments, RefundRead(w, i)
    PROVE  IInv'
<1>. DEFINE t == [op |-> "weigh", inv |-> i]
<1>1. t \in InHand /\ t # None /\ t.op = "weigh" /\ t.inv = i
  BY DEF InHand, Weighing, None
<1>2. status[i] = "CONFIRMED"
  BY DEF RefundRead
<1>3. Opened /\ deal.status # "none" /\ Amount(i) > 0
  BY <1>2, InvestmentIsOpened
<1>5. Begin(w, t) /\ UNCHANGED <<deal, offer, approved, fundingVars>>
      /\ edits' \in 0 .. MaxEdits
  BY DEF RefundRead, offerVars, IInv, Shapes
<1>6. Fits(t)
  BY <1>1, <1>2 DEF Fits
<1>. HIDE DEF t
<1>. QED BY <1>1, <1>3, <1>5, <1>6, Beginning

\* What a worker has in hand when it is about to write.
LEMMA InHandTells ==
    ASSUME IInv, NEW w \in Workers
    PROVE  /\ task[w] \in InHand
           /\ task[w].op \in {"create", "include", "confirm", "fail", "weigh", "refund"} =>
                /\ Opened
                /\ task[w] # None
                /\ task[w].inv \in Investments
                /\ Amount(task[w].inv) \in Nat /\ Amount(task[w].inv) > 0
           /\ task[w].op = "edit" => task[w] \in Editing /\ task[w] # None
           /\ task[w].op = "transition" => task[w] \in Transitioning /\ task[w] # None
           /\ task[w].op = "confirm" => task[w].total \in Nat
           /\ task[w].op = "refund" => task[w].balance \in Nat
<1>1. task[w] \in InHand
  BY DEF IInv, Shapes
<1>2. None.op = "none"
  BY DEF None
<1>3. task[w].op \in {"create", "include", "confirm", "fail", "weigh", "refund"} => task[w].inv \in Investments
  BY <1>1, OperationTells DEF Creating, Including, Confirming, Failing, Weighing, Refunding
<1>. QED
  BY <1>1, <1>2, <1>3, OperationTells, AmountsAreNatural
  DEF IInv, Priced, Opened, Confirming, Refunding

LEMMA ConfirmReadDealPreserves ==
    ASSUME IInv, NEW w \in Workers, ConfirmReadDeal(w)
    PROVE  IInv'
<1>. DEFINE t == [op |-> "confirm", inv |-> task[w].inv, total |-> deal.total]
<1>1. task[w].op = "include" /\ task[w].inv \in Investments
  BY InHandTells DEF ConfirmReadDeal
<1>2. t \in InHand /\ t.op = "confirm" /\ t.inv = task[w].inv
  BY <1>1 DEF InHand, Confirming, IInv, Shapes
<1>3. Continue(w, t) /\ UNCHANGED <<deal, offerVars, fundingVars>>
  BY DEF ConfirmReadDeal
<1>4. Fits(task[w]) => Fits(t)
  BY <1>1, <1>2 DEF Fits
<1>. HIDE DEF t
<1>. QED BY <1>1, <1>2, <1>3, <1>4, Proceeding

LEMMA RefundReadEscrowPreserves ==
    ASSUME IInv, NEW w \in Workers, RefundReadEscrow(w)
    PROVE  IInv'
<1>. DEFINE t == [op |-> "refund", inv |-> task[w].inv, balance |-> escrow]
<1>1. task[w].op = "weigh" /\ task[w].inv \in Investments
  BY InHandTells DEF RefundReadEscrow
<1>2. t \in InHand /\ t.op = "refund" /\ t.inv = task[w].inv
  BY <1>1 DEF InHand, Refunding, IInv, Shapes
<1>3. Continue(w, t) /\ UNCHANGED <<deal, offerVars, fundingVars>>
  BY DEF RefundReadEscrow
<1>4. Fits(task[w]) => Fits(t)
  BY <1>1, <1>2 DEF Fits
<1>. HIDE DEF t
<1>. QED BY <1>1, <1>2, <1>3, <1>4, Proceeding

LEMMA CreateWritePreserves ==
    ASSUME IInv, NEW w \in Workers, CreateWrite(w)
    PROVE  IInv'
<1>1. PICK i \in Investments : i = task[w].inv
  BY InHandTells DEF CreateWrite
<1>2. task[w].op = "create" /\ task[w] # None /\ Opened /\ Amount(i) > 0 /\ Amount(i) \in Nat
  BY <1>1, InHandTells, AmountsAreNatural DEF CreateWrite, IInv, Priced
<1>3. \A j \in Investments : status[j] # "none" => Amount(j) > 0
  BY DEF IInv, Priced
<1>4. <<"create", i>> \in Keys
  BY KeysOfInvestments
<1>5. Finish(w) /\ UNCHANGED offerVars /\ UNCHANGED <<deal, escrow, deposited>>
  BY DEF CreateWrite
<1>6. overlapped' = overlapped
  BY <1>5, Finishing DEF IInv
<1>7. CASE status[i] = "none"
  <2>1. /\ status' = [status EXCEPT ![i] = "PENDING"]
        /\ booked' = Post(<<"create", i>>, Amount(i))
    BY <1>1, <1>7 DEF CreateWrite
  <2>2. /\ booked' \in [Keys -> Nat]
        /\ \A l \in Keys \ {<<"create", i>>} : booked'[l] = booked[l]
    BY <1>2, <1>4, <2>1, PostingBooks DEF IInv
  <2>3. \A j \in Investments : \A op \in {"confirm", "fail"} : booked'[<<op, j>>] = booked[<<op, j>>]
    BY <2>2, KeysOfInvestments
  <2>4. /\ status' \in [Investments -> {"none", "PENDING", "CONFIRMED", "FAILED", "REFUNDED"}]
        /\ status'[i] = "PENDING"
        /\ \A j \in Investments \ {i} : status'[j] = status[j]
    BY <2>1 DEF IInv, Shapes
  <2>5. OneOutcomeOneByOne'
    BY <1>6, <1>7, <2>3, <2>4 DEF IInv, OneOutcomeOneByOne
  <2>6. \A j \in Investments : status'[j] # "none" => Opened /\ Amount(j) > 0
    BY <1>2, <1>3, <2>4
  <2>. QED BY <1>2, <1>5, <2>2, <2>4, <2>5, <2>6, EndOfFundingRequest DEF IInv, Shapes
<1>8. CASE status[i] # "none"
  <2>1. UNCHANGED <<status, booked>>
    BY <1>1, <1>8 DEF CreateWrite
  <2>2. OneOutcomeOneByOne'
    BY <1>6, <2>1 DEF IInv, OneOutcomeOneByOne
  <2>. QED BY <1>2, <1>3, <1>5, <2>1, <2>2, EndOfFundingRequest DEF IInv, Shapes
<1>. QED BY <1>7, <1>8

LEMMA ConfirmWritePreserves ==
    ASSUME IInv, NEW w \in Workers, ConfirmWrite(w)
    PROVE  IInv'
<1>1. PICK i \in Investments : i = task[w].inv
  BY InHandTells DEF ConfirmWrite
<1>2. /\ task[w].op = "confirm" /\ task[w] # None /\ Opened
      /\ task[w].total \in Nat
      /\ Amount(i) \in Nat /\ Amount(i) > 0
  BY <1>1, InHandTells DEF ConfirmWrite
<1>3. Finish(w) /\ UNCHANGED offerVars
  BY DEF ConfirmWrite
<1>4. overlapped' = overlapped
  BY <1>3, Finishing DEF IInv
<1>5. /\ status' = [status EXCEPT ![i] = "CONFIRMED"]
      /\ booked' = Post(<<"confirm", i>>, Amount(i))
      /\ escrow' = escrow + Amount(i)
  BY <1>1 DEF ConfirmWrite
<1>6. /\ booked' \in [Keys -> Nat]
      /\ booked'[<<"confirm", i>>] > 0
      /\ \A l \in Keys \ {<<"confirm", i>>} : booked'[l] = booked[l]
  BY <1>2, <1>5, KeysOfInvestments, PostingBooks DEF IInv
<1>7. /\ \A j \in Investments : booked'[<<"fail", j>>] = booked[<<"fail", j>>]
      /\ \A j \in Investments \ {i} : booked'[<<"confirm", j>>] = booked[<<"confirm", j>>]
  BY <1>6, KeysOfInvestments
<1>8. /\ status' \in [Investments -> {"none", "PENDING", "CONFIRMED", "FAILED", "REFUNDED"}]
      /\ status'[i] = "CONFIRMED"
      /\ \A j \in Investments \ {i} : status'[j] = status[j]
  BY <1>5 DEF IInv, Shapes
<1>9. OneOutcomeOneByOne'
  <2>. SUFFICES ASSUME ~ overlapped' PROVE OneOutcomeOneByOne'
    BY DEF OneOutcomeOneByOne
  <2>1. status[i] = "PENDING"
    BY <1>1, <1>2, <1>4, Alone DEF Fits
  <2>. QED BY <1>4, <1>6, <1>7, <1>8, <2>1 DEF IInv, OneOutcomeOneByOne
<1>10. \A j \in Investments : status'[j] # "none" => Opened /\ Amount(j) > 0
  BY <1>2, <1>8 DEF IInv, Priced
<1>11. escrow' \in Nat /\ deposited' \in Nat
  <2>1. deposited' = deposited + Amount(i)
    BY <1>1 DEF ConfirmWrite
  <2>. QED BY <1>2, <1>5, <2>1 DEF IInv, Shapes
<1>12. /\ deal' \in [status : Statuses, total : Nat]
       /\ deal'.status \in {deal.status, "FUNDED"}
  <2>1. NewTotal(task[w]) \in Nat
    BY <1>1, <1>2 DEF NewTotal
  <2>2. deal' = [status |-> IF NewTotal(task[w]) >= Target THEN "FUNDED" ELSE deal.status,
                 total |-> NewTotal(task[w])]
    BY DEF ConfirmWrite
  <2>. QED BY <2>1, <2>2 DEF IInv, Shapes, Statuses
<1>. QED
  BY <1>2, <1>3, <1>6, <1>8, <1>9, <1>10, <1>11, <1>12, EndOfFundingRequest

LEMMA FailWritePreserves ==
    ASSUME IInv, NEW w \in Workers, FailWrite(w)
    PROVE  IInv'
<1>1. PICK i \in Investments : i = task[w].inv
  BY InHandTells DEF FailWrite
<1>2. /\ task[w].op = "fail" /\ task[w] # None /\ Opened
      /\ Amount(i) \in Nat /\ Amount(i) > 0
  BY <1>1, InHandTells DEF FailWrite
<1>3. Finish(w) /\ UNCHANGED offerVars /\ UNCHANGED <<deal, escrow, deposited>>
  BY DEF FailWrite
<1>4. overlapped' = overlapped
  BY <1>3, Finishing DEF IInv
<1>5. /\ status' = [status EXCEPT ![i] = "FAILED"]
      /\ booked' = Post(<<"fail", i>>, Amount(i))
  BY <1>1 DEF FailWrite
<1>6. /\ booked' \in [Keys -> Nat]
      /\ booked'[<<"fail", i>>] > 0
      /\ \A l \in Keys \ {<<"fail", i>>} : booked'[l] = booked[l]
  BY <1>2, <1>5, KeysOfInvestments, PostingBooks DEF IInv
<1>7. /\ \A j \in Investments : booked'[<<"confirm", j>>] = booked[<<"confirm", j>>]
      /\ \A j \in Investments \ {i} : booked'[<<"fail", j>>] = booked[<<"fail", j>>]
  BY <1>6, KeysOfInvestments
<1>8. /\ status' \in [Investments -> {"none", "PENDING", "CONFIRMED", "FAILED", "REFUNDED"}]
      /\ status'[i] = "FAILED"
      /\ \A j \in Investments \ {i} : status'[j] = status[j]
  BY <1>5 DEF IInv, Shapes
<1>9. OneOutcomeOneByOne'
  <2>. SUFFICES ASSUME ~ overlapped' PROVE OneOutcomeOneByOne'
    BY DEF OneOutcomeOneByOne
  <2>1. status[i] = "PENDING"
    BY <1>1, <1>2, <1>4, Alone DEF Fits
  <2>. QED BY <1>4, <1>6, <1>7, <1>8, <2>1 DEF IInv, OneOutcomeOneByOne
<1>10. \A j \in Investments : status'[j] # "none" => Opened /\ Amount(j) > 0
  BY <1>2, <1>8 DEF IInv, Priced
<1>. QED
  BY <1>2, <1>3, <1>6, <1>8, <1>9, <1>10, EndOfFundingRequest DEF IInv, Shapes

LEMMA RefundWritePreserves ==
    ASSUME IInv, NEW w \in Workers, RefundWrite(w)
    PROVE  IInv'
<1>1. PICK i \in Investments : i = task[w].inv
  BY InHandTells DEF RefundWrite
<1>2. /\ task[w].op = "refund" /\ task[w] # None /\ Opened
      /\ task[w].balance \in Nat
      /\ Amount(i) \in Nat /\ Amount(i) > 0
  BY <1>1, InHandTells DEF RefundWrite
<1>3. Finish(w) /\ UNCHANGED offerVars /\ UNCHANGED <<deal, deposited>>
  BY DEF RefundWrite
<1>4. overlapped' = overlapped
  BY <1>3, Finishing DEF IInv
<1>5. PICK r \in Nat : r = Refundable(task[w]) /\ r <= task[w].balance
  BY <1>1, <1>2, LeastOfTwo DEF Refundable
<1>6. /\ status' = [status EXCEPT ![i] = "REFUNDED"]
      /\ r > 0 => /\ booked' = Post(<<"refund", i>>, r)
                  /\ escrow' = task[w].balance - r
      /\ ~ (r > 0) => UNCHANGED <<booked, escrow>>
  BY <1>1, <1>5 DEF RefundWrite
<1>7. /\ booked' \in [Keys -> Nat]
      /\ \A l \in Keys \ {<<"refund", i>>} : booked'[l] = booked[l]
  <2>. <<"refund", i>> \in Keys
    BY KeysOfInvestments
  <2>1. CASE r > 0
    BY <1>6, <2>1, PostingBooks DEF IInv
  <2>2. CASE ~ (r > 0)
    BY <1>6, <2>2 DEF IInv, Shapes
  <2>. QED BY <2>1, <2>2
<1>8. \A j \in Investments : \A op \in {"confirm", "fail"} :
         booked'[<<op, j>>] = booked[<<op, j>>]
  BY <1>7, KeysOfInvestments
<1>9. /\ status' \in [Investments -> {"none", "PENDING", "CONFIRMED", "FAILED", "REFUNDED"}]
      /\ status'[i] = "REFUNDED"
      /\ \A j \in Investments \ {i} : status'[j] = status[j]
  BY <1>6 DEF IInv, Shapes
<1>10. OneOutcomeOneByOne'
  <2>. SUFFICES ASSUME ~ overlapped' PROVE OneOutcomeOneByOne'
    BY DEF OneOutcomeOneByOne
  <2>1. status[i] = "CONFIRMED"
    BY <1>1, <1>2, <1>4, Alone DEF Fits
  <2>. QED BY <1>4, <1>8, <1>9, <2>1 DEF IInv, OneOutcomeOneByOne
<1>11. \A j \in Investments : status'[j] # "none" => Opened /\ Amount(j) > 0
  BY <1>2, <1>9 DEF IInv, Priced
<1>12. escrow' \in Nat
  BY <1>2, <1>5, <1>6 DEF IInv, Shapes
<1>. QED
  BY <1>2, <1>3, <1>7, <1>9, <1>10, <1>11, <1>12, EndOfFundingRequest DEF IInv, Shapes

LEMMA AbortPreserves ==
    ASSUME IInv, NEW w \in Workers, Abort(w)
    PROVE  IInv'
<1>1. /\ task[w] # None
      /\ Finish(w)
      /\ UNCHANGED offerVars
      /\ UNCHANGED <<deal, status, escrow, booked, deposited>>
  BY DEF Abort, fundingVars
<1>2. overlapped' = overlapped
  BY <1>1, Finishing DEF IInv
<1>3. OneOutcomeOneByOne'
  BY <1>1, <1>2 DEF IInv, OneOutcomeOneByOne
<1>4. \A j \in Investments : status[j] # "none" => Opened /\ Amount(j) > 0
  BY InvestmentIsOpened
<1>. QED
  BY <1>1, <1>3, <1>4, EndOfFundingRequest DEF IInv, Shapes

----------------------------------------------------------------------------
(***************************************************************************)
(* The deal: create, update, saveDealTerms.                                *)
(***************************************************************************)
LEMMA OffersAreFunctions ==
    ASSUME NEW o \in Offers
    PROVE  /\ DOMAIN o = Fields
           /\ \A f \in Fields : o[f] \in Value
           /\ \A f \in Economics \cup {"price"} : o[f] \in Nat
  BY DEF Offers

LEMMA UnopenedDeal ==
    ASSUME IInv, ~ Opened
    PROVE  /\ \A i \in Investments : status[i] = "none"
           /\ \A w \in Workers : task[w].op \notin {"create", "include", "confirm", "fail", "weigh", "refund"}
           /\ deal.status \notin {"FUNDING", "FUNDED"}
  BY DEF Opened

LEMMA CreateDealPreserves ==
    ASSUME IInv, NEW d \in Drafts, CreateDeal(d), UNCHANGED fundingVars
    PROVE  IInv'
<1>1. /\ deal.status = "none"
      /\ Economical(d)
      /\ deal' = [status |-> "DRAFT", total |-> 0]
      /\ UNCHANGED <<approved, edits, task, overlapped, status, escrow, booked, deposited>>
  BY DEF CreateDeal, fundingVars
<1>2. /\ ~ Opened
      /\ \A w \in Workers : task[w] = None
  BY <1>1 DEF IInv, OpenedForGood, Sound
<1>3. \A f \in {"target", "units", "minimum", "maximum"} : d[f] \in Nat
  BY LifecycleAssumption
<1>4. offer' \in Offers /\ Economical(offer)'
  <2>1. UnitPriceOf(d.target, d.units) \in Nat
    BY <1>1, <1>3, PriceIsNatural DEF Economical
  <2>2. offer' = [f \in Fields |-> CASE f = "price" -> UnitPriceOf(d.target, d.units)
                                     [] f = "text" -> NoText
                                     [] OTHER -> d[f]]
    BY FieldsOfOffer DEF CreateDeal
  <2>3. /\ offer'.price = UnitPriceOf(d.target, d.units)
        /\ offer'.text = NoText
        /\ offer'.project = d.project
        /\ \A f \in Economics : offer'[f] = d[f]
    BY <2>2 DEF Fields, Economics
  <2>4. NoText \in Value /\ d.project \in Value /\ Nat \subseteq Value
    BY DEF Value
  <2>5. \A f \in Economics \cup {"price"} : offer'[f] \in Nat
    BY <1>3, <2>1, <2>3 DEF Economics
  <2>6. \A f \in Fields : offer'[f] \in Value
    BY <2>3, <2>4, <2>5 DEF Fields, Economics
  <2>7. offer' \in [Fields -> Value]
    BY <2>2, <2>6
  <2>8. Economical(offer)'
    BY <1>1, <2>3 DEF Economical, Economics
  <2>. QED BY <2>5, <2>7, <2>8 DEF Offers
<1>5. Shapes'
  BY <1>1, <1>4 DEF IInv, Shapes, Statuses
<1>6. ~ Opened'
  BY <1>1, <1>2 DEF Opened
<1>7. OpenedForGood'
  BY <1>6 DEF OpenedForGood
<1>8. None.op = "none"
  BY DEF None
<1>9. Sound'
  BY <1>1, <1>2, <1>4, <1>6, <1>8 DEF Sound, Reviewed
<1>10. Priced'
  BY <1>1, <1>2, <1>8, UnopenedDeal DEF Priced
<1>11. OneByOne'
  <2>1. \A w \in Workers : Fits(task[w])'
    BY <1>1, <1>2, <1>8 DEF Fits
  <2>. QED BY <1>1, <1>2, <1>6, <2>1 DEF OneByOne, Offered
<1>12. OneOutcomeOneByOne'
  BY <1>1 DEF IInv, OneOutcomeOneByOne
<1>. QED BY <1>5, <1>7, <1>9, <1>10, <1>11, <1>12 DEF IInv

\* An update has written the terms or the other fields.
LEMMA AfterEdit ==
    ASSUME IInv, NEW w \in Workers, task[w].op = "edit",
           UNCHANGED <<deal, approved, edits, status, escrow, booked, deposited>>,
           offer' \in Offers,
           Economical(offer)',
           offer.text # NoText => offer'.text # NoText,
           task' \in [Workers -> InHand],
           task'[w] \in Editing \cup {None},
           \A v \in Workers \ {w} : task'[v] = task[v],
           overlapped' = overlapped
    PROVE  IInv'
<1>1. /\ task[w] # None
      /\ ~ Opened
      /\ deal.status # "none"
  <2>1. task[w] # None /\ deal.status # "none"
    BY InHandTells DEF IInv, Sound
  <2>. QED BY <2>1 DEF IInv, OpenedForGood
<1>2. task'[w].op \in {"edit", "none"}
  BY DEF Editing, None
<1>3. Shapes'
  BY DEF IInv, Shapes
<1>4. ~ Opened'
  BY <1>1, <1>2 DEF Opened
<1>5. OpenedForGood'
  BY <1>4 DEF OpenedForGood
<1>6. Sound'
  BY <1>1, <1>2, <1>4 DEF IInv, Sound
<1>7. Priced'
  <2>1. \A v \in Workers : task'[v].op \notin {"create", "include", "confirm", "fail", "weigh", "refund"}
    BY <1>1, <1>2, UnopenedDeal
  <2>. QED BY <1>1, <2>1, UnopenedDeal DEF Priced
<1>8. OneByOne'
  <2>. SUFFICES ASSUME ~ overlapped' PROVE OneByOne'
    BY DEF OneByOne
  <2>1. /\ \A v \in Workers \ {w} : task'[v] = None
        /\ deal.status \in {"DRAFT", "SUBMITTED"}
    BY <1>1, Alone DEF Fits
  <2>2. \A v \in Workers : Fits(task[v])'
    <3>1. None.op = "none"
      BY DEF None
    <3>. QED BY <1>2, <2>1, <3>1 DEF Fits
  <2>. QED BY <1>4, <2>1, <2>2 DEF OneByOne, Offered
<1>9. OneOutcomeOneByOne'
  BY DEF IInv, OneOutcomeOneByOne
<1>. QED BY <1>3, <1>5, <1>6, <1>7, <1>8, <1>9 DEF IInv

LEMMA TextWritePreserves ==
    ASSUME IInv, NEW w \in Workers, TextWrite(w), UNCHANGED fundingVars
    PROVE  IInv'
<1>1. PICK t \in Editing : t = task[w]
  BY InHandTells DEF TextWrite, At
<1>2. /\ t.op = "edit" /\ t.pc = "text" /\ t.edit \in Edits /\ t.seen \in Offers
      /\ "text" \in DOMAIN t.edit
  BY <1>1 DEF TextWrite, At, Editing
<1>3. t.edit.text # NoText
  BY <1>2, LifecycleAssumption
<1>4. UNCHANGED <<deal, approved, edits, status, escrow, booked, deposited>>
  BY DEF TextWrite, fundingVars
<1>5. offer' = [offer EXCEPT !.text = t.edit.text]
  BY <1>1 DEF TextWrite
<1>6. offer \in Offers /\ deal.status # "none" /\ Economical(offer)
  BY <1>1, <1>2, InHandTells DEF IInv, Shapes, Sound
<1>7. t.edit.text \in Value
  BY <1>2 DEF Value
<1>8. /\ offer' \in Offers
      /\ offer'.text = t.edit.text
      /\ \A f \in Economics : offer'[f] = offer[f]
  BY <1>5, <1>6, <1>7 DEF Offers, Fields, Economics
<1>9. Economical(offer)'
  BY <1>6, <1>8 DEF Economical, Economics
<1>10. /\ task' \in [Workers -> InHand]
       /\ task'[w] \in Editing \cup {None}
       /\ \A v \in Workers \ {w} : task'[v] = task[v]
       /\ overlapped' = overlapped
  <2>1. CASE DOMAIN t.edit = {"text"}
    <3>1. Finish(w)
      BY <1>1, <2>1 DEF TextWrite
    <3>. QED BY <3>1, Finishing DEF IInv
  <2>2. CASE DOMAIN t.edit # {"text"}
    <3>1. Continue(w, [t EXCEPT !.pc = "fields"])
      BY <1>1, <2>2 DEF TextWrite
    <3>2. [t EXCEPT !.pc = "fields"] \in Editing
      BY <1>1 DEF Editing
    <3>3. [t EXCEPT !.pc = "fields"] \in InHand
      BY <3>2 DEF InHand
    <3>. QED BY <3>1, <3>2, <3>3, Continuing DEF IInv
  <2>. QED BY <2>1, <2>2
<1>. QED BY <1>1, <1>2, <1>3, <1>4, <1>8, <1>9, <1>10, AfterEdit

LEMMA EditedIsOffer ==
    ASSUME offer \in Offers, Economical(offer), NEW seen \in Offers, NEW edit \in Edits,
           Touches(edit, Economics) => Economical(Effective(seen, edit))
    PROVE  /\ Edited(seen, edit) \in Offers
           /\ Economical(Edited(seen, edit))
           /\ Edited(seen, edit).text = offer.text
<1>. DEFINE e == Effective(seen, edit)
<1>1. \A f \in Economics : e[f] \in Nat
  BY LifecycleAssumption DEF Effective, Economics, Offers
<1>2. /\ DOMAIN offer = Fields
      /\ \A f \in Fields : offer[f] \in Value
      /\ \A f \in Economics \cup {"price"} : offer[f] \in Nat
  BY OffersAreFunctions
<1>3. Touches(edit, {"target", "units"}) => UnitPriceOf(e.target, e.units) \in Nat
  <2>1. ASSUME Touches(edit, {"target", "units"}) PROVE Touches(edit, Economics)
    BY <2>1 DEF Touches, Economics
  <2>2. e.target \in Nat /\ e.units \in Nat
    BY <1>1 DEF Economics
  <2>3. Touches(edit, {"target", "units"}) => e.units > 0
    BY <2>1 DEF Economical
  <2>. QED BY <2>2, <2>3, PriceIsNatural
<1>. HIDE DEF e
<1>4. Edited(seen, edit) =
        [f \in Fields |->
            CASE f \in Economics /\ Touches(edit, Economics) -> e[f]
              [] f = "price" /\ Touches(edit, {"target", "units"}) ->
                    UnitPriceOf(e.target, e.units)
              [] f = "project" /\ f \in DOMAIN edit -> edit[f]
              [] OTHER -> offer[f]]
  BY <1>2 DEF Edited, e
<1>. DEFINE o == Edited(seen, edit)
<1>5. /\ Touches(edit, Economics) => \A f \in Economics : o[f] = e[f]
      /\ ~ Touches(edit, Economics) => \A f \in Economics : o[f] = offer[f]
  BY <1>4 DEF Economics, Fields
<1>6. o.price \in {UnitPriceOf(e.target, e.units), offer.price}
      /\ (~ Touches(edit, {"target", "units"}) => o.price = offer.price)
  BY <1>4 DEF Economics, Fields
<1>7. o.text = offer.text
  BY <1>4 DEF Economics, Fields
<1>8. o.project \in {offer.project} \/ ("project" \in DOMAIN edit /\ o.project = edit["project"])
  BY <1>4 DEF Economics, Fields
<1>9. \A f \in Economics \cup {"price"} : o[f] \in Nat
  BY <1>1, <1>2, <1>3, <1>5, <1>6
<1>10. o.project \in Value
  <2>1. "project" \in DOMAIN edit => edit["project"] \in Value
    BY DEF Value
  <2>. QED BY <1>2, <1>8, <2>1 DEF Fields
<1>11. \A f \in Fields : o[f] \in Value
  BY <1>2, <1>7, <1>9, <1>10 DEF Fields, Economics, Value
<1>12. o \in [Fields -> Value]
  BY <1>4, <1>11
<1>13. Economical(o)
  BY <1>5 DEF Economical, Economics, e
<1>. QED BY <1>7, <1>9, <1>12, <1>13 DEF Offers

LEMMA OfferWritePreserves ==
    ASSUME IInv, NEW w \in Workers, OfferWrite(w), UNCHANGED fundingVars
    PROVE  IInv'
<1>1. PICK t \in Editing : t = task[w]
  BY InHandTells DEF OfferWrite, At
<1>2. t.op = "edit" /\ t.edit \in Edits /\ t.seen \in Offers
  BY <1>1 DEF Editing
<1>3. /\ UNCHANGED <<deal, approved, edits, status, escrow, booked, deposited>>
      /\ Finish(w)
  BY DEF OfferWrite, fundingVars
<1>4. offer \in Offers /\ deal.status # "none" /\ Economical(offer)
  BY <1>1, <1>2, InHandTells DEF IInv, Shapes, Sound
<1>5. \/ offer' = offer
      \/ /\ Touches(t.edit, Economics) => Economical(Effective(t.seen, t.edit))
         /\ offer' = Edited(t.seen, t.edit)
  BY <1>1 DEF OfferWrite
<1>6. PICK o \in Offers : offer' = o /\ Economical(o) /\ o.text = offer.text
  BY <1>2, <1>4, <1>5, EditedIsOffer
<1>7. Economical(offer)'
  BY <1>6 DEF Economical
<1>. QED BY <1>1, <1>2, <1>3, <1>6, <1>7, Finishing, AfterEdit DEF IInv

LEMMA EditReadPreserves ==
    ASSUME IInv, NEW w \in Workers, NEW edit \in Edits, EditRead(w, edit), UNCHANGED fundingVars
    PROVE  IInv'
<1>. DEFINE t == [op |-> "edit", edit |-> edit, seen |-> offer,
                  pc |-> IF "text" \in DOMAIN edit THEN "text" ELSE "fields"]
<1>1. t \in Editing
  BY DEF IInv, Shapes, Editing
<1>2. t \in InHand /\ t.op = "edit" /\ t # None
  BY <1>1 DEF InHand, None
<1>3. /\ Begin(w, t)
      /\ deal.status \in {"DRAFT", "SUBMITTED"}
      /\ UNCHANGED <<deal, offer, approved, fundingVars>>
  BY DEF EditRead, Editable
<1>4. edits' \in 0 .. MaxEdits
  BY LifecycleAssumption DEF EditRead, IInv, Shapes
<1>5. ~ Opened
  BY <1>3 DEF IInv, OpenedForGood
<1>6. Fits(t)
  BY <1>2, <1>3 DEF Fits
<1>. HIDE DEF t
<1>. QED BY <1>2, <1>3, <1>4, <1>5, <1>6, Beginning

----------------------------------------------------------------------------
(***************************************************************************)
(* The status of the deal.                                                 *)
(***************************************************************************)
LEMMA StartTransitionPreserves ==
    ASSUME IInv, NEW w \in Workers, NEW path \in Paths, StartTransition(w, path),
           deal.status = "DRAFT" /\ path # <<"CANCELLED">> => offer.text # NoText,
           UNCHANGED fundingVars
    PROVE  IInv'
<1>. DEFINE t == [op |-> "transition", pc |-> "write", path |-> path]
<1>1. t \in InHand /\ t.op = "transition" /\ t.pc = "write" /\ t.path = path /\ t # None
  BY DEF InHand, Transitioning, None
<1>2. /\ Begin(w, t)
      /\ Head(path) \in DealTransitions[deal.status]
      /\ UNCHANGED <<deal, offer, approved, fundingVars>>
      /\ edits' \in 0 .. MaxEdits
  BY DEF StartTransition, Allowed, offerVars, IInv, Shapes
<1>3. deal.status \in Statuses
  BY DEF IInv, Shapes
<1>4. /\ deal.status \notin {"none", "FUNDED", "CANCELLED"}
      /\ deal.status = "FUNDING" => path = <<"CANCELLED">>
  BY <1>2, <1>3, PathsAndStatuses
<1>5. path # <<"CANCELLED">> => ~ Opened
  BY <1>4 DEF IInv, OpenedForGood
<1>6. path # <<"CANCELLED">> => offer.text # NoText
  BY <1>3, <1>4 DEF IInv, Sound, Reviewed, DealTransitions, Statuses
<1>7. Fits(t)
  BY <1>1, <1>2 DEF Fits
<1>. HIDE DEF t
<1>. QED BY <1>1, <1>2, <1>4, <1>5, <1>6, <1>7, Beginning

LEMMA SubmitPreserves ==
    ASSUME IInv, NEW w \in Workers, Submit(w), UNCHANGED fundingVars
    PROVE  IInv'
<1>1. StartTransition(w, <<"SUBMITTED">>) /\ offer.text # NoText
  BY DEF Submit, Complete
<1>2. <<"SUBMITTED">> \in Paths
  BY DEF Paths
<1>. QED BY <1>1, <1>2, StartTransitionPreserves

LEMMA ReviewPreserves ==
    ASSUME IInv, NEW w \in Workers, NEW decision \in {"APPROVED", "REJECTED"},
           Review(w, decision), UNCHANGED fundingVars
    PROVE  IInv'
<1>. DEFINE path == IF deal.status = "SUBMITTED" THEN <<"UNDER_REVIEW", decision>>
                    ELSE <<decision>>
<1>1. path \in Paths
  BY DEF Paths
<1>2. StartTransition(w, path)
  BY DEF Review
<1>3. deal.status # "DRAFT"
  <2>. SUFFICES ASSUME deal.status = "DRAFT" PROVE FALSE
    OBVIOUS
  <2>1. Head(path) = decision
    OBVIOUS
  <2>2. decision \in DealTransitions["DRAFT"]
    BY <1>2, <2>1 DEF StartTransition, Allowed
  <2>. QED BY <2>2 DEF DealTransitions
<1>. HIDE DEF path
<1>. QED BY <1>1, <1>2, <1>3, StartTransitionPreserves

LEMMA MarkSmartContractCreatedPreserves ==
    ASSUME IInv, NEW w \in Workers, MarkSmartContractCreated(w), UNCHANGED fundingVars
    PROVE  IInv'
<1>1. <<"SMART_CONTRACT_CREATED">> \in Paths
  BY DEF Paths
<1>. QED BY <1>1, StartTransitionPreserves DEF MarkSmartContractCreated

LEMMA PublishPreserves ==
    ASSUME IInv, NEW w \in Workers, Publish(w), UNCHANGED fundingVars
    PROVE  IInv'
<1>1. <<"PUBLISHED">> \in Paths
  BY DEF Paths
<1>2. deal.status # "DRAFT"
  BY DEF Publish, StartTransition, Allowed, DealTransitions
<1>. QED BY <1>1, <1>2, StartTransitionPreserves DEF Publish

LEMMA CancelPreserves ==
    ASSUME IInv, NEW w \in Workers, Cancel(w), UNCHANGED fundingVars
    PROVE  IInv'
<1>1. <<"CANCELLED">> \in Paths
  BY DEF Paths
<1>. QED BY <1>1, StartTransitionPreserves DEF Cancel

\* Where a path leads, and what is left of it.
LEMMA PathsLead ==
    ASSUME NEW path \in Paths
    PROVE  /\ Head(path) \in Statuses \ {"none", "FUNDING", "FUNDED"}
           /\ Head(path) = "CANCELLED" <=> path = <<"CANCELLED">>
           /\ Len(path) # 1 => /\ Head(path) = "UNDER_REVIEW"
                               /\ Tail(path) \in {<<"APPROVED">>, <<"REJECTED">>}
                               /\ Tail(path) \in Paths
                               /\ Tail(path) # <<"CANCELLED">>
<1>1. CASE path \in {<<"UNDER_REVIEW", "APPROVED">>, <<"UNDER_REVIEW", "REJECTED">>}
  <2>0. PICK s \in {"APPROVED", "REJECTED"} : path = <<"UNDER_REVIEW", s>>
    BY <1>1
  <2>1. /\ Head(path) = "UNDER_REVIEW" /\ Len(path) = 2
        /\ Tail(path) = <<s>>
    BY <2>0
  <2>2. <<"APPROVED">> # <<"CANCELLED">> /\ <<"REJECTED">> # <<"CANCELLED">>
    OBVIOUS
  <2>3. path # <<"CANCELLED">>
    BY <2>1
  <2>4. Tail(path) \in {<<"APPROVED">>, <<"REJECTED">>}
    BY <2>0, <2>1
  <2>. QED BY <2>1, <2>2, <2>3, <2>4 DEF Statuses, Paths
<1>2. CASE path \notin {<<"UNDER_REVIEW", "APPROVED">>, <<"UNDER_REVIEW", "REJECTED">>}
  <2>1. PICK s \in {"SUBMITTED", "APPROVED", "REJECTED", "SMART_CONTRACT_CREATED",
                    "PUBLISHED", "CANCELLED"} : path = <<s>>
    BY <1>2 DEF Paths
  <2>2. Head(path) = s /\ Len(path) = 1 /\ (path = <<"CANCELLED">> <=> s = "CANCELLED")
    BY <2>1
  <2>. QED BY <2>1, <2>2 DEF Statuses
<1>. QED BY <1>1, <1>2

LEMMA TransitionWritePreserves ==
    ASSUME IInv, NEW w \in Workers, TransitionWrite(w), UNCHANGED fundingVars
    PROVE  IInv'
<1>1. PICK path \in Paths : path = task[w].path
  BY InHandTells DEF TransitionWrite, At, Transitioning
<1>2. PICK s \in Statuses : s = Head(path)
  BY PathsLead
<1>3. /\ task[w] \in Transitioning /\ task[w] # None
      /\ task[w].op = "transition" /\ task[w].pc = "write"
  BY InHandTells DEF TransitionWrite, At
<1>4. /\ deal' = [deal EXCEPT !.status = s]
      /\ approved' = IF s = "APPROVED" THEN offer ELSE approved
      /\ UNCHANGED <<offer, edits, status, escrow, booked, deposited>>
  BY <1>1, <1>2 DEF TransitionWrite, fundingVars
<1>5. /\ s \notin {"none", "FUNDING", "FUNDED"}
      /\ s = "CANCELLED" <=> path = <<"CANCELLED">>
  BY <1>2, PathsLead
<1>6. deal' \in [status : Statuses, total : Nat] /\ deal'.status = s
  BY <1>4 DEF IInv, Shapes
<1>7. /\ task' \in [Workers -> InHand]
      /\ \A v \in Workers \ {w} : task'[v] = task[v]
      /\ overlapped' = overlapped
      /\ \/ task'[w] = None
         \/ /\ task'[w].op = "transition"
            /\ task'[w].pc = "read"
            /\ task'[w].path \in {<<"APPROVED">>, <<"REJECTED">>}
            /\ task'[w].path # <<"CANCELLED">>
            /\ s = "UNDER_REVIEW"
  <2>1. CASE Len(path) = 1
    <3>1. Finish(w)
      BY <1>1, <2>1 DEF TransitionWrite
    <3>. QED BY <3>1, Finishing DEF IInv
  <2>2. CASE Len(path) # 1
    <3>. DEFINE t == [task[w] EXCEPT !.pc = "read", !.path = Tail(path)]
    <3>1. Continue(w, t)
      BY <1>1, <2>2 DEF TransitionWrite
    <3>2. /\ Tail(path) \in Paths
          /\ Tail(path) \in {<<"APPROVED">>, <<"REJECTED">>}
          /\ Tail(path) # <<"CANCELLED">>
          /\ s = "UNDER_REVIEW"
      BY <1>2, <2>2, PathsLead
    <3>3. t \in Transitioning /\ t.op = "transition" /\ t.pc = "read" /\ t.path = Tail(path)
      BY <1>3, <3>2 DEF Transitioning
    <3>4. t \in InHand
      BY <3>3 DEF InHand
    <3>. HIDE DEF t
    <3>. QED BY <3>1, <3>2, <3>3, <3>4, Continuing DEF IInv
  <2>. QED BY <2>1, <2>2
<1>8. None.op = "none"
  BY DEF None
<1>9. task'[w].op \in {"none", "transition"}
  BY <1>7, <1>8
<1>10. Shapes'
  BY <1>4, <1>6, <1>7 DEF IInv, Shapes
<1>11. Opened' => Opened
  BY <1>4, <1>5, <1>6, <1>7, <1>9 DEF Opened
<1>12. OpenedForGood'
  <2>. SUFFICES ASSUME Opened'
                PROVE  /\ deal'.status \in {"FUNDING", "FUNDED", "CANCELLED"}
                       /\ \A v \in Workers :
                            /\ task'[v].op # "edit"
                            /\ task'[v].op = "transition" => task'[v].path = <<"CANCELLED">>
    BY DEF OpenedForGood
  <2>1. path = <<"CANCELLED">>
    BY <1>1, <1>3, <1>11 DEF IInv, OpenedForGood
  <2>2. s = "CANCELLED"
    BY <1>5, <2>1
  <2>3. task'[w] = None
    BY <1>7, <2>2
  <2>. QED BY <1>6, <1>7, <1>8, <1>11, <2>2, <2>3 DEF IInv, OpenedForGood
<1>13. Sound'
  <2>1. Economical(offer)
    BY <1>3 DEF IInv, Sound
  <2>2. s # "CANCELLED" => offer.text # NoText
    BY <1>1, <1>3, <1>5 DEF IInv, Sound
  <2>3. deal'.status \in Reviewed \/ Opened' => offer.text # NoText
    BY <1>6, <1>11, <2>2 DEF IInv, Sound, Reviewed
  <2>4. \A v \in Workers :
           task'[v].op = "transition" /\ task'[v].path # <<"CANCELLED">> => offer.text # NoText
    BY <1>7, <1>8, <2>2 DEF IInv, Sound
  <2>5. Economical(offer)' /\ offer' = offer
    BY <1>4, <2>1
  <2>. QED BY <1>5, <1>6, <2>3, <2>4, <2>5 DEF Sound
<1>14. Priced'
  <2>1. \A i : Amount(i)' = Amount(i)
    BY <1>4 DEF Amount
  <2>. QED BY <1>4, <1>7, <1>9, <2>1 DEF IInv, Priced
<1>15. OneByOne'
  <2>. SUFFICES ASSUME ~ overlapped' PROVE OneByOne'
    BY DEF OneByOne
  <2>1. /\ \A v \in Workers \ {w} : task'[v] = None
        /\ s \in DealTransitions[deal.status]
    BY <1>1, <1>2, <1>3, <1>7, Alone DEF Fits
  <2>2. \A v \in Workers : Fits(task[v])'
    BY <1>6, <1>7, <1>8, <2>1 DEF Fits
  <2>3. s \in Offered \/ Opened' => offer = approved'
    <3>1. CASE s = "APPROVED"
      BY <1>4, <3>1
    <3>2. CASE s \in Offered /\ s # "APPROVED"
      <4>1. deal.status \in Statuses
        BY DEF IInv, Shapes
      <4>2. deal.status \in Offered
        BY <1>2, <1>5, <2>1, <3>2, <4>1, PathsAndStatuses DEF Offered
      <4>. QED BY <1>4, <1>7, <3>2, <4>2 DEF IInv, OneByOne
    <3>3. CASE s \notin Offered
      BY <1>4, <1>7, <1>11, <3>3 DEF IInv, OneByOne, Offered
    <3>. QED BY <3>1, <3>2, <3>3
  <2>. QED BY <1>4, <1>6, <2>1, <2>2, <2>3 DEF OneByOne
<1>16. OneOutcomeOneByOne'
  BY <1>4, <1>7 DEF IInv, OneOutcomeOneByOne
<1>. QED BY <1>10, <1>12, <1>13, <1>14, <1>15, <1>16 DEF IInv

LEMMA TransitionReadPreserves ==
    ASSUME IInv, NEW w \in Workers, TransitionRead(w), UNCHANGED fundingVars
    PROVE  IInv'
<1>1. /\ task[w] \in Transitioning /\ task[w] # None /\ task[w].op = "transition"
      /\ UNCHANGED <<deal, offer, approved, edits, status, escrow, booked, deposited>>
  BY InHandTells DEF TransitionRead, At, offerVars, fundingVars
<1>2. /\ task' \in [Workers -> InHand]
      /\ \A v \in Workers \ {w} : task'[v] = task[v]
      /\ overlapped' = overlapped
      /\ \/ task'[w] = None
         \/ /\ task'[w].op = "transition"
            /\ task'[w].pc = "write"
            /\ task'[w].path = task[w].path
            /\ Head(task[w].path) \in DealTransitions[deal.status]
  <2>1. CASE Allowed(task[w].path)
    <3>. DEFINE t == [task[w] EXCEPT !.pc = "write"]
    <3>1. Continue(w, t)
      BY <2>1 DEF TransitionRead
    <3>2. t \in Transitioning /\ t.op = "transition" /\ t.pc = "write" /\ t.path = task[w].path
      BY <1>1 DEF Transitioning
    <3>3. t \in InHand
      BY <3>2 DEF InHand
    <3>. HIDE DEF t
    <3>. QED BY <2>1, <3>1, <3>2, <3>3, Continuing DEF IInv, Allowed
  <2>2. CASE ~ Allowed(task[w].path)
    <3>1. Finish(w)
      BY <2>2 DEF TransitionRead
    <3>. QED BY <3>1, Finishing DEF IInv
  <2>. QED BY <2>1, <2>2
<1>3. None.op = "none"
  BY DEF None
<1>4. task'[w].op \in {"none", "transition"}
  BY <1>2, <1>3
<1>5. Shapes'
  BY <1>1, <1>2 DEF IInv, Shapes
<1>6. Opened' => Opened
  BY <1>1, <1>2, <1>4 DEF Opened
<1>7. OpenedForGood'
  BY <1>1, <1>2, <1>3, <1>4, <1>6 DEF IInv, OpenedForGood
<1>8. Sound'
  BY <1>1, <1>2, <1>3, <1>6 DEF IInv, Sound
<1>9. Priced'
  <2>1. \A i : Amount(i)' = Amount(i)
    BY <1>1 DEF Amount
  <2>. QED BY <1>1, <1>2, <1>4, <2>1 DEF IInv, Priced
<1>10. OneByOne'
  <2>. SUFFICES ASSUME ~ overlapped' PROVE OneByOne'
    BY DEF OneByOne
  <2>1. \A v \in Workers \ {w} : task'[v] = None
    BY <1>1, <1>2, Alone
  <2>2. \A v \in Workers : Fits(task[v])'
    BY <1>1, <1>2, <1>3, <2>1 DEF Fits
  <2>. QED BY <1>1, <1>2, <1>6, <2>1, <2>2 DEF IInv, OneByOne
<1>11. OneOutcomeOneByOne'
  BY <1>1, <1>2 DEF IInv, OneOutcomeOneByOne
<1>. QED BY <1>5, <1>7, <1>8, <1>9, <1>10, <1>11 DEF IInv

LEMMA OpenFundingPreserves ==
    ASSUME IInv, OpenFunding, UNCHANGED fundingVars
    PROVE  IInv'
<1>1. /\ deal.status = "PUBLISHED"
      /\ \A w \in Workers : task[w] = None
      /\ deal' = [deal EXCEPT !.status = "FUNDING"]
      /\ edits' = 0
      /\ UNCHANGED <<offer, approved, task, overlapped, status, escrow, booked, deposited>>
  BY DEF OpenFunding, fundingVars
<1>2. deal' \in [status : Statuses, total : Nat] /\ deal'.status = "FUNDING"
  BY <1>1 DEF IInv, Shapes, Statuses
<1>3. Shapes'
  BY <1>1, <1>2, LifecycleAssumption DEF IInv, Shapes
<1>4. None.op = "none"
  BY DEF None
<1>5. OpenedForGood'
  BY <1>1, <1>2, <1>4 DEF OpenedForGood
<1>6. Sound'
  <2>1. Economical(offer) /\ offer.text # NoText
    BY <1>1 DEF IInv, Sound, Reviewed, DealTransitions
  <2>2. Economical(offer)'
    BY <1>1, <2>1
  <2>. QED BY <1>1, <1>2, <1>4, <2>1, <2>2 DEF Sound
<1>7. Priced'
  <2>1. \A i : Amount(i)' = Amount(i)
    BY <1>1 DEF Amount
  <2>. QED BY <1>1, <1>4, <2>1 DEF IInv, Priced
<1>8. OneByOne'
  <2>1. \A w \in Workers : Fits(task[w])'
    BY <1>1, <1>4 DEF Fits
  <2>2. ~ overlapped => offer = approved
    BY <1>1 DEF IInv, OneByOne, Offered
  <2>. QED BY <1>1, <2>1, <2>2 DEF OneByOne
<1>9. OneOutcomeOneByOne'
  BY <1>1 DEF IInv, OneOutcomeOneByOne
<1>. QED BY <1>3, <1>5, <1>6, <1>7, <1>8, <1>9 DEF IInv

----------------------------------------------------------------------------
(***************************************************************************)
(* The inductive invariant.                                                *)
(***************************************************************************)
LEMMA InitIsInductive == Init => IInv
<1>. SUFFICES ASSUME Init PROVE IInv
  OBVIOUS
<1>1. /\ deal = [status |-> "none", total |-> 0]
      /\ offer = NoOffer /\ approved = NoOffer /\ edits = 0
      /\ task = [w \in Workers |-> None]
      /\ overlapped = FALSE
      /\ status = [i \in Investments |-> "none"]
      /\ escrow = 0
      /\ booked = [k \in Keys |-> 0]
      /\ deposited = 0
  BY DEF Init, LifecycleInit
<1>2. None \in InHand /\ None.op = "none"
  BY DEF InHand, None
<1>3. Shapes
  <2>1. deal \in [status : Statuses, total : Nat]
    BY <1>1 DEF Statuses
  <2>2. offer \in Offers /\ approved \in Offers
    BY <1>1, FieldsOfOffer
  <2>3. edits \in 0 .. MaxEdits
    BY <1>1, LifecycleAssumption
  <2>4. task \in [Workers -> InHand]
    BY <1>1, <1>2
  <2>5. status \in [Investments -> {"none", "PENDING", "CONFIRMED", "FAILED", "REFUNDED"}]
    BY <1>1
  <2>6. booked \in [Keys -> Nat]
    BY <1>1
  <2>. QED BY <1>1, <2>1, <2>2, <2>3, <2>4, <2>5, <2>6 DEF Shapes
<1>4. ~ Opened
  BY <1>1, <1>2 DEF Opened
<1>5. OpenedForGood
  BY <1>4 DEF OpenedForGood
<1>6. Sound
  BY <1>1, <1>2, <1>4 DEF Sound, Reviewed
<1>7. Priced
  BY <1>1, <1>2 DEF Priced
<1>8. OneByOne
  BY <1>1, <1>2 DEF OneByOne, Fits
<1>9. OneOutcomeOneByOne
  <2>1. \A i \in Investments :
          status[i] = "none" /\ booked[<<"fail", i>>] = 0 /\ booked[<<"confirm", i>>] = 0
    BY <1>1, KeysOfInvestments
  <2>. QED BY <2>1 DEF OneOutcomeOneByOne
<1>. QED BY <1>3, <1>5, <1>6, <1>7, <1>8, <1>9 DEF IInv

LEMMA NextPreserves == IInv /\ [Next]_vars => IInv'
<1>. SUFFICES ASSUME IInv, [Next]_vars PROVE IInv'
  OBVIOUS
<1>1. ASSUME LifecycleStep, UNCHANGED fundingVars PROVE IInv'
  BY <1>1, CreateDealPreserves, OpenFundingPreserves, EditReadPreserves, TextWritePreserves,
     OfferWritePreserves, SubmitPreserves, ReviewPreserves,
     MarkSmartContractCreatedPreserves, PublishPreserves, CancelPreserves,
     TransitionReadPreserves, TransitionWritePreserves
  DEF LifecycleStep
<1>2. ASSUME NEW w \in Workers, NEW i \in Investments,
             CreateRead(w, i) \/ ConfirmRead(w, i) \/ FailRead(w, i) \/ RefundRead(w, i)
      PROVE  IInv'
  BY <1>2, CreateReadPreserves, ConfirmReadPreserves, FailReadPreserves, RefundReadPreserves
<1>3. ASSUME NEW w \in Workers,
             \/ CreateWrite(w) \/ ConfirmReadDeal(w) \/ ConfirmWrite(w) \/ FailWrite(w)
             \/ RefundReadEscrow(w) \/ RefundWrite(w) \/ Abort(w)
      PROVE  IInv'
  BY <1>3, CreateWritePreserves, ConfirmReadDealPreserves, ConfirmWritePreserves,
     FailWritePreserves, RefundReadEscrowPreserves, RefundWritePreserves, AbortPreserves
<1>4. ASSUME UNCHANGED vars PROVE IInv'
  <2>1. UNCHANGED <<deal, offer, approved, edits, task, overlapped, status, escrow, booked, deposited>>
    BY <1>4 DEF vars, offerVars, fundingVars
  <2>. QED
    BY <2>1 DEF IInv, Shapes, OpenedForGood, Opened, Sound, Priced, Amount, Economical,
                OneByOne, Fits, OneOutcomeOneByOne
<1>. QED BY <1>1, <1>2, <1>3, <1>4 DEF Next

THEOREM Invariance == Spec => []IInv
  BY InitIsInductive, NextPreserves, PTL DEF Spec

(***************************************************************************)
(* deals.service.ts, deal-lifecycle.service.ts, investments.service.ts:    *)
(* the deal, its economics and every request are well formed, and no       *)
(* amount is ever negative.                                                *)
(***************************************************************************)
THEOREM TypeCorrect == Spec => []TypeOK
<1>1. IInv => TypeOK
  <2>. SUFFICES ASSUME IInv PROVE TypeOK
    OBVIOUS
  <2>1. DOMAIN DealTransitions = Statuses
    BY DEF DealTransitions, Statuses
  <2>2. LifecycleTypeOK
    BY <2>1, FieldsOfOffer, OffersAreFunctions DEF IInv, Shapes, LifecycleTypeOK
  <2>3. \A w \in Workers :
          task[w].op \in {"none", "edit", "transition", "create", "include", "confirm",
                         "fail", "weigh", "refund"}
    BY OperationTells DEF IInv, Shapes
  <2>. QED BY <2>2, <2>3 DEF IInv, Shapes, TypeOK
<1>. QED BY <1>1, Invariance, PTL

(***************************************************************************)
(* deals.service.ts update, submit, approve: a deal under review and after *)
(* is complete, and offers what was approved as long as no two requests    *)
(* overlap.                                                                *)
(***************************************************************************)
THEOREM OfferedAsReviewed == Spec => []OfferedAsApproved
<1>1. IInv => OfferedAsApproved
  BY DEF IInv, Sound, OneByOne, OfferedAsApproved, Reviewed
<1>. QED BY <1>1, Invariance, PTL

(***************************************************************************)
(* investments.service.ts confirm, fail, refund: as long as no two         *)
(* requests overlap, what is booked for an investment is what its status   *)
(* says.                                                                   *)
(***************************************************************************)
THEOREM OneOutcome == Spec => []OneOutcomeOneByOne
<1>1. IInv => OneOutcomeOneByOne
  BY DEF IInv
<1>. QED BY <1>1, Invariance, PTL

----------------------------------------------------------------------------
(***************************************************************************)
(* What confirm moves into escrow.                                         *)
(***************************************************************************)
Moved == [i \in Investments |-> booked[<<"confirm", i>>]]

MovedByOthers(i) == SumFunctionOnSet(Moved, Investments \ {i})

MovedOnce ==
    \A i \in Investments :
        /\ Moved[i] \in {0, Amount(i)}
        /\ status[i] \in {"none", "PENDING"} => Moved[i] = 0

\* The total a request has read was deposited.
ReadIsDeposited ==
    \A w \in Workers : task[w].op = "confirm" => task[w].total <= deposited

DepositInv == MovedOnce /\ ReadIsDeposited /\ TotalIsDeposited

LEMMA MovedSums ==
    ASSUME Shapes
    PROVE  /\ Moved \in [Investments -> Nat]
           /\ Posted("confirm") \in Nat
           /\ \A i \in Investments : /\ MovedByOthers(i) \in Nat
                                     /\ Posted("confirm") = Moved[i] + MovedByOthers(i)
<1>1. Moved \in [Investments -> Nat]
  BY KeysOfInvestments DEF Shapes, Moved
<1>2. Posted("confirm") = SumFunctionOnSet(Moved, Investments)
  BY DEF Posted, Moved, SumFunction
<1>3. SumFunctionOnSet(Moved, Investments) \in Nat
  BY <1>1, SumOfNaturals, FundingAssumption
<1>4. ASSUME NEW i \in Investments
      PROVE  /\ MovedByOthers(i) \in Nat
             /\ Posted("confirm") = Moved[i] + MovedByOthers(i)
  <2>1. IsFiniteSet(Investments \ {i}) /\ \A j \in Investments \ {i} : Moved[j] \in Nat
    BY <1>1, FundingAssumption, FS_Subset
  <2>2. MovedByOthers(i) \in Nat
    BY <2>1, SumOfNaturals DEF MovedByOthers
  <2>3. \A j \in Investments : Moved[j] \in Int
    BY <1>1
  <2>4. SumFunctionOnSet(Moved, Investments) = Moved[i] + SumFunctionOnSet(Moved, Investments \ {i})
    BY <2>3, SumWithout, FundingAssumption
  <2>. QED BY <1>2, <2>2, <2>4 DEF MovedByOthers
<1>. QED BY <1>1, <1>2, <1>3, <1>4

LEMMA MovedSumsNext ==
    ASSUME Shapes'
    PROVE  /\ Moved' \in [Investments -> Nat]
           /\ (Posted("confirm"))' \in Nat
           /\ \A i \in Investments : /\ (MovedByOthers(i))' \in Nat
                                     /\ (Posted("confirm"))' = Moved'[i] + (MovedByOthers(i))'
<1>1. Moved' \in [Investments -> Nat]
  BY KeysOfInvestments DEF Shapes, Moved
<1>2. (Posted("confirm"))' = SumFunctionOnSet(Moved', Investments)
  BY DEF Posted, Moved, SumFunction
<1>3. SumFunctionOnSet(Moved', Investments) \in Nat
  BY <1>1, SumOfNaturals, FundingAssumption
<1>4. ASSUME NEW i \in Investments
      PROVE  /\ (MovedByOthers(i))' \in Nat
             /\ (Posted("confirm"))' = Moved'[i] + (MovedByOthers(i))'
  <2>1. IsFiniteSet(Investments \ {i}) /\ \A j \in Investments \ {i} : Moved'[j] \in Nat
    BY <1>1, FundingAssumption, FS_Subset
  <2>2. (MovedByOthers(i))' \in Nat
    BY <2>1, SumOfNaturals DEF MovedByOthers
  <2>3. \A j \in Investments : Moved'[j] \in Int
    BY <1>1
  <2>4. SumFunctionOnSet(Moved', Investments) = Moved'[i] + SumFunctionOnSet(Moved', Investments \ {i})
    BY <2>3, SumWithout, FundingAssumption
  <2>. QED BY <1>2, <2>2, <2>4 DEF MovedByOthers
<1>. QED BY <1>1, <1>2, <1>3, <1>4

\* What others have moved never shrinks, and stays while nothing is moved.
LEMMA OthersStay ==
    ASSUME NEW i \in Investments, \A j \in Investments \ {i} : Moved'[j] = Moved[j]
    PROVE  (MovedByOthers(i))' = MovedByOthers(i)
<1>1. IsFiniteSet(Investments \ {i})
  BY FundingAssumption, FS_Subset
<1>. QED BY <1>1, SumAgree DEF MovedByOthers

LEMMA DepositsStay ==
    ASSUME IInv, DepositInv, UNCHANGED <<deal, offer, deposited>>,
           \A i \in Investments : booked'[<<"confirm", i>>] = booked[<<"confirm", i>>],
           \A i \in Investments : status'[i] \in {"none", "PENDING"} => status[i] \in {"none", "PENDING"},
           \A w \in Workers :
              task'[w].op = "confirm" => task'[w] = task[w] \/ task'[w].total = deal.total
    PROVE  DepositInv'
<1>1. Moved' = Moved
  BY DEF Moved
<1>2. \A i : Amount(i)' = Amount(i)
  BY DEF Amount
<1>3. MovedOnce'
  BY <1>1, <1>2 DEF DepositInv, MovedOnce
<1>4. TotalIsDeposited'
  BY DEF DepositInv, TotalIsDeposited, Target
<1>5. ReadIsDeposited'
  BY DEF DepositInv, ReadIsDeposited, TotalIsDeposited
<1>. QED BY <1>3, <1>4, <1>5 DEF DepositInv

LEMMA ConfirmWriteDeposits ==
    ASSUME IInv, DepositInv, NEW w \in Workers, ConfirmWrite(w)
    PROVE  DepositInv'
<1>1. PICK i \in Investments : i = task[w].inv
  BY InHandTells DEF ConfirmWrite
<1>2. /\ task[w].op = "confirm" /\ task[w] # None
      /\ task[w].total \in Nat /\ Amount(i) \in Nat /\ Amount(i) > 0
  BY <1>1, InHandTells DEF ConfirmWrite
<1>. DEFINE total == task[w].total + Amount(i)
<1>3. /\ status' = [status EXCEPT ![i] = "CONFIRMED"]
      /\ booked' = Post(<<"confirm", i>>, Amount(i))
      /\ deal' = [status |-> IF total >= Target THEN "FUNDED" ELSE deal.status, total |-> total]
      /\ deposited' = deposited + Amount(i)
      /\ UNCHANGED offer
      /\ Finish(w)
  BY <1>1 DEF ConfirmWrite, NewTotal, offerVars
<1>4. /\ task'[w] = None
      /\ \A v \in Workers \ {w} : task'[v] = task[v]
  BY <1>3, Finishing DEF IInv
<1>5. \A j : Amount(j)' = Amount(j)
  BY <1>3 DEF Amount
<1>6. /\ Moved'[i] = Amount(i)
      /\ \A j \in Investments \ {i} : Moved'[j] = Moved[j]
  <2>1. booked'[<<"confirm", i>>] = IF booked[<<"confirm", i>>] = 0 THEN Amount(i)
                                    ELSE booked[<<"confirm", i>>]
    BY <1>3, KeysOfInvestments DEF IInv, Shapes, Post
  <2>2. \A j \in Investments \ {i} : booked'[<<"confirm", j>>] = booked[<<"confirm", j>>]
    BY <1>3, KeysOfInvestments DEF IInv, Shapes, Post
  <2>. QED BY <2>1, <2>2 DEF Moved, DepositInv, MovedOnce
<1>7. MovedOnce'
  BY <1>3, <1>5, <1>6 DEF DepositInv, MovedOnce, IInv, Shapes
<1>. HIDE DEF total
<1>8. /\ deposited \in Nat /\ deposited' = deposited + Amount(i)
      /\ task[w].total <= deposited
  BY <1>2, <1>3 DEF DepositInv, ReadIsDeposited, IInv, Shapes
<1>9. TotalIsDeposited'
  <2>1. deal'.total = total /\ total <= deposited' /\ total \in Nat
    BY <1>2, <1>3, <1>8 DEF total
  <2>2. Target \in Nat /\ Target' = Target
    BY <1>3 DEF Target, IInv, Shapes, Offers, Economics
  <2>3. deal'.status = "FUNDED" => deposited' >= Target
    <3>1. CASE total >= Target
      BY <1>2, <1>8, <2>1, <2>2, <3>1
    <3>2. CASE deal.status = "FUNDED"
      BY <1>2, <1>8, <2>2, <3>2 DEF DepositInv, TotalIsDeposited
    <3>. QED BY <1>3, <3>1, <3>2
  <2>. QED BY <2>1, <2>2, <2>3 DEF TotalIsDeposited
<1>10. ReadIsDeposited'
  <2>1. ASSUME NEW v \in Workers, task'[v].op = "confirm"
        PROVE  task'[v].total <= deposited'
    <3>1. task'[v] = task[v] /\ task[v].op = "confirm"
      BY <1>4, <2>1 DEF None
    <3>2. task[v].total \in Nat /\ task[v].total <= deposited
      BY <3>1, InHandTells DEF DepositInv, ReadIsDeposited
    <3>. QED BY <1>2, <1>8, <3>1, <3>2
  <2>. QED BY <2>1 DEF ReadIsDeposited
<1>. QED BY <1>7, <1>9, <1>10 DEF DepositInv

FundingOps == {"create", "include", "confirm", "fail", "weigh", "refund"}

\* A step of the deal's own operations leaves the requests for investments
\* alone, and the deal they are for: only a deal that was not opened changes.
LifecycleKept ==
    /\ \A w \in Workers :
          task[w].op \in FundingOps \/ task'[w].op \in FundingOps => task'[w] = task[w]
    /\ deal'.total \in {deal.total, 0}
    /\ deal'.status = "FUNDED" => deal.status = "FUNDED"
    /\ Opened => offer' = offer /\ deal'.total = deal.total

LEMMA OthersKept ==
    ASSUME IInv, NEW w \in Workers, NEW t, task' = [task EXCEPT ![w] = t],
           t.op \notin FundingOps, task[w].op \notin FundingOps
    PROVE  \A v \in Workers :
              task[v].op \in FundingOps \/ task'[v].op \in FundingOps => task'[v] = task[v]
  BY DEF IInv, Shapes

LEMMA LifecycleKeeps ==
    ASSUME IInv, LifecycleStep
    PROVE  LifecycleKept
<1>1. None.op = "none" /\ "none" \notin FundingOps /\ "edit" \notin FundingOps
      /\ "transition" \notin FundingOps
  BY DEF None, FundingOps
<1>2. ASSUME NEW d \in Drafts, CreateDeal(d) PROVE LifecycleKept
  <2>1. ~ Opened
    BY <1>2 DEF CreateDeal, IInv, OpenedForGood
  <2>. QED BY <1>2, <2>1 DEF CreateDeal, LifecycleKept
<1>3. ASSUME OpenFunding PROVE LifecycleKept
  BY <1>3 DEF OpenFunding, LifecycleKept, IInv, Shapes
<1>4. ASSUME NEW w \in Workers, NEW t, Begin(w, t), t.op \in {"edit", "transition"},
             UNCHANGED <<deal, offer>>
      PROVE  LifecycleKept
  BY <1>1, <1>4, OthersKept DEF Begin, LifecycleKept
<1>5. ASSUME NEW w \in Workers, NEW edit \in Edits, EditRead(w, edit) PROVE LifecycleKept
  BY <1>4, <1>5 DEF EditRead
<1>6. ASSUME NEW w \in Workers, TextWrite(w) PROVE LifecycleKept
  <2>1. task[w] \in Editing /\ task[w].op = "edit" /\ ~ Opened /\ UNCHANGED deal
    BY <1>6, InHandTells DEF TextWrite, At, IInv, OpenedForGood
  <2>2. [task[w] EXCEPT !.pc = "fields"].op = "edit"
    BY <2>1 DEF Editing
  <2>3. \E t : task' = [task EXCEPT ![w] = t] /\ t.op \in {"none", "edit"}
    BY <1>1, <1>6, <2>2 DEF TextWrite, Finish, Continue
  <2>. QED BY <1>1, <2>1, <2>3, OthersKept DEF LifecycleKept
<1>7. ASSUME NEW w \in Workers, OfferWrite(w) PROVE LifecycleKept
  <2>1. task[w].op = "edit" /\ ~ Opened /\ UNCHANGED deal /\ task' = [task EXCEPT ![w] = None]
    BY <1>7 DEF OfferWrite, At, Finish, Continue, IInv, OpenedForGood
  <2>. QED BY <1>1, <2>1, OthersKept DEF LifecycleKept
<1>8. ASSUME NEW w \in Workers, NEW path, StartTransition(w, path) PROVE LifecycleKept
  BY <1>4, <1>8 DEF StartTransition, offerVars
<1>9. ASSUME NEW w \in Workers, TransitionRead(w) PROVE LifecycleKept
  <2>1. task[w] \in Transitioning /\ task[w].op = "transition" /\ UNCHANGED <<deal, offer>>
    BY <1>9, InHandTells DEF TransitionRead, At, offerVars
  <2>2. [task[w] EXCEPT !.pc = "write"].op = "transition"
    BY <2>1 DEF Transitioning
  <2>3. \E t : task' = [task EXCEPT ![w] = t] /\ t.op \in {"none", "transition"}
    BY <1>1, <1>9, <2>2 DEF TransitionRead, Finish, Continue
  <2>. QED BY <1>1, <2>1, <2>3, OthersKept DEF LifecycleKept
<1>10. ASSUME NEW w \in Workers, TransitionWrite(w) PROVE LifecycleKept
  <2>1. /\ task[w] \in Transitioning /\ task[w].op = "transition" /\ UNCHANGED offer
        /\ deal' = [deal EXCEPT !.status = Head(task[w].path)]
    BY <1>10, InHandTells DEF TransitionWrite, At
  <2>2. [task[w] EXCEPT !.pc = "read", !.path = Tail(task[w].path)].op = "transition"
    BY <2>1 DEF Transitioning
  <2>3. \E t : task' = [task EXCEPT ![w] = t] /\ t.op \in {"none", "transition"}
    BY <1>1, <1>10, <2>2 DEF TransitionWrite, Finish, Continue
  <2>4. Head(task[w].path) # "FUNDED"
    BY <2>1, PathsLead DEF Transitioning
  <2>5. deal'.total = deal.total /\ deal'.status # "FUNDED"
    BY <2>1, <2>4 DEF IInv, Shapes
  <2>. QED BY <1>1, <2>1, <2>3, <2>5, OthersKept DEF LifecycleKept
<1>. QED
  BY <1>2, <1>3, <1>5, <1>6, <1>7, <1>8, <1>9, <1>10
  DEF LifecycleStep, Submit, Review, MarkSmartContractCreated, Publish, Cancel

LEMMA LifecycleDeposits ==
    ASSUME IInv, DepositInv, LifecycleStep, UNCHANGED fundingVars
    PROVE  DepositInv'
<1>1. LifecycleKept
  BY LifecycleKeeps
<1>2. Moved' = Moved /\ deposited' = deposited /\ status' = status
  BY DEF fundingVars, Moved
<1>3. MovedOnce'
  <2>1. CASE Opened
    <3>1. \A j : Amount(j)' = Amount(j)
      BY <1>1, <2>1 DEF LifecycleKept, Amount
    <3>. QED BY <1>2, <3>1 DEF DepositInv, MovedOnce
  <2>2. CASE ~ Opened
    BY <1>2, <2>2, UnopenedDeal DEF DepositInv, MovedOnce
  <2>. QED BY <2>1, <2>2
<1>4. ReadIsDeposited'
  BY <1>1, <1>2 DEF DepositInv, ReadIsDeposited, LifecycleKept, FundingOps
<1>5. TotalIsDeposited'
  <2>1. deal'.total <= deposited
    BY <1>1 DEF LifecycleKept, DepositInv, TotalIsDeposited, IInv, Shapes
  <2>2. deal'.status = "FUNDED" => deposited >= Target'
    BY <1>1 DEF LifecycleKept, DepositInv, TotalIsDeposited, Opened, Target
  <2>. QED BY <1>2, <2>1, <2>2 DEF TotalIsDeposited
<1>. QED BY <1>3, <1>4, <1>5 DEF DepositInv

LEMMA DepositNext == IInv /\ DepositInv /\ [Next]_vars => DepositInv'
<1>. SUFFICES ASSUME IInv, DepositInv, [Next]_vars PROVE DepositInv'
  OBVIOUS
<1>1. ASSUME NEW w \in Workers, NEW i \in Investments,
             CreateRead(w, i) \/ ConfirmRead(w, i) \/ FailRead(w, i) \/ RefundRead(w, i)
      PROVE  DepositInv'
  <2>1. PICK t \in {[op |-> "create", inv |-> i], [op |-> "include", inv |-> i],
                    [op |-> "fail", inv |-> i], [op |-> "weigh", inv |-> i]} :
          Begin(w, t) /\ UNCHANGED <<deal, offer, status, booked, deposited>>
    BY <1>1 DEF CreateRead, ConfirmRead, FailRead, RefundRead, offerVars, fundingVars
  <2>2. t.op # "confirm"
    OBVIOUS
  <2>3. \A v \in Workers : task'[v].op = "confirm" => task'[v] = task[v]
    BY <2>1, <2>2 DEF Begin, IInv, Shapes
  <2>. QED BY <2>1, <2>3, DepositsStay
<1>2. ASSUME NEW w \in Workers, ConfirmReadDeal(w) \/ RefundReadEscrow(w)
      PROVE  DepositInv'
  <2>1. PICK t \in {[op |-> "confirm", inv |-> task[w].inv, total |-> deal.total],
                    [op |-> "refund", inv |-> task[w].inv, balance |-> escrow]} :
          /\ task' = [task EXCEPT ![w] = t]
          /\ UNCHANGED <<deal, offer, status, booked, deposited>>
    BY <1>2 DEF ConfirmReadDeal, RefundReadEscrow, Continue, offerVars, fundingVars
  <2>2. t.op = "confirm" => t.total = deal.total
    OBVIOUS
  <2>3. \A v \in Workers :
           task'[v].op = "confirm" => task'[v] = task[v] \/ task'[v].total = deal.total
    BY <2>1, <2>2 DEF IInv, Shapes
  <2>. QED BY <2>1, <2>3, DepositsStay
<1>3. ASSUME NEW w \in Workers, CreateWrite(w) \/ FailWrite(w) \/ RefundWrite(w) \/ Abort(w)
      PROVE  DepositInv'
  <2>1. \A v \in Workers : task'[v].op = "confirm" => task'[v] = task[v]
    <3>1. Finish(w)
      BY <1>3 DEF CreateWrite, FailWrite, RefundWrite, Abort
    <3>. QED BY <3>1, Finishing DEF IInv, None
  <2>2. UNCHANGED <<deal, offer, deposited>>
    BY <1>3 DEF CreateWrite, FailWrite, RefundWrite, Abort, offerVars, fundingVars
  <2>3. \A i \in Investments : booked'[<<"confirm", i>>] = booked[<<"confirm", i>>]
    <3>1. CASE Abort(w)
      BY <3>1 DEF Abort, fundingVars
    <3>2. CASE CreateWrite(w) \/ FailWrite(w) \/ RefundWrite(w)
      <4>1. booked' = booked \/ \E op \in {"create", "fail", "refund"} :
                \E a : booked' = Post(<<op, task[w].inv>>, a)
        BY <3>2 DEF CreateWrite, FailWrite, RefundWrite
      <4>. QED BY <4>1, KeysOfInvestments DEF Post, IInv, Shapes
    <3>. QED BY <1>3, <3>1, <3>2
  <2>4. \A i \in Investments : status'[i] \in {"none", "PENDING"} => status[i] \in {"none", "PENDING"}
    BY <1>3 DEF CreateWrite, FailWrite, RefundWrite, Abort, fundingVars, IInv, Shapes
  <2>. QED BY <2>1, <2>2, <2>3, <2>4, DepositsStay
<1>4. ASSUME UNCHANGED vars PROVE DepositInv'
  BY <1>4, DepositsStay DEF vars, fundingVars, offerVars
<1>. QED
  BY <1>1, <1>2, <1>3, <1>4, ConfirmWriteDeposits, LifecycleDeposits DEF Next

LEMMA DepositInit == Init => DepositInv
<1>. SUFFICES ASSUME Init PROVE DepositInv
  OBVIOUS
<1>1. \A i \in Investments : Moved[i] = 0
  BY KeysOfInvestments DEF Init, Moved
<1>2. deal.total = 0 /\ deal.status = "none" /\ deposited = 0 /\ \A w \in Workers : task[w] = None
  BY DEF Init, LifecycleInit
<1>. QED BY <1>1, <1>2 DEF DepositInv, MovedOnce, ReadIsDeposited, TotalIsDeposited, None

(***************************************************************************)
(* investments.service.ts confirm: however confirmations overlap with each *)
(* other and with every other request, totalInvested counts only what was  *)
(* recorded as deposited in escrow, and a deal is FUNDED on its target.    *)
(***************************************************************************)
THEOREM FundedOnDeposits == Spec => []TotalIsDeposited
<1>1. DepositInv => TotalIsDeposited
  BY DEF DepositInv
<1>. QED BY <1>1, DepositInit, DepositNext, Invariance, PTL DEF Spec

----------------------------------------------------------------------------
(***************************************************************************)
(* The books, one request at a time.                                       *)
(***************************************************************************)
\* What refund moves out of escrow again.
Returned == [i \in Investments |-> booked[<<"refund", i>>]]

MoneyBalances ==
    /\ \A i \in Investments : Returned[i] = IF status[i] = "REFUNDED" THEN Amount(i) ELSE 0
    /\ escrow = Posted("confirm") - Posted("refund")
    /\ deal.total = Posted("confirm")

\* A unit costs what the target and the number of units make it cost.
PriceFits == deal.status # "none" => offer.price = UnitPriceOf(offer.target, offer.units)

\* What a request has read is still so when it writes.
Current(t) ==
    /\ t.op = "edit" => \A f \in Economics : t.seen[f] = offer[f]
    /\ t.op = "confirm" => t.total = deal.total
    /\ t.op = "refund" => t.balance = escrow

BalancedInv ==
    ~ overlapped => /\ MoneyBalances
                    /\ PriceFits
                    /\ \A w \in Workers : Current(task[w])

LEMMA NothingIsCurrent == Current(None) /\ (Current(None))'
  BY DEF Current, None

LEMMA ReturnedSums ==
    ASSUME Shapes
    PROVE  /\ Returned \in [Investments -> Nat]
           /\ Posted("refund") = SumFunctionOnSet(Returned, Investments)
           /\ Posted("refund") \in Nat
<1>1. Returned \in [Investments -> Nat]
  BY KeysOfInvestments DEF Shapes, Returned
<1>2. Posted("refund") = SumFunctionOnSet(Returned, Investments)
  BY DEF Posted, Returned, SumFunction
<1>. QED BY <1>1, <1>2, SumOfNaturals, FundingAssumption

LEMMA ReturnedSumsNext ==
    ASSUME Shapes'
    PROVE  /\ Returned' \in [Investments -> Nat]
           /\ (Posted("refund"))' = SumFunctionOnSet(Returned', Investments)
<1>1. Returned' \in [Investments -> Nat]
  BY KeysOfInvestments DEF Shapes, Returned
<1>2. (Posted("refund"))' = SumFunctionOnSet(Returned', Investments)
  BY DEF Posted, Returned, SumFunction
<1>. QED BY <1>1, <1>2

LEMMA MovedIsAmount ==
    ASSUME IInv, DepositInv, ~ overlapped, NEW i \in Investments
    PROVE  Moved[i] = IF status[i] \in {"CONFIRMED", "REFUNDED"} THEN Amount(i) ELSE 0
<1>1. Moved[i] \in {0, Amount(i)} /\ Moved[i] \in Nat
  BY MovedSums DEF DepositInv, MovedOnce, IInv
<1>2. Moved[i] > 0 <=> status[i] \in {"CONFIRMED", "REFUNDED"}
  BY DEF IInv, OneOutcomeOneByOne, Moved
<1>. QED BY <1>1, <1>2

\* A step that moves no money.
LEMMA MoneyStays ==
    ASSUME IInv, MoneyBalances, UNCHANGED escrow, deal'.total = deal.total,
           \A i \in Investments : /\ booked'[<<"confirm", i>>] = booked[<<"confirm", i>>]
                                  /\ booked'[<<"refund", i>>] = booked[<<"refund", i>>]
                                  /\ status'[i] = "REFUNDED" <=> status[i] = "REFUNDED",
           Opened => offer' = offer
    PROVE  MoneyBalances'
<1>1. (Posted("confirm"))' = Posted("confirm") /\ (Posted("refund"))' = Posted("refund")
  BY DEF Posted
<1>2. \A i \in Investments : Returned'[i] = IF status'[i] = "REFUNDED" THEN Amount(i)' ELSE 0
  <2>1. CASE Opened
    <3>1. \A j : Amount(j)' = Amount(j)
      BY <2>1 DEF Amount
    <3>. QED BY <3>1 DEF MoneyBalances, Returned
  <2>2. CASE ~ Opened
    BY <2>2, UnopenedDeal DEF MoneyBalances, Returned
  <2>. QED BY <2>1, <2>2
<1>. QED BY <1>1, <1>2 DEF MoneyBalances

LEMMA ConfirmWriteBalances ==
    ASSUME IInv, IInv', DepositInv, DepositInv', BalancedInv, NEW w \in Workers, ConfirmWrite(w),
           ~ overlapped
    PROVE  MoneyBalances'
<1>1. PICK i \in Investments : i = task[w].inv
  BY InHandTells DEF ConfirmWrite
<1>2. /\ task[w].op = "confirm" /\ task[w] # None
      /\ Amount(i) \in Nat /\ Amount(i) > 0
  BY <1>1, InHandTells DEF ConfirmWrite
<1>3. status[i] = "PENDING" /\ task[w].total = deal.total
  BY <1>1, <1>2, Alone DEF Fits, BalancedInv, Current
<1>4. /\ status' = [status EXCEPT ![i] = "CONFIRMED"]
      /\ booked' = Post(<<"confirm", i>>, Amount(i))
      /\ deal'.total = deal.total + Amount(i)
      /\ escrow' = escrow + Amount(i)
      /\ UNCHANGED offer
  BY <1>1, <1>3 DEF ConfirmWrite, NewTotal, offerVars
<1>5. \A j : Amount(j)' = Amount(j)
  BY <1>4 DEF Amount
<1>6. /\ Moved[i] = 0 /\ Moved'[i] = Amount(i)
      /\ \A j \in Investments \ {i} : Moved'[j] = Moved[j]
      /\ Returned' = Returned
  <2>1. booked[<<"confirm", i>>] = 0
    BY <1>3 DEF DepositInv, MovedOnce, Moved
  <2>2. booked'[<<"confirm", i>>] = Amount(i)
    BY <1>4, <2>1, KeysOfInvestments DEF IInv, Shapes, Post
  <2>3. \A j \in Investments \ {i} : booked'[<<"confirm", j>>] = booked[<<"confirm", j>>]
    BY <1>4, KeysOfInvestments DEF IInv, Shapes, Post
  <2>4. \A j \in Investments : booked'[<<"refund", j>>] = booked[<<"refund", j>>]
    BY <1>4, KeysOfInvestments DEF IInv, Shapes, Post
  <2>. QED BY <2>1, <2>2, <2>3, <2>4 DEF Moved, Returned
<1>7. (Posted("confirm"))' = Posted("confirm") + Amount(i)
  <2>1. (MovedByOthers(i))' = MovedByOthers(i)
    BY <1>6, OthersStay
  <2>. QED BY <1>2, <1>6, <2>1, MovedSums, MovedSumsNext DEF IInv
<1>8. (Posted("refund"))' = Posted("refund")
  BY <1>6 DEF Posted, Returned
<1>9. \A j \in Investments : Returned'[j] = IF status'[j] = "REFUNDED" THEN Amount(j)' ELSE 0
  BY <1>3, <1>4, <1>5, <1>6 DEF BalancedInv, MoneyBalances, IInv, Shapes
<1>10. escrow' = (Posted("confirm"))' - (Posted("refund"))'
  BY <1>2, <1>4, <1>7, <1>8, MovedSums, ReturnedSums DEF BalancedInv, MoneyBalances, IInv
<1>11. deal'.total = (Posted("confirm"))'
  BY <1>4, <1>7 DEF BalancedInv, MoneyBalances
<1>. QED BY <1>9, <1>10, <1>11 DEF MoneyBalances

\* The escrow holds what was moved in for an investment that is not refunded.
LEMMA EscrowCovers ==
    ASSUME IInv, DepositInv, MoneyBalances, ~ overlapped, NEW i \in Investments, status[i] = "CONFIRMED"
    PROVE  escrow >= Amount(i)
<1>1. \A j \in Investments : Moved[j] \in Nat /\ Returned[j] \in Nat /\ Returned[j] <= Moved[j]
  BY MovedIsAmount, MovedSums, ReturnedSums, AmountsAreNatural DEF MoneyBalances, IInv
<1>2. IsFiniteSet(Investments \ {i})
  BY FundingAssumption, FS_Subset
<1>3. SumFunctionOnSet(Returned, Investments \ {i}) <= SumFunctionOnSet(Moved, Investments \ {i})
  BY <1>1, <1>2, SumMonotone
<1>4. /\ SumFunctionOnSet(Returned, Investments \ {i}) \in Nat
      /\ SumFunctionOnSet(Moved, Investments \ {i}) \in Nat
  BY <1>1, <1>2, SumOfNaturals
<1>5. Posted("refund") = Returned[i] + SumFunctionOnSet(Returned, Investments \ {i})
  <2>1. \A j \in Investments : Returned[j] \in Int
    BY <1>1
  <2>. QED BY <2>1, SumWithout, ReturnedSums, FundingAssumption DEF IInv
<1>6. Posted("confirm") = Moved[i] + SumFunctionOnSet(Moved, Investments \ {i})
  BY MovedSums DEF IInv, MovedByOthers
<1>7. Moved[i] = Amount(i) /\ Returned[i] = 0 /\ Amount(i) \in Nat
  BY MovedIsAmount, AmountsAreNatural DEF MoneyBalances, IInv
<1>8. escrow = Posted("confirm") - Posted("refund")
  BY DEF MoneyBalances
<1>. QED BY <1>3, <1>4, <1>5, <1>6, <1>7, <1>8

LEMMA RefundWriteBalances ==
    ASSUME IInv, IInv', DepositInv, BalancedInv, NEW w \in Workers, RefundWrite(w), ~ overlapped
    PROVE  MoneyBalances'
<1>1. PICK i \in Investments : i = task[w].inv
  BY InHandTells DEF RefundWrite
<1>2. /\ task[w].op = "refund" /\ task[w] # None
      /\ Amount(i) \in Nat /\ Amount(i) > 0
  BY <1>1, InHandTells DEF RefundWrite
<1>3. status[i] = "CONFIRMED" /\ task[w].balance = escrow /\ MoneyBalances
  BY <1>1, <1>2, Alone DEF Fits, BalancedInv, Current
<1>4. escrow >= Amount(i) /\ escrow \in Nat
  BY <1>3, EscrowCovers DEF IInv, Shapes
<1>5. Refundable(task[w]) = Amount(i)
  BY <1>1, <1>2, <1>3, <1>4 DEF Refundable, Min
<1>6. /\ status' = [status EXCEPT ![i] = "REFUNDED"]
      /\ booked' = Post(<<"refund", i>>, Amount(i))
      /\ escrow' = escrow - Amount(i)
      /\ UNCHANGED <<deal, offer>>
  BY <1>1, <1>2, <1>3, <1>5 DEF RefundWrite, offerVars
<1>7. /\ Returned[i] = 0 /\ Returned'[i] = Amount(i)
      /\ \A j \in Investments \ {i} : Returned'[j] = Returned[j]
      /\ Moved' = Moved
  <2>1. booked[<<"refund", i>>] = 0
    BY <1>3 DEF MoneyBalances, Returned
  <2>2. booked'[<<"refund", i>>] = Amount(i)
    BY <1>6, <2>1, KeysOfInvestments DEF IInv, Shapes, Post
  <2>3. \A j \in Investments \ {i} : booked'[<<"refund", j>>] = booked[<<"refund", j>>]
    BY <1>6, KeysOfInvestments DEF IInv, Shapes, Post
  <2>4. \A j \in Investments : booked'[<<"confirm", j>>] = booked[<<"confirm", j>>]
    BY <1>6, KeysOfInvestments DEF IInv, Shapes, Post
  <2>. QED BY <2>1, <2>2, <2>3, <2>4 DEF Moved, Returned
<1>8. (Posted("refund"))' = Posted("refund") + Amount(i)
  <2>1. \A j \in Investments : Returned[j] \in Int /\ Returned'[j] \in Int
    BY ReturnedSums, ReturnedSumsNext DEF IInv
  <2>2. SumFunctionOnSet(Returned', Investments)
            = SumFunctionOnSet(Returned, Investments) + (Returned'[i] - Returned[i])
    BY <1>7, <2>1, SumChange, FundingAssumption
  <2>. QED BY <1>2, <1>7, <2>2, ReturnedSums, ReturnedSumsNext DEF IInv
<1>9. (Posted("confirm"))' = Posted("confirm")
  BY <1>7 DEF Posted, Moved
<1>10. \A j : Amount(j)' = Amount(j)
  BY <1>6 DEF Amount
<1>11. \A j \in Investments : Returned'[j] = IF status'[j] = "REFUNDED" THEN Amount(j)' ELSE 0
  BY <1>3, <1>6, <1>7, <1>10 DEF MoneyBalances, IInv, Shapes
<1>12. escrow' = (Posted("confirm"))' - (Posted("refund"))'
  BY <1>2, <1>3, <1>6, <1>8, <1>9, MovedSums, ReturnedSums DEF MoneyBalances, IInv
<1>. QED BY <1>3, <1>6, <1>9, <1>11, <1>12 DEF MoneyBalances

\* What is current once a request has ended, and once one has begun.
LEMMA CurrentAtEnd ==
    ASSUME IInv, NEW w \in Workers, task[w] # None, Finish(w), ~ overlapped
    PROVE  \A v \in Workers : (Current(task[v]))'
<1>1. \A v \in Workers : task'[v] = None
  BY Alone, Finishing DEF IInv
<1>2. None.op = "none"
  BY DEF None
<1>. QED BY <1>1, <1>2 DEF Current

LEMMA CurrentAtBegin ==
    ASSUME IInv, NEW w \in Workers, NEW t, Begin(w, t), Current(t), ~ overlapped',
           UNCHANGED <<deal, offer, escrow>>
    PROVE  \A v \in Workers : (Current(task[v]))'
<1>1. task'[w] = t /\ \A v \in Workers \ {w} : task'[v] = None
  BY DEF Begin, IInv, Shapes
<1>2. None.op = "none"
  BY DEF None
<1>. QED BY <1>1, <1>2 DEF Current

LEMMA CurrentAtContinue ==
    ASSUME IInv, NEW w \in Workers, NEW t, Continue(w, t), Current(t), task[w] # None,
           ~ overlapped, UNCHANGED <<deal, offer, escrow>>
    PROVE  \A v \in Workers : (Current(task[v]))'
<1>1. task'[w] = t /\ \A v \in Workers \ {w} : task'[v] = None
  BY Alone DEF Continue, IInv, Shapes
<1>2. None.op = "none"
  BY DEF None
<1>. QED BY <1>1, <1>2 DEF Current

\* Nothing is moved before the funding begins.
LEMMA NothingMovedBefore ==
    ASSUME IInv, DepositInv, ~ Opened
    PROVE  Posted("confirm") = 0
<1>1. \A i \in Investments : Moved[i] = 0
  BY UnopenedDeal DEF DepositInv, MovedOnce
<1>2. Posted("confirm") = SumFunctionOnSet(Moved, Investments)
  BY DEF Posted, Moved, SumFunction
<1>. QED BY <1>1, <1>2, SumOfZeros, FundingAssumption

LEMMA LifecycleMovesNothing ==
    ASSUME IInv, DepositInv, MoneyBalances, LifecycleStep, UNCHANGED fundingVars
    PROVE  MoneyBalances'
<1>1. LifecycleKept
  BY LifecycleKeeps
<1>2. deal'.total = deal.total
  <2>1. CASE Opened
    BY <1>1, <2>1 DEF LifecycleKept
  <2>2. CASE ~ Opened
    BY <1>1, <2>2, NothingMovedBefore DEF LifecycleKept, MoneyBalances
  <2>. QED BY <2>1, <2>2
<1>. QED BY <1>1, <1>2, MoneyStays DEF LifecycleKept, fundingVars

\* The price follows the target and the units through an update, when the deal
\* is still as it was read.
LEMMA EditedKeepsPrice ==
    ASSUME offer \in Offers, NEW seen \in Offers, NEW edit \in Edits,
           \A f \in Economics : seen[f] = offer[f],
           offer.price = UnitPriceOf(offer.target, offer.units)
    PROVE  Edited(seen, edit).price = UnitPriceOf(Edited(seen, edit).target, Edited(seen, edit).units)
<1>. DEFINE e == Effective(seen, edit)
            o == Edited(seen, edit)
<1>1. DOMAIN offer = Fields
  BY OffersAreFunctions
<1>2. \A f \in Economics : e[f] = IF f \in DOMAIN edit THEN edit[f] ELSE offer[f]
  BY DEF Effective
<1>. HIDE DEF e
<1>3. o = [f \in Fields |->
            CASE f \in Economics /\ Touches(edit, Economics) -> e[f]
              [] f = "price" /\ Touches(edit, {"target", "units"}) ->
                    UnitPriceOf(e.target, e.units)
              [] f = "project" /\ f \in DOMAIN edit -> edit[f]
              [] OTHER -> offer[f]]
  BY <1>1 DEF Edited, e
<1>. HIDE DEF o
<1>4. /\ Touches(edit, Economics) => o.target = e.target /\ o.units = e.units
      /\ ~ Touches(edit, Economics) => o.target = offer.target /\ o.units = offer.units
  BY <1>3 DEF Economics, Fields
<1>5. o.price = IF Touches(edit, {"target", "units"}) THEN UnitPriceOf(e.target, e.units)
                ELSE offer.price
  BY <1>3 DEF Economics, Fields
<1>6. Touches(edit, {"target", "units"}) => Touches(edit, Economics)
  BY DEF Touches, Economics
<1>7. ~ Touches(edit, {"target", "units"}) => e.target = offer.target /\ e.units = offer.units
  BY <1>2 DEF Touches, Economics
<1>8. o.price = UnitPriceOf(o.target, o.units)
  BY <1>4, <1>5, <1>6, <1>7
<1>. QED BY <1>8 DEF o

LEMMA CreateDealPrices ==
    ASSUME NEW d \in Drafts, CreateDeal(d)
    PROVE  PriceFits'
<1>1. offer' = [f \in Fields |-> CASE f = "price" -> UnitPriceOf(d.target, d.units)
                                   [] f = "text" -> NoText
                                   [] OTHER -> d[f]]
  BY FieldsOfOffer DEF CreateDeal
<1>2. /\ offer'.price = UnitPriceOf(d.target, d.units)
      /\ offer'.target = d.target /\ offer'.units = d.units
  BY <1>1 DEF Fields
<1>. QED BY <1>2 DEF PriceFits

LEMMA TextWriteBalances ==
    ASSUME IInv, BalancedInv, NEW w \in Workers, TextWrite(w), ~ overlapped, UNCHANGED fundingVars
    PROVE  PriceFits' /\ \A v \in Workers : (Current(task[v]))'
<1>1. PICK t \in Editing : t = task[w]
  BY InHandTells DEF TextWrite, At
<1>2. t.op = "edit" /\ t # None /\ Current(t) /\ PriceFits
  BY <1>1, InHandTells DEF TextWrite, At, BalancedInv
<1>3. /\ offer' = [offer EXCEPT !.text = t.edit.text]
      /\ UNCHANGED <<deal, escrow>>
  BY <1>1 DEF TextWrite, fundingVars
<1>4. \A f \in Economics \cup {"price"} : offer'[f] = offer[f]
  BY <1>3, OffersAreFunctions DEF Economics, Fields, IInv, Shapes
<1>5. PriceFits'
  BY <1>2, <1>3, <1>4 DEF PriceFits, Economics
<1>6. CASE Finish(w)
  BY <1>1, <1>2, <1>5, <1>6, CurrentAtEnd
<1>7. CASE Continue(w, [t EXCEPT !.pc = "fields"])
  <2>1. [t EXCEPT !.pc = "fields"].op = "edit" /\ [t EXCEPT !.pc = "fields"].seen = t.seen
    BY <1>1 DEF Editing
  <2>2. /\ task'[w].op = "edit" /\ task'[w].seen = t.seen
        /\ \A v \in Workers \ {w} : task'[v] = None
    BY <1>1, <1>2, <1>7, <2>1, Alone DEF Continue, IInv, Shapes
  <2>3. None.op = "none"
    BY DEF None
  <2>4. \A v \in Workers : (Current(task[v]))'
    BY <1>2, <1>3, <1>4, <2>2, <2>3 DEF Current
  <2>. QED BY <1>5, <2>4
<1>. QED BY <1>1, <1>6, <1>7 DEF TextWrite

LEMMA OfferWriteBalances ==
    ASSUME IInv, BalancedInv, NEW w \in Workers, OfferWrite(w), ~ overlapped, UNCHANGED fundingVars
    PROVE  PriceFits' /\ \A v \in Workers : (Current(task[v]))'
<1>1. PICK t \in Editing : t = task[w]
  BY InHandTells DEF OfferWrite, At
<1>2. t.op = "edit" /\ t # None /\ Current(t) /\ PriceFits /\ deal.status # "none"
      /\ t.edit \in Edits /\ t.seen \in Offers /\ offer \in Offers
  BY <1>1, InHandTells DEF OfferWrite, At, BalancedInv, IInv, Sound, Shapes, Editing
<1>3. offer' \in {offer, Edited(t.seen, t.edit)} /\ Finish(w)
  BY <1>1 DEF OfferWrite
<1>4. \A f \in Economics : t.seen[f] = offer[f]
  BY <1>2 DEF Current
<1>5. offer.price = UnitPriceOf(offer.target, offer.units)
  BY <1>2 DEF PriceFits
<1>6. PriceFits'
  BY <1>2, <1>3, <1>4, <1>5, EditedKeepsPrice DEF PriceFits
<1>. QED BY <1>1, <1>2, <1>3, <1>6, CurrentAtEnd

\* A step of a request that leaves the offer as it is.
LEMMA PriceStays ==
    ASSUME IInv, PriceFits, UNCHANGED offer, deal.status = "none" => deal'.status = "none"
    PROVE  PriceFits'
  BY DEF PriceFits

\* A transition has read nothing that a later write depends on.
LEMMA TransitionBalances ==
    ASSUME IInv, BalancedInv, NEW w \in Workers, TransitionRead(w) \/ TransitionWrite(w),
           ~ overlapped, UNCHANGED fundingVars
    PROVE  PriceFits' /\ \A v \in Workers : (Current(task[v]))'
<1>1. /\ task[w] \in Transitioning /\ task[w] # None /\ task[w].op = "transition"
      /\ UNCHANGED offer
  BY InHandTells DEF TransitionRead, TransitionWrite, At, offerVars
<1>2. PriceFits /\ deal.status # "none"
  BY <1>1 DEF BalancedInv, IInv, Sound
<1>3. PriceFits'
  BY <1>1, <1>2, PriceStays
<1>4. \E t : task' = [task EXCEPT ![w] = t] /\ t.op \in {"none", "transition"}
  <2>1. /\ [task[w] EXCEPT !.pc = "write"].op = "transition"
        /\ [task[w] EXCEPT !.pc = "read", !.path = Tail(task[w].path)].op = "transition"
        /\ None.op = "none"
    BY <1>1 DEF Transitioning, None
  <2>. QED BY <2>1 DEF TransitionRead, TransitionWrite, Finish, Continue
<1>5. task'[w].op \in {"none", "transition"} /\ \A v \in Workers \ {w} : task'[v] = None
  BY <1>1, <1>4, Alone DEF IInv, Shapes
<1>6. None.op = "none"
  BY DEF None
<1>. QED BY <1>3, <1>5, <1>6 DEF Current

LEMMA LifecycleBalances ==
    ASSUME IInv, DepositInv, BalancedInv, LifecycleStep, UNCHANGED fundingVars, ~ overlapped'
    PROVE  ~ overlapped /\ BalancedInv'
<1>1. ASSUME NEW w \in Workers, NEW t, Begin(w, t), t.op \in {"edit", "transition"},
             t.op = "edit" => t.seen = offer, deal.status # "none", UNCHANGED <<deal, offer>>
      PROVE  ~ overlapped /\ PriceFits' /\ \A v \in Workers : (Current(task[v]))'
  <2>1. ~ overlapped /\ UNCHANGED escrow
    BY <1>1 DEF Begin, fundingVars
  <2>2. Current(t)
    BY <1>1 DEF Current
  <2>. QED BY <1>1, <2>1, <2>2, CurrentAtBegin, PriceStays DEF BalancedInv
<1>2. ~ overlapped /\ PriceFits' /\ \A v \in Workers : (Current(task[v]))'
  <2>1. ASSUME NEW d \in Drafts, CreateDeal(d)
        PROVE  ~ overlapped /\ PriceFits' /\ \A v \in Workers : (Current(task[v]))'
    <3>1. \A v \in Workers : task'[v] = None
      BY <2>1 DEF CreateDeal, IInv, Sound
    <3>2. None.op = "none"
      BY DEF None
    <3>3. \A v \in Workers : (Current(task[v]))'
      BY <3>1, <3>2 DEF Current
    <3>. QED BY <2>1, <3>3, CreateDealPrices DEF CreateDeal
  <2>2. ASSUME OpenFunding
        PROVE  ~ overlapped /\ PriceFits' /\ \A v \in Workers : (Current(task[v]))'
    <3>1. \A v \in Workers : task'[v] = None
      BY <2>2 DEF OpenFunding
    <3>2. None.op = "none"
      BY DEF None
    <3>3. \A v \in Workers : (Current(task[v]))'
      BY <3>1, <3>2 DEF Current
    <3>4. ~ overlapped
      BY <2>2 DEF OpenFunding
    <3>5. PriceFits'
      BY <2>2, <3>4, PriceStays DEF OpenFunding, BalancedInv
    <3>. QED BY <3>3, <3>4, <3>5
  <2>3. ASSUME NEW w \in Workers, NEW edit \in Edits, EditRead(w, edit)
        PROVE  ~ overlapped /\ PriceFits' /\ \A v \in Workers : (Current(task[v]))'
    <3>. DEFINE t == [op |-> "edit", edit |-> edit, seen |-> offer,
                      pc |-> IF "text" \in DOMAIN edit THEN "text" ELSE "fields"]
    <3>1. /\ Begin(w, t) /\ t.op = "edit" /\ t.seen = offer
          /\ deal.status # "none" /\ UNCHANGED <<deal, offer>>
      BY <2>3 DEF EditRead, Editable
    <3>. HIDE DEF t
    <3>. QED BY <1>1, <3>1
  <2>4. ASSUME NEW w \in Workers, NEW path, StartTransition(w, path)
        PROVE  ~ overlapped /\ PriceFits' /\ \A v \in Workers : (Current(task[v]))'
    <3>. DEFINE t == [op |-> "transition", pc |-> "write", path |-> path]
    <3>1. /\ Begin(w, t) /\ t.op = "transition"
          /\ deal.status # "none" /\ UNCHANGED <<deal, offer>>
      BY <2>4 DEF StartTransition, Allowed, DealTransitions, offerVars
    <3>. HIDE DEF t
    <3>. QED BY <1>1, <3>1
  <2>5. ASSUME NEW w \in Workers, TextWrite(w) \/ OfferWrite(w)
        PROVE  ~ overlapped /\ PriceFits' /\ \A v \in Workers : (Current(task[v]))'
    <3>1. ~ overlapped
      BY <2>5 DEF TextWrite, OfferWrite, Finish, Continue
    <3>. QED BY <2>5, <3>1, TextWriteBalances, OfferWriteBalances
  <2>6. ASSUME NEW w \in Workers, TransitionRead(w) \/ TransitionWrite(w)
        PROVE  ~ overlapped /\ PriceFits' /\ \A v \in Workers : (Current(task[v]))'
    <3>1. ~ overlapped
      BY <2>6 DEF TransitionRead, TransitionWrite, Finish, Continue
    <3>. QED BY <2>6, <3>1, TransitionBalances
  <2>. QED
    BY <2>1, <2>2, <2>3, <2>4, <2>5, <2>6
    DEF LifecycleStep, Submit, Review, MarkSmartContractCreated, Publish, Cancel
<1>3. MoneyBalances'
  BY <1>2, LifecycleMovesNothing DEF BalancedInv
<1>. QED BY <1>2, <1>3 DEF BalancedInv

LEMMA BalancedNext == IInv /\ DepositInv /\ BalancedInv /\ [Next]_vars => BalancedInv'
<1>. SUFFICES ASSUME IInv, DepositInv, BalancedInv, [Next]_vars, ~ overlapped' PROVE BalancedInv'
  BY DEF BalancedInv
<1>1. IInv' /\ DepositInv'
  BY NextPreserves, DepositNext
<1>2. ASSUME NEW w \in Workers, NEW t, Begin(w, t), Current(t),
             UNCHANGED <<deal, offerVars, fundingVars>>
      PROVE  BalancedInv'
  <2>1. ~ overlapped /\ UNCHANGED <<deal, offer, status, escrow, booked>>
    BY <1>2 DEF Begin, offerVars, fundingVars
  <2>2. MoneyBalances'
    BY <2>1, MoneyStays DEF BalancedInv
  <2>3. PriceFits'
    BY <2>1, PriceStays DEF BalancedInv
  <2>. QED BY <1>2, <2>1, <2>2, <2>3, CurrentAtBegin DEF BalancedInv
<1>3. ASSUME NEW w \in Workers, NEW i \in Investments,
             CreateRead(w, i) \/ FailRead(w, i) \/ ConfirmRead(w, i) \/ RefundRead(w, i)
      PROVE  BalancedInv'
  <2>1. PICK t \in {[op |-> "create", inv |-> i], [op |-> "fail", inv |-> i],
                    [op |-> "include", inv |-> i], [op |-> "weigh", inv |-> i]} :
          Begin(w, t) /\ UNCHANGED <<deal, offerVars, fundingVars>>
    BY <1>3 DEF CreateRead, FailRead, ConfirmRead, RefundRead
  <2>2. Current(t)
    BY DEF Current
  <2>. QED BY <1>2, <2>1, <2>2
<1>4. ASSUME NEW w \in Workers, task[w] # None, Finish(w), UNCHANGED offerVars,
             deal.status # "none", MoneyBalances'
      PROVE  BalancedInv'
  <2>1. ~ overlapped
    BY <1>4 DEF Finish, Continue
  <2>2. PriceFits'
    BY <1>4, <2>1, PriceStays DEF BalancedInv, offerVars
  <2>. QED BY <1>4, <2>1, <2>2, CurrentAtEnd DEF BalancedInv
<1>5. ASSUME NEW w \in Workers,
             CreateWrite(w) \/ FailWrite(w) \/ ConfirmWrite(w) \/ RefundWrite(w) \/ Abort(w)
      PROVE  BalancedInv'
  <2>1. /\ task[w] # None /\ Finish(w) /\ UNCHANGED offerVars /\ ~ overlapped /\ MoneyBalances
        /\ deal.status # "none"
    <3>1. task[w] # None /\ Finish(w) /\ UNCHANGED offerVars
      BY <1>5, InHandTells DEF CreateWrite, FailWrite, ConfirmWrite, RefundWrite, Abort
    <3>2. ~ overlapped
      BY <3>1 DEF Finish, Continue
    <3>. QED BY <3>1, <3>2 DEF BalancedInv, IInv, Sound
  <2>2. CASE CreateWrite(w) \/ FailWrite(w)
    <3>1. UNCHANGED <<deal, escrow, offer>>
      BY <2>2 DEF CreateWrite, FailWrite, offerVars
    <3>2. PICK i \in Investments : i = task[w].inv /\ task[w].op \in {"create", "fail"}
      BY <2>2, InHandTells DEF CreateWrite, FailWrite
    <3>3. status[i] \in {"none", "PENDING"}
      BY <2>1, <3>2, Alone DEF Fits
    <3>4. booked' = booked \/ \E op \in {"create", "fail"} : \E a : booked' = Post(<<op, i>>, a)
      BY <2>2, <3>2 DEF CreateWrite, FailWrite
    <3>5. \A j \in Investments : /\ booked'[<<"confirm", j>>] = booked[<<"confirm", j>>]
                                 /\ booked'[<<"refund", j>>] = booked[<<"refund", j>>]
      BY <3>4, KeysOfInvestments DEF Post, IInv, Shapes
    <3>6. \A j \in Investments : status'[j] = "REFUNDED" <=> status[j] = "REFUNDED"
      BY <2>2, <3>2, <3>3 DEF CreateWrite, FailWrite, IInv, Shapes
    <3>7. MoneyBalances'
      BY <2>1, <3>1, <3>5, <3>6, MoneyStays
    <3>. QED BY <1>4, <2>1, <3>7
  <2>3. CASE ConfirmWrite(w)
    BY <1>1, <1>4, <2>1, <2>3, ConfirmWriteBalances
  <2>4. CASE RefundWrite(w)
    BY <1>1, <1>4, <2>1, <2>4, RefundWriteBalances
  <2>5. CASE Abort(w)
    <3>1. MoneyBalances'
      BY <2>1, <2>5, MoneyStays DEF Abort, offerVars, fundingVars
    <3>. QED BY <1>4, <2>1, <3>1
  <2>. QED BY <1>5, <2>2, <2>3, <2>4, <2>5
<1>6. ASSUME NEW w \in Workers, ConfirmReadDeal(w) \/ RefundReadEscrow(w)
      PROVE  BalancedInv'
  <2>1. PICK t \in {[op |-> "confirm", inv |-> task[w].inv, total |-> deal.total],
                    [op |-> "refund", inv |-> task[w].inv, balance |-> escrow]} :
          Continue(w, t) /\ UNCHANGED <<deal, offerVars, fundingVars>>
    BY <1>6 DEF ConfirmReadDeal, RefundReadEscrow
  <2>2. Current(t)
    BY DEF Current
  <2>3. /\ ~ overlapped /\ task[w] # None
        /\ UNCHANGED <<deal, offer, status, escrow, booked>>
    BY <1>6, <2>1 DEF Continue, offerVars, fundingVars, ConfirmReadDeal, RefundReadEscrow, None
  <2>4. MoneyBalances'
    BY <2>3, MoneyStays DEF BalancedInv
  <2>5. PriceFits'
    BY <2>3, PriceStays DEF BalancedInv
  <2>. QED BY <2>1, <2>2, <2>3, <2>4, <2>5, CurrentAtContinue DEF BalancedInv
<1>7. ASSUME UNCHANGED vars PROVE BalancedInv'
  <2>1. UNCHANGED <<deal, offer, task, overlapped, status, escrow, booked, deposited>>
    BY <1>7 DEF vars, offerVars, fundingVars
  <2>2. MoneyBalances'
    BY <2>1, MoneyStays DEF BalancedInv
  <2>. QED BY <2>1, <2>2 DEF BalancedInv, PriceFits, Current
<1>. QED
  BY <1>3, <1>5, <1>6, <1>7, LifecycleBalances DEF Next

\* Rounded to the nearest, the price of all units falls short of the target by
\* at most half of the last digit for each unit.
LEMMA RoundingLoses ==
    ASSUME NEW t \in Nat, NEW u \in Nat, u > 0
    PROVE  2 * (t - u * UnitPriceOf(t, u)) <= u
<1>. DEFINE p == UnitPriceOf(t, u)
            d == 2 * u
            n == 2 * t + u
<1>1. d \in Nat /\ n \in Nat /\ d > 0
  OBVIOUS
<1>2. p = n \div d
  BY DEF UnitPriceOf
<1>. HIDE DEF p, n, d
<1>3. p \in Int /\ n % d \in Nat /\ n % d < d /\ n = d * p + (n % d)
  BY <1>1, <1>2
<1>4. d * p = 2 * (u * p) /\ u * p \in Int
  BY <1>3 DEF d
<1>5. 2 * t + u < 2 * u + 2 * (u * p)
  BY <1>3, <1>4 DEF d, n
<1>6. 2 * (t - u * p) <= u
  BY <1>4, <1>5
<1>. QED BY <1>6 DEF p

\* With all units confirmed, what was moved in is the price of the units.
LEMMA SoldOutMoves ==
    ASSUME IInv, DepositInv, ~ overlapped, SoldOut
    PROVE  DealUnits * offer.price <= Posted("confirm")
<1>. DEFINE C == In({"CONFIRMED"})
<1>1. C \in SUBSET Investments /\ IsFiniteSet(C)
  BY FundingAssumption, FS_Subset DEF In
<1>2. \A i \in C : UnitsOf[i] \in Int /\ Moved[i] = UnitsOf[i] * offer.price
  BY MovedIsAmount, FundingAssumption DEF In, Amount
<1>3. offer.price \in Int
  BY OffersAreFunctions DEF IInv, Shapes
<1>4. SumFunctionOnSet(UnitsOf, C) = DealUnits
  BY DEF SoldOut
<1>5. \A i \in Investments : Moved[i] \in Nat
  BY MovedSums DEF IInv
<1>6. Posted("confirm") = SumFunctionOnSet(Moved, Investments)
  BY DEF Posted, Moved, SumFunction
<1>. HIDE DEF C
<1>7. SumFunctionOnSet(Moved, C) = SumFunctionOnSet(UnitsOf, C) * offer.price
  BY <1>1, <1>2, <1>3, SumScaled
<1>8. SumFunctionOnSet(Moved, C) <= SumFunctionOnSet(Moved, Investments)
  BY <1>1, <1>5, SumOfPart, FundingAssumption
<1>. QED BY <1>4, <1>6, <1>7, <1>8

(***************************************************************************)
(* investments.service.ts confirm, refund: as long as no two requests      *)
(* overlap, escrow, the deal's total and the ledger agree, a refund is     *)
(* never cut, and a deal whose units are all confirmed lacks at most the   *)
(* rounding of the price.                                                  *)
(***************************************************************************)
THEOREM BooksAgreeAlone == Spec => []BooksAgreeOneByOne
<1>1. Init => BalancedInv
  <2>. SUFFICES ASSUME Init PROVE BalancedInv
    OBVIOUS
  <2>1. IInv /\ DepositInv /\ ~ Opened
    <3>1. IInv /\ DepositInv
      BY InitIsInductive, DepositInit
    <3>2. deal.status = "none"
      BY DEF Init, LifecycleInit
    <3>. QED BY <3>1, <3>2 DEF IInv, OpenedForGood
  <2>2. \A i \in Investments : status[i] = "none" /\ Returned[i] = 0
    BY KeysOfInvestments DEF Init, Returned
  <2>3. Posted("confirm") = 0 /\ Posted("refund") = 0
    BY <2>1, <2>2, NothingMovedBefore, ReturnedSums, SumOfZeros, FundingAssumption DEF IInv
  <2>4. MoneyBalances
    BY <2>2, <2>3 DEF Init, LifecycleInit, MoneyBalances
  <2>5. \A w \in Workers : Current(task[w])
    BY NothingIsCurrent DEF Init, LifecycleInit
  <2>. QED BY <2>4, <2>5 DEF Init, LifecycleInit, BalancedInv, PriceFits
<1>2. IInv /\ DepositInv /\ BalancedInv => BooksAgreeOneByOne
  <2>. SUFFICES ASSUME IInv, DepositInv, BalancedInv, ~ overlapped PROVE BooksAgreeOneByOne
    BY DEF BooksAgreeOneByOne
  <2>1. MoneyBalances /\ PriceFits
    BY DEF BalancedInv
  <2>2. \A i \in Investments : status[i] = "REFUNDED" => booked[<<"refund", i>>] = Amount(i)
    BY <2>1 DEF MoneyBalances, Returned
  <2>3. ASSUME deal.status = "FUNDING", SoldOut
        PROVE  2 * (Target - deal.total) <= DealUnits
    <3>1. /\ offer.target \in Nat /\ offer.units \in Nat /\ offer.units > 0
          /\ offer.price = UnitPriceOf(offer.target, offer.units)
      BY <2>1, <2>3 DEF PriceFits, IInv, Shapes, Offers, Economics, Sound, Economical
    <3>2. 2 * (offer.target - offer.units * offer.price) <= offer.units
      BY <3>1, RoundingLoses
    <3>3. offer.units * offer.price <= deal.total
      BY <2>1, <2>3, SoldOutMoves DEF MoneyBalances, DealUnits
    <3>4. offer.units * offer.price \in Int /\ deal.total \in Int
      BY <3>1, PriceIsNatural DEF IInv, Shapes
    <3>. QED BY <3>1, <3>2, <3>3, <3>4 DEF Target, DealUnits
  <2>. QED BY <2>1, <2>2, <2>3 DEF BooksAgreeOneByOne, MoneyBalances
<1>. QED BY <1>1, <1>2, DepositInit, DepositNext, BalancedNext, Invariance, PTL DEF Spec

----------------------------------------------------------------------------
(***************************************************************************)
(* The units given away.                                                   *)
(***************************************************************************)
\* The investments that hold units, or may in the end without another check.
Wanted ==
    In({"PENDING", "CONFIRMED"})
    \cup {i \in Investments :
            \E w \in Workers : task[w].op \in {"include", "confirm"} /\ task[w].inv = i}
    \cup {i \in Investments : /\ status[i] = "none"
                              /\ \E w \in Workers : task[w].op = "create" /\ task[w].inv = i}

MostUnits == Max({UnitsOf[i] : i \in Investments})

\* What requests that overlap may give away beyond the units of the deal.
Excess == IF overlapped THEN (Cardinality(Workers) - 1) * MostUnits ELSE 0

UnitsWanted == SumFunctionOnSet(UnitsOf, Wanted)

WantedInv ==
    /\ UnitsWanted <= DealUnits + Excess
    /\ overlapped => Workers # {}

\* No request asks for more than MostUnits.
LEMMA MostUnitsBound == MostUnits \in Nat /\ \A i \in Investments : UnitsOf[i] <= MostUnits
<1>. DEFINE S == {UnitsOf[i] : i \in Investments}
            T == {n \in Nat : \A i \in Investments : UnitsOf[i] <= n}
<1>1. SumFunctionOnSet(UnitsOf, Investments) \in T
  BY SumOfNaturals, FundingAssumption
<1>2. PICK n \in T : \A m \in T : ~ (m < n)
  <2>1. T \subseteq Nat /\ T # {}
    BY <1>1
  <2>. HIDE DEF T
  <2>. QED BY <2>1, SmallestNumber
<1>3. \E i \in Investments : UnitsOf[i] = n
  <2>. SUFFICES ASSUME \A i \in Investments : UnitsOf[i] # n PROVE FALSE
    OBVIOUS
  <2>1. PICK i \in Investments : TRUE
    BY FundingAssumption
  <2>2. \A j \in Investments : UnitsOf[j] \in Nat /\ UnitsOf[j] <= n - 1
    BY FundingAssumption
  <2>3. n - 1 \in T /\ n - 1 < n
    BY <2>1, <2>2
  <2>. QED BY <1>2, <2>3
<1>4. n \in S /\ \A y \in S : n >= y
  BY <1>3
<1>. HIDE DEF S
<1>5. \E x \in S : \A y \in S : x >= y
  BY <1>4
<1>6. Max(S) \in S /\ \A y \in S : Max(S) >= y
  <2>1. Max(S) = CHOOSE x \in S : \A y \in S : x >= y
    BY DEF Max
  <2>. QED BY <1>5, <2>1
<1>. QED BY <1>6, FundingAssumption DEF MostUnits, S

LEMMA WantedIsFinite ==
    /\ Wanted \in SUBSET Investments /\ IsFiniteSet(Wanted)
    /\ UnitsWanted \in Nat
<1>1. Wanted \in SUBSET Investments
  BY DEF Wanted, In
<1>2. IsFiniteSet(Wanted)
  BY <1>1, FundingAssumption, FS_Subset
<1>3. \A i \in Wanted : UnitsOf[i] \in Nat
  BY <1>1, FundingAssumption
<1>4. UnitsWanted \in Nat
  BY <1>2, <1>3, SumOfNaturals DEF UnitsWanted
<1>. QED BY <1>1, <1>2, <1>4

LEMMA NothingWantedBefore ==
    ASSUME IInv, ~ Opened
    PROVE  Wanted = {}
<1>1. \A i \in Investments : status[i] = "none"
  BY UnopenedDeal
<1>2. \A w \in Workers : task[w].op \notin {"create", "include", "confirm"}
  BY UnopenedDeal
<1>. QED BY <1>1, <1>2 DEF Wanted, In

\* A step after which no more is wanted than before.
LEMMA WantedShrinks ==
    ASSUME IInv, IInv', WantedInv, Opened => offer' = offer,
           overlapped => overlapped', overlapped' => Workers # {} /\ IsFiniteSet(Workers),
           \A i \in Investments : /\ status'[i] \in {"PENDING", "CONFIRMED"} => i \in Wanted
                                  /\ status'[i] = "none" => status[i] = "none",
           \A w \in Workers :
              /\ task'[w].op = "create" => task'[w] = task[w]
              /\ task'[w].op \in {"include", "confirm"} =>
                    task'[w] = task[w] \/ task'[w].inv \in Wanted
    PROVE  WantedInv'
<1>1. Wanted' \subseteq Wanted
  BY DEF Wanted, In
<1>2. (UnitsWanted)' <= UnitsWanted
  <2>1. \A i \in Wanted : UnitsOf[i] \in Nat
    BY WantedIsFinite, FundingAssumption
  <2>2. SumFunctionOnSet(UnitsOf, Wanted') <= SumFunctionOnSet(UnitsOf, Wanted)
    BY <1>1, <2>1, WantedIsFinite, SumOfPart
  <2>. QED BY <2>2 DEF UnitsWanted
<1>3. (UnitsWanted)' \in Int
  <2>1. \A i \in Wanted' : UnitsOf[i] \in Int
    BY <1>1, WantedIsFinite, FundingAssumption
  <2>2. IsFiniteSet(Wanted')
    BY <1>1, WantedIsFinite, FS_Subset
  <2>3. SumFunctionOnSet(UnitsOf, Wanted') \in Int
    BY <2>1, <2>2, SumType
  <2>. QED BY <2>3 DEF UnitsWanted
<1>4. Excess \in Int /\ Excess' \in Int /\ Excess <= Excess' /\ Excess' >= 0
  <2>1. overlapped' => Cardinality(Workers) - 1 \in Nat
    <3>. SUFFICES ASSUME overlapped' PROVE Cardinality(Workers) - 1 \in Nat
      OBVIOUS
    <3>1. Cardinality(Workers) \in Nat /\ Cardinality(Workers) # 0
      BY FS_CardinalityType, FS_EmptySet
    <3>. QED BY <3>1
  <2>2. overlapped' => (Cardinality(Workers) - 1) * MostUnits \in Nat
    BY <2>1, MostUnitsBound
  <2>3. MostUnits' = MostUnits
    BY DEF MostUnits
  <2>. QED BY <2>2, <2>3 DEF Excess
<1>5. DealUnits \in Nat /\ (DealUnits)' \in Nat
  BY DEF DealUnits, IInv, Shapes, Offers, Economics
<1>6. CASE Opened
  BY <1>2, <1>3, <1>4, <1>5, <1>6, WantedIsFinite DEF WantedInv, DealUnits
<1>7. CASE ~ Opened
  <2>1. UnitsWanted = 0
    BY <1>7, NothingWantedBefore, SumOfNone DEF UnitsWanted
  <2>2. (UnitsWanted)' <= 0 /\ (DealUnits)' >= 0 /\ Excess' >= 0
    BY <1>2, <1>4, <1>5, <2>1
  <2>3. (UnitsWanted)' \in Int /\ (DealUnits)' \in Int /\ Excess' \in Int
    BY <1>3, <1>4, <1>5
  <2>4. \A a, b, c \in Int : a <= 0 /\ b >= 0 /\ c >= 0 => a <= b + c
    OBVIOUS
  <2>5. (UnitsWanted)' <= (DealUnits)' + Excess'
    BY <2>2, <2>3, <2>4
  <2>. QED BY <2>5 DEF WantedInv
<1>. QED BY <1>6, <1>7

\* What is wanted beyond the units held and those of the request that has just
\* passed its check is in the hands of the other workers, one for each.
LEMMA OthersWant ==
    ASSUME IInv, NEW w \in Workers, NEW E \in SUBSET Investments,
           \A e \in E : \E v \in Workers \ {w} : task[v].inv = e
    PROVE  /\ IsFiniteSet(E)
           /\ SumFunctionOnSet(UnitsOf, E) <= (Cardinality(Workers) - 1) * MostUnits
<1>1. IsFiniteSet(E)
  BY FundingAssumption, FS_Subset
<1>2. IsFiniteSet(Workers \ {w}) /\ Cardinality(Workers \ {w}) = Cardinality(Workers) - 1
  BY FundingAssumption, FS_RemoveElement
<1>. DEFINE g == [e \in E |-> CHOOSE v \in Workers \ {w} : task[v].inv = e]
<1>3. \A e \in E : g[e] \in Workers \ {w} /\ task[g[e]].inv = e
  OBVIOUS
<1>4. g \in [E -> Workers \ {w}]
  BY <1>3
<1>. HIDE DEF g
<1>5. g \in Injection(E, Workers \ {w})
  BY <1>3, <1>4 DEF Injection, IsInjective
<1>6. Cardinality(E) <= Cardinality(Workers) - 1
  BY <1>2, <1>5, FS_Injection
<1>7. Cardinality(E) \in Nat /\ Cardinality(Workers) \in Nat
  BY <1>1, FundingAssumption, FS_CardinalityType
<1>8. \A e \in E : UnitsOf[e] \in Int /\ UnitsOf[e] <= MostUnits
  BY MostUnitsBound, FundingAssumption
<1>9. MostUnits \in Nat
  BY MostUnitsBound
<1>10. SumFunctionOnSet(UnitsOf, E) <= Cardinality(E) * MostUnits
  BY <1>1, <1>8, <1>9, SumBounded
<1>11. SumFunctionOnSet(UnitsOf, E) \in Int
  BY <1>1, <1>8, SumType
<1>12. Cardinality(E) * MostUnits <= (Cardinality(Workers) - 1) * MostUnits
  <2>. DEFINE a == Cardinality(E)
              b == Cardinality(Workers) - 1
  <2>1. a \in Nat /\ b \in Int /\ a <= b
    BY <1>6, <1>7
  <2>2. \A x, y, m \in Nat : x <= y => x * m <= y * m
    OBVIOUS
  <2>. HIDE DEF a, b
  <2>3. a * MostUnits <= b * MostUnits
    BY <1>9, <2>1, <2>2
  <2>. QED BY <2>3 DEF a, b
<1>13. Cardinality(E) * MostUnits \in Int /\ (Cardinality(Workers) - 1) * MostUnits \in Int
  BY <1>7, <1>9
<1>. QED BY <1>1, <1>10, <1>11, <1>12, <1>13

LEMMA CreateReadWants ==
    ASSUME IInv, IInv', NEW w \in Workers, NEW i \in Investments, CreateRead(w, i)
    PROVE  WantedInv'
<1>. DEFINE H == In({"PENDING", "CONFIRMED"})
            t == [op |-> "create", inv |-> i]
            E == Wanted' \ (H \cup {i})
<1>1. /\ status[i] = "none"
      /\ Allocated + UnitsOf[i] <= DealUnits
      /\ Begin(w, t)
      /\ UNCHANGED <<offer, status>>
  BY DEF CreateRead, offerVars, fundingVars
<1>2. /\ task'[w] = t /\ t.op = "create" /\ t.inv = i
      /\ \A v \in Workers \ {w} : task'[v] = task[v]
      /\ ~ overlapped' => \A v \in Workers : task[v] = None
  BY <1>1 DEF Begin, IInv, Shapes
<1>. HIDE DEF t
<1>3. H \in SUBSET Investments /\ i \notin H /\ Wanted' \in SUBSET Investments
  BY <1>1 DEF In, Wanted
<1>4. E \in SUBSET Investments /\ Wanted' \subseteq (H \cup {i}) \cup E
  BY <1>3
<1>5. \A e \in E : \E v \in Workers \ {w} : task[v].inv = e
  BY <1>1, <1>2 DEF Wanted, In
<1>6. /\ IsFiniteSet(E)
      /\ SumFunctionOnSet(UnitsOf, E) <= (Cardinality(Workers) - 1) * MostUnits
  BY <1>4, <1>5, OthersWant
<1>7. ~ overlapped' => E = {}
  <2>1. \A e \in E : \E v \in Workers \ {w} :
            task[v].op \in {"create", "include", "confirm"}
    BY <1>1, <1>2 DEF Wanted, In
  <2>. QED BY <1>2, <2>1 DEF None
<1>. HIDE DEF E, H
<1>8. SumFunctionOnSet(UnitsOf, E) <= Excess'
  BY <1>6, <1>7, SumOfNone DEF Excess, MostUnits
<1>9. IsFiniteSet(H) /\ \A j \in Investments : UnitsOf[j] \in Nat /\ UnitsOf[j] \in Int
  BY <1>3, FundingAssumption, FS_Subset
<1>10. SumFunctionOnSet(UnitsOf, H \cup {i}) = UnitsOf[i] + SumFunctionOnSet(UnitsOf, H)
  BY <1>3, <1>9, SumWith
<1>11. SumFunctionOnSet(UnitsOf, (H \cup {i}) \cup E)
          = SumFunctionOnSet(UnitsOf, H \cup {i}) + SumFunctionOnSet(UnitsOf, E)
  BY <1>3, <1>4, <1>6, <1>9, FS_AddElement, SumOfUnion DEF E
<1>12. SumFunctionOnSet(UnitsOf, Wanted') <= SumFunctionOnSet(UnitsOf, (H \cup {i}) \cup E)
  <2>1. IsFiniteSet((H \cup {i}) \cup E)
    BY <1>6, <1>9, FS_AddElement, FS_Union
  <2>. QED BY <1>3, <1>4, <1>9, <2>1, SumOfPart
<1>13. Allocated = SumFunctionOnSet(UnitsOf, H)
  BY DEF Allocated, H
<1>14. /\ SumFunctionOnSet(UnitsOf, H) \in Int
       /\ SumFunctionOnSet(UnitsOf, E) \in Int
       /\ SumFunctionOnSet(UnitsOf, Wanted') \in Int
       /\ Excess' \in Int /\ DealUnits \in Int /\ (DealUnits)' = DealUnits
  <2>1. IsFiniteSet(Wanted')
    BY <1>3, FundingAssumption, FS_Subset
  <2>2. Cardinality(Workers) \in Int
    BY FundingAssumption, FS_CardinalityType
  <2>3. Excess' \in Int
    BY <2>2, MostUnitsBound DEF Excess, MostUnits
  <2>4. DealUnits \in Int /\ (DealUnits)' = DealUnits
    BY <1>1 DEF DealUnits, IInv, Shapes, Offers, Economics
  <2>. QED BY <1>3, <1>4, <1>6, <1>9, <2>1, <2>3, <2>4, SumType
<1>15. (UnitsWanted)' <= (DealUnits)' + Excess'
  BY <1>1, <1>8, <1>9, <1>10, <1>11, <1>12, <1>13, <1>14 DEF UnitsWanted
<1>. QED BY <1>15 DEF WantedInv

LEMMA WantedNext == IInv /\ WantedInv /\ [Next]_vars => WantedInv'
<1>. SUFFICES ASSUME IInv, WantedInv, [Next]_vars PROVE WantedInv'
  OBVIOUS
<1>1. IInv' /\ IsFiniteSet(Workers)
  BY NextPreserves, FundingAssumption
<1>2. \A i \in Investments : status[i] \in {"PENDING", "CONFIRMED"} => i \in Wanted
  BY DEF Wanted, In
<1>3. None.op = "none"
  BY DEF None
<1>4. ASSUME LifecycleStep, UNCHANGED fundingVars PROVE WantedInv'
  <2>1. LifecycleKept
    BY <1>4, LifecycleKeeps
  <2>2. status' = status /\ \A w \in Workers : task'[w].op \in {"create", "include", "confirm"} =>
                                              task'[w] = task[w]
    BY <1>4, <2>1 DEF LifecycleKept, FundingOps, fundingVars
  <2>3. (overlapped => overlapped') /\ (overlapped' => Workers # {})
    BY <1>4 DEF LifecycleStep, CreateDeal, OpenFunding, EditRead, TextWrite, OfferWrite, Submit,
       Review, MarkSmartContractCreated, Publish, Cancel, TransitionRead, TransitionWrite,
       StartTransition, Begin, Finish, Continue, WantedInv
  <2>. QED BY <1>1, <1>2, <2>1, <2>2, <2>3, WantedShrinks DEF LifecycleKept
<1>5. ASSUME NEW w \in Workers, NEW i \in Investments,
             ConfirmRead(w, i) \/ FailRead(w, i) \/ RefundRead(w, i)
      PROVE  WantedInv'
  <2>1. PICK t \in {[op |-> "fail", inv |-> i], [op |-> "include", inv |-> i],
                    [op |-> "weigh", inv |-> i]} :
          /\ Begin(w, t) /\ UNCHANGED <<offer, status>>
          /\ t.op = "include" => status[i] = "PENDING"
    BY <1>5 DEF FailRead, ConfirmRead, RefundRead, Confirmable, offerVars, fundingVars
  <2>2. t.inv = i /\ t.op \notin {"create", "confirm"}
    OBVIOUS
  <2>3. /\ task'[w] = t /\ \A v \in Workers \ {w} : task'[v] = task[v]
        /\ overlapped => overlapped'
    BY <2>1 DEF Begin, IInv, Shapes
  <2>4. t.op = "include" => i \in Wanted
    BY <1>2, <2>1
  <2>. QED BY <1>1, <1>2, <2>1, <2>2, <2>3, <2>4, WantedShrinks
<1>6. ASSUME NEW w \in Workers,
             CreateWrite(w) \/ ConfirmWrite(w) \/ FailWrite(w) \/ RefundWrite(w) \/ Abort(w)
      PROVE  WantedInv'
  <2>1. Finish(w) /\ UNCHANGED offer
    BY <1>6 DEF CreateWrite, ConfirmWrite, FailWrite, RefundWrite, Abort, offerVars
  <2>2. /\ overlapped' = overlapped
        /\ \A v \in Workers :
              task'[v].op \in {"create", "include", "confirm"} => task'[v] = task[v]
    BY <1>3, <2>1, Finishing DEF IInv
  <2>3. \A j \in Investments : /\ status'[j] \in {"PENDING", "CONFIRMED"} => j \in Wanted
                               /\ status'[j] = "none" => status[j] = "none"
    <3>1. CASE CreateWrite(w)
      <4>1. PICK i \in Investments : i = task[w].inv /\ task[w].op = "create"
        BY <3>1, InHandTells DEF CreateWrite
      <4>2. status[i] = "none" => i \in Wanted
        BY <4>1 DEF Wanted
      <4>3. status' = status \/ (status[i] = "none" /\ status' = [status EXCEPT ![i] = "PENDING"])
        BY <3>1, <4>1 DEF CreateWrite
      <4>. QED BY <1>2, <4>2, <4>3 DEF IInv, Shapes
    <3>2. CASE ConfirmWrite(w)
      <4>1. PICK i \in Investments : i = task[w].inv /\ task[w].op = "confirm"
        BY <3>2, InHandTells DEF ConfirmWrite
      <4>2. i \in Wanted
        BY <4>1 DEF Wanted
      <4>3. status' = [status EXCEPT ![i] = "CONFIRMED"]
        BY <3>2, <4>1 DEF ConfirmWrite
      <4>. QED BY <1>2, <4>2, <4>3 DEF IInv, Shapes
    <3>3. CASE FailWrite(w) \/ RefundWrite(w)
      <4>1. PICK s \in {"FAILED", "REFUNDED"} : status' = [status EXCEPT ![task[w].inv] = s]
        BY <3>3 DEF FailWrite, RefundWrite
      <4>. QED BY <1>2, <4>1 DEF IInv, Shapes
    <3>4. CASE Abort(w)
      BY <1>2, <3>4 DEF Abort, fundingVars
    <3>. QED BY <1>6, <3>1, <3>2, <3>3, <3>4
  <2>. QED BY <1>1, <2>1, <2>2, <2>3, WantedShrinks DEF WantedInv
<1>7. ASSUME NEW w \in Workers, ConfirmReadDeal(w) \/ RefundReadEscrow(w)
      PROVE  WantedInv'
  <2>1. PICK t \in {[op |-> "confirm", inv |-> task[w].inv, total |-> deal.total],
                    [op |-> "refund", inv |-> task[w].inv, balance |-> escrow]} :
          /\ Continue(w, t) /\ UNCHANGED <<offer, status>>
          /\ t.op = "confirm" => task[w].op = "include"
    BY <1>7 DEF ConfirmReadDeal, RefundReadEscrow, offerVars, fundingVars
  <2>2. t.inv = task[w].inv /\ t.op \notin {"create", "include"}
    OBVIOUS
  <2>3. /\ task'[w] = t /\ \A v \in Workers \ {w} : task'[v] = task[v]
        /\ overlapped' = overlapped
    BY <2>1 DEF Continue, IInv, Shapes
  <2>4. task[w].op \in {"include", "weigh"}
    BY <1>7 DEF ConfirmReadDeal, RefundReadEscrow
  <2>5. task[w].inv \in Investments
    BY <2>4, InHandTells
  <2>6. t.op = "confirm" => t.inv \in Wanted
    BY <2>1, <2>2, <2>5 DEF Wanted
  <2>. QED BY <1>1, <1>2, <2>1, <2>2, <2>3, <2>6, WantedShrinks DEF WantedInv
<1>8. ASSUME UNCHANGED vars PROVE WantedInv'
  <2>1. UNCHANGED <<offer, task, overlapped, status>>
    BY <1>8 DEF vars, offerVars, fundingVars
  <2>. QED BY <1>1, <1>2, <2>1, WantedShrinks DEF WantedInv
<1>. QED
  BY <1>1, <1>4, <1>5, <1>6, <1>7, <1>8, CreateReadWants DEF Next

(***************************************************************************)
(* investments.service.ts create, confirm: however the requests overlap, a *)
(* deal gives away at most the units it has and those of one request for   *)
(* each further worker; none too many as long as no two requests overlap.  *)
(***************************************************************************)
THEOREM OversellingIsBounded == Spec => []OversoldByOverlapOnly
<1>1. Init => WantedInv
  <2>. SUFFICES ASSUME Init PROVE WantedInv
    OBVIOUS
  <2>1. IInv /\ ~ Opened /\ ~ overlapped
    <3>1. IInv /\ deal.status = "none" /\ ~ overlapped
      BY InitIsInductive DEF Init, LifecycleInit
    <3>. QED BY <3>1 DEF IInv, OpenedForGood
  <2>2. UnitsWanted = 0
    BY <2>1, NothingWantedBefore, SumOfNone DEF UnitsWanted
  <2>3. DealUnits \in Nat
    BY <2>1 DEF DealUnits, IInv, Shapes, Offers, Economics
  <2>. QED BY <2>1, <2>2, <2>3 DEF WantedInv, Excess
<1>2. IInv /\ WantedInv => OversoldByOverlapOnly
  <2>. SUFFICES ASSUME IInv, WantedInv PROVE OversoldByOverlapOnly
    OBVIOUS
  <2>. DEFINE held == {i \in Investments : status[i] \notin {"none", "FAILED", "REFUNDED"}}
  <2>1. held \in SUBSET Wanted
    BY DEF Wanted, In, IInv, Shapes
  <2>2. \A i \in Wanted : UnitsOf[i] \in Nat /\ UnitsOf[i] \in Int
    BY WantedIsFinite, FundingAssumption
  <2>3. IsFiniteSet(held)
    BY <2>1, WantedIsFinite, FS_Subset
  <2>4. UnitsHeld = SumFunctionOnSet(UnitsOf, held)
    BY DEF UnitsHeld
  <2>. HIDE DEF held
  <2>5. UnitsHeld <= UnitsWanted
    BY <2>1, <2>2, <2>4, WantedIsFinite, SumOfPart DEF UnitsWanted
  <2>6. UnitsHeld \in Int /\ UnitsWanted \in Int
    BY <2>1, <2>2, <2>3, <2>4, WantedIsFinite, SumType
  <2>7. DealUnits \in Int /\ Excess \in Int
    <3>1. Cardinality(Workers) \in Int
      BY FundingAssumption, FS_CardinalityType
    <3>. QED BY <3>1, MostUnitsBound DEF Excess, DealUnits, IInv, Shapes, Offers, Economics
  <2>8. UnitsHeld <= DealUnits + Excess
    BY <2>5, <2>6, <2>7 DEF WantedInv
  <2>. QED BY <2>8 DEF OversoldByOverlapOnly, Excess, MostUnits
<1>. QED BY <1>1, <1>2, WantedNext, Invariance, PTL DEF Spec

=============================================================================
