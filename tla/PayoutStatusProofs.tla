------------------------- MODULE PayoutStatusProofs -------------------------
(***************************************************************************)
(* What the status of a payout says of its money, and what the accounts    *)
(* hold, for any settlements, withdrawals, calculations, amounts, number   *)
(* of requests and faults: a distribution that is paid does not stay       *)
(* unmarked because two requests met; a FAILED settlement has drawn        *)
(* nothing, and the escrow account adds up, while requests are served one  *)
(* by one; the wallet is debited once for each withdrawal, and overdrawn   *)
(* by overlap only; and a calculation splits the profit to the last digit. *)
(***************************************************************************)
EXTENDS PayoutsProofs, SumLemmas

\* The worker v has not moved, or serves none of the operations ops.
Bystander(v, ops) ==
    \/ task'[v] = task[v]
    \/ task[v].op \notin ops /\ task'[v].op \notin ops

----------------------------------------------------------------------------
(***************************************************************************)
(* Distributions.                                                          *)
(***************************************************************************)
\* What a distribution pays is settled before it can be paid.
Settled ==
    /\ faults \in Nat
    /\ approved \subseteq Made
    /\ \A d \in Distributions : PaymentKey(d) \in payments => d[1] \in approved
    /\ \A w \in Workers : task[w].op = "distribute" =>
          \A d \in task[w].todo : d[1] = task[w].id

DInv == IInv /\ Settled /\ NoStrandedDistribution

LEMMA StepKeepsOperation ==
    ASSUME NEW t \in InHand, NEW pc
    PROVE  [t EXCEPT !.pc = pc].op = t.op
  BY DEF InHand, None, Approving, Processing, Releasing, Depositing, Locking, Reviewing,
         Withdrawing, Calculating, Distributing, Paying, Closing

\* Settlements and withdrawals leave distributions alone.
DistributionsLeft ==
    /\ UNCHANGED profitVars
    /\ \A d \in Distributions : PaymentKey(d) \in payments' <=> PaymentKey(d) \in payments
    /\ \A v \in Workers : Bystander(v, {"distribute"})
    /\ faults' \in {faults, faults + 1}

LEMMA LeftPreserves ==
    ASSUME DInv, IInv', DistributionsLeft
    PROVE  DInv'
<1>. USE DEF DistributionsLeft, profitVars
<1>1. Settled'
  BY DEF DInv, Settled, Made, Bystander
<1>2. NoStrandedDistribution'
  <2>. SUFFICES ASSUME NEW d \in Distributions,
                       PaymentKey(d) \in payments', d \notin distributed',
                       ~ faults' > 0, Due(d)' # 0
                PROVE  \E w \in Workers :
                          /\ At(w, "distribute", "post")' \/ At(w, "distribute", "mark")'
                          /\ task'[w].now = d
    BY DEF NoStrandedDistribution
  <2>1. Due(d) = Due(d)'
    BY DEF Due
  <2>2. PICK w \in Workers :
           /\ At(w, "distribute", "post") \/ At(w, "distribute", "mark")
           /\ task[w].now = d
    BY <2>1 DEF DInv, NoStrandedDistribution, Settled
  <2>3. task'[w] = task[w]
    BY <2>2 DEF At, Bystander
  <2>. QED BY <2>2, <2>3 DEF At
<1>. QED BY <1>1, <1>2 DEF DInv

LEMMA BystandersOf ==
    ASSUME IInv, NEW w \in Workers, NEW t, NEW ops,
           task' = [task EXCEPT ![w] = t], task[w].op \notin ops, t.op \notin ops
    PROVE  \A v \in Workers : Bystander(v, ops)
  BY DEF IInv, Bystander

LEMMA CreateLeaves ==
    ASSUME IInv, faults \in Nat,
           \/ \E s \in Settlements : CreateSettlement(s)
           \/ \E x \in Withdrawals : RequestWithdrawal(x),
           UNCHANGED profitVars
    PROVE  DistributionsLeft
  BY DEF DistributionsLeft, CreateSettlement, RequestWithdrawal, Bystander, books, requestVars

\* The operations of SettlementsService and EscrowService.
Foreign == {"approve", "process", "deposit", "lock", "review", "withdraw"}

\* A step of a settlement or withdrawal request, as another service sees it.
ForeignStep(w) ==
    /\ task[w] = None \/ task[w].op \in Foreign
    /\ \E t : /\ t = None \/ t.op \in Foreign
              /\ task' = [task EXCEPT ![w] = t]
    /\ faults' = faults \/ Fault
    /\ payments' \subseteq payments
          \cup {PayoutKey(s) : s \in Settlements}
          \cup {WithdrawalPayment(x) : x \in Withdrawals}
    /\ payments \subseteq payments'

LEMMA SettlementIsForeign ==
    ASSUME IInv, SettlementStep
    PROVE  \/ \E s \in Settlements : CreateSettlement(s)
           \/ \E w \in Workers : ForeignStep(w)
<1>1. ASSUME NEW w \in Workers, NEW s \in Settlements, ApproveRead(w, s)
      PROVE  ForeignStep(w)
  BY <1>1 DEF ApproveRead, ForeignStep, Foreign, Begin, books
<1>2. ASSUME NEW w \in Workers, NEW s \in Settlements, ProcessRead(w, s)
      PROVE  ForeignStep(w)
  BY <1>2 DEF ProcessRead, ForeignStep, Foreign, Begin, books
<1>3. ASSUME NEW w \in Workers, ApproveWrite(w) PROVE ForeignStep(w)
  BY <1>3 DEF ApproveWrite, ForeignStep, Foreign, Finish, Continue, At, books
<1>4. ASSUME NEW w \in Workers, MarkProcessing(w) PROVE ForeignStep(w)
  BY <1>4, StepKeepsOperation
  DEF IInv, MarkProcessing, ForeignStep, Foreign, Goto, Continue, At, books
<1>5. ASSUME NEW w \in Workers, CheckEscrow(w) PROVE ForeignStep(w)
  BY <1>5 DEF CheckEscrow, ForeignStep, Foreign, Continue, At, books
<1>6. ASSUME NEW w \in Workers, MoveEscrow(w) PROVE ForeignStep(w)
  BY <1>6, StepKeepsOperation
  DEF IInv, MoveEscrow, ForeignStep, Foreign, Goto, Continue, At
<1>7. ASSUME NEW w \in Workers, PayOut(w) PROVE ForeignStep(w)
  <2>1. task[w].id \in Settlements
    BY <1>7, OperationTells DEF IInv, PayOut, At, Processing, Releasing
  <2>. QED BY <1>7, <2>1, StepKeepsOperation
       DEF IInv, PayOut, ForeignStep, Foreign, Goto, Continue, At
<1>8. ASSUME NEW w \in Workers, CompleteSettlement(w) \/ FailSettlement(w)
      PROVE  ForeignStep(w)
  BY <1>8 DEF CompleteSettlement, FailSettlement, ForeignStep, Foreign, Finish, Continue,
              At, books
<1>9. ASSUME NEW w \in Workers, ThrowIntoCatch(w) PROVE ForeignStep(w)
  BY <1>9, StepKeepsOperation DEF IInv, ThrowIntoCatch, ForeignStep, Foreign, At, books
<1>10. ASSUME NEW w \in Workers, NEW r \in Deposits, DepositRead(w, r)
       PROVE  ForeignStep(w)
  BY <1>10 DEF DepositRead, ForeignStep, Foreign, Begin, books
<1>11. ASSUME NEW w \in Workers, LockRead(w) PROVE ForeignStep(w)
  BY <1>11 DEF LockRead, ForeignStep, Foreign, Begin, books
<1>12. ASSUME NEW w \in Workers, DepositWrite(w) \/ LockWrite(w) PROVE ForeignStep(w)
  BY <1>12 DEF DepositWrite, LockWrite, ForeignStep, Foreign, Finish, Continue, At, books
<1>. QED BY <1>1, <1>2, <1>3, <1>4, <1>5, <1>6, <1>7, <1>8, <1>9, <1>10, <1>11, <1>12
     DEF SettlementStep

LEMMA WithdrawalIsForeign ==
    ASSUME IInv, WithdrawalStep
    PROVE  \/ \E x \in Withdrawals : RequestWithdrawal(x)
           \/ \E w \in Workers : ForeignStep(w)
<1>1. ASSUME NEW w \in Workers, NEW x \in Withdrawals, NEW d, ReviewRead(w, x, d)
      PROVE  ForeignStep(w)
  BY <1>1 DEF ReviewRead, ForeignStep, Foreign, Begin, books
<1>2. ASSUME NEW w \in Workers, NEW x \in Withdrawals, WithdrawRead(w, x)
      PROVE  ForeignStep(w)
  BY <1>2 DEF WithdrawRead, ForeignStep, Foreign, Begin, books
<1>3. ASSUME NEW w \in Workers, ReviewWrite(w) PROVE ForeignStep(w)
  BY <1>3 DEF ReviewWrite, ForeignStep, Foreign, Finish, Continue, At, books
<1>4. ASSUME NEW w \in Workers, CheckWallet(w) PROVE ForeignStep(w)
  BY <1>4, StepKeepsOperation
  DEF IInv, CheckWallet, ForeignStep, Foreign, Finish, Goto, Continue, At, books
<1>5. ASSUME NEW w \in Workers, PayWithdrawal(w) PROVE ForeignStep(w)
  <2>1. task[w].id \in Withdrawals
    BY <1>5, OperationTells DEF IInv, PayWithdrawal, At, Withdrawing
  <2>. QED BY <1>5, <2>1
       DEF PayWithdrawal, ForeignStep, Foreign, Finish, Continue, At, books
<1>. QED BY <1>1, <1>2, <1>3, <1>4, <1>5 DEF WithdrawalStep

LEMMA ForeignLeaves ==
    ASSUME IInv, faults \in Nat, NEW w \in Workers, ForeignStep(w), UNCHANGED profitVars
    PROVE  DistributionsLeft
<1>1. PICK t : /\ t = None \/ t.op \in Foreign
               /\ task' = [task EXCEPT ![w] = t]
  BY DEF ForeignStep
<1>2. t.op \notin {"distribute"} /\ task[w].op \notin {"distribute"}
  BY <1>1 DEF ForeignStep, Foreign, None
<1>3. \A v \in Workers : Bystander(v, {"distribute"})
  BY <1>1, <1>2, BystandersOf
<1>4. \A d \in Distributions : PaymentKey(d) \in payments' <=> PaymentKey(d) \in payments
  BY DEF ForeignStep, PaymentKey, PayoutKey, WithdrawalPayment
<1>5. faults' \in {faults, faults + 1}
  BY DEF ForeignStep, Fault
<1>. QED BY <1>3, <1>4, <1>5 DEF DistributionsLeft

\* A request begins, or one ends that has no distribution in hand.
LEMMA RequestLeaves ==
    ASSUME DInv, IInv', NEW w \in Workers, NEW t, UNCHANGED <<profitVars, books>>,
           task' = [task EXCEPT ![w] = t],
           faults' \in {faults, faults + 1},
           faults' = faults => task[w] \notin Paying,
           t.op = "distribute" => \A d \in t.todo : d[1] = t.id
    PROVE  DInv'
<1>. USE DEF profitVars, books
<1>1. task'[w] = t /\ \A v \in Workers \ {w} : task'[v] = task[v]
  BY DEF DInv, IInv
<1>2. Settled'
  BY <1>1 DEF DInv, Settled, Made
<1>3. NoStrandedDistribution'
  <2>. SUFFICES ASSUME NEW d \in Distributions,
                       PaymentKey(d) \in payments', d \notin distributed',
                       ~ faults' > 0, Due(d)' # 0
                PROVE  \E v \in Workers :
                          /\ At(v, "distribute", "post")' \/ At(v, "distribute", "mark")'
                          /\ task'[v].now = d
    BY DEF NoStrandedDistribution
  <2>1. Due(d) = Due(d)'
    BY DEF Due
  <2>2. faults' = faults /\ ~ faults > 0
    BY DEF DInv, Settled
  <2>3. PICK v \in Workers :
           /\ At(v, "distribute", "post") \/ At(v, "distribute", "mark")
           /\ task[v].now = d
    BY <2>1, <2>2 DEF DInv, NoStrandedDistribution
  <2>4. task[v] \in Paying
    BY <2>3, OperationTells DEF DInv, IInv, At, Distributing
  <2>5. v # w
    BY <2>2, <2>4
  <2>. QED BY <1>1, <2>3, <2>5 DEF At
<1>. QED BY <1>2, <1>3 DEF DInv

LEMMA DieLeaves ==
    ASSUME DInv, IInv', NEW w \in Workers, Die(w)
    PROVE  DInv'
<1>1. faults' = faults + 1 /\ faults \in Nat
  BY DEF Die, Abort, Fault, DInv, Settled
<1>2. /\ UNCHANGED <<profitVars, books>>
      /\ task' = [task EXCEPT ![w] = None]
  BY DEF Die, Abort
<1>3. None.op # "distribute" /\ faults' # faults
  BY <1>1 DEF None
<1>. QED BY <1>1, <1>2, <1>3, RequestLeaves

\* What is new about a calculation is about one that nobody has approved.
LEMMA CalculationLeaves ==
    ASSUME DInv, IInv', NEW w \in Workers, CalculateWrite(w)
    PROVE  DInv'
<1>1. /\ task' = [task EXCEPT ![w] = None]
      /\ UNCHANGED <<deal, approved, distributed, books, faults>>
      /\ task[w].op = "calculate"
  BY DEF CalculateWrite, Finish, Continue, At
<1>2. \A v \in Workers : Bystander(v, {"distribute"})
  BY <1>1, BystandersOf DEF DInv, None
<1>3. task[w] \in Calculating
  BY <1>1, OperationTells DEF DInv, IInv
<1>4. \A c \in approved : /\ calculation'[c] = calculation[c]
                          /\ calculation[c] # NoCalculation
  <2>1. /\ approved \subseteq Calculations
        /\ calculation \in [Calculations -> Statements \cup {NoCalculation}]
    BY DEF DInv, IInv, TypeOK, ProfitTypeOK
  <2>2. \A c \in approved : calculation[c] # NoCalculation
    BY DEF DInv, Settled, Made
  <2>3. calculation' = calculation
        \/ /\ calculation[task[w].id] = NoCalculation
           /\ calculation' = [calculation EXCEPT ![task[w].id] = task[w].from]
    BY DEF CalculateWrite
  <2>. QED BY <2>1, <2>2, <2>3
<1>5. Settled'
  <2>1. approved' \subseteq Made'
    BY <1>1, <1>4 DEF Made, DInv, IInv, TypeOK, ProfitTypeOK
  <2>. QED BY <1>1, <1>2, <2>1 DEF DInv, Settled, Bystander, books
<1>6. NoStrandedDistribution'
  <2>. SUFFICES ASSUME NEW d \in Distributions,
                       PaymentKey(d) \in payments', d \notin distributed',
                       ~ faults' > 0, Due(d)' # 0
                PROVE  \E v \in Workers :
                          /\ At(v, "distribute", "post")' \/ At(v, "distribute", "mark")'
                          /\ task'[v].now = d
    BY DEF NoStrandedDistribution
  <2>1. Due(d) = Due(d)'
    BY <1>1, <1>4 DEF Due, DInv, Settled, books
  <2>2. PICK v \in Workers :
           /\ At(v, "distribute", "post") \/ At(v, "distribute", "mark")
           /\ task[v].now = d
    BY <1>1, <2>1 DEF DInv, NoStrandedDistribution, books
  <2>3. task'[v] = task[v]
    BY <1>2, <2>2 DEF At, Bystander
  <2>. QED BY <2>2, <2>3 DEF At
<1>. QED BY <1>5, <1>6 DEF DInv

LEMMA ApprovalLeaves ==
    ASSUME DInv, IInv', NEW c \in Calculations, ApproveCalculation(c)
    PROVE  DInv'
<1>. USE DEF ApproveCalculation, books, requestVars
<1>1. Settled'
  BY DEF DInv, Settled, Made
<1>2. NoStrandedDistribution'
  BY DEF DInv, NoStrandedDistribution, At, Due
<1>. QED BY <1>1, <1>2 DEF DInv

\* The worker that pays a distribution goes on with it.
LEMMA PayKeeps ==
    ASSUME DInv, IInv', NEW w \in Workers, NEW e \in Distributions, PayDistribution(w, e)
    PROVE  DInv'
<1>1. task[w] \in Distributing /\ e \in task[w].todo
  BY OperationTells DEF DInv, IInv, PayDistribution, At, Paying
<1>2. CASE PaymentKey(e) \in payments
  BY <1>1, <1>2, RequestLeaves
  DEF PayDistribution, Duplicate, Finish, Continue, books, None, Distributing, Paying
<1>3. CASE PaymentKey(e) \notin payments
  <2>. DEFINE t == [op |-> "distribute", pc |-> "post", id |-> task[w].id,
                    todo |-> task[w].todo, now |-> e]
  <2>1. /\ payments' = payments \cup {PaymentKey(e)}
        /\ UNCHANGED <<profitVars, posted, faults>>
        /\ task' = [task EXCEPT ![w] = t]
    BY <1>3 DEF PayDistribution, Continue
  <2>2. /\ t.op = "distribute" /\ t.pc = "post" /\ t.now = e
        /\ t.id = task[w].id /\ t.todo = task[w].todo
    OBVIOUS
  <2>. HIDE DEF t
  <2>3. task'[w] = t /\ \A v \in Workers \ {w} : task'[v] = task[v]
    BY <2>1 DEF DInv, IInv
  <2>4. task[w].op = "distribute" /\ task[w].pc = "next" /\ task[w].id \in approved
    BY <1>1 DEF DInv, IInv, Knows, Distributing
  <2>5. \A d : PaymentKey(d) \in payments' => d = e \/ PaymentKey(d) \in payments
    BY <2>1 DEF PaymentKey
  <2>6. e[1] = task[w].id
    BY <1>1, <2>4 DEF DInv, Settled
  <2>7. Settled'
    BY <2>1, <2>2, <2>3, <2>4, <2>5, <2>6 DEF DInv, Settled, Made, profitVars
  <2>8. NoStrandedDistribution'
    <3>. SUFFICES ASSUME NEW d \in Distributions,
                         PaymentKey(d) \in payments', d \notin distributed',
                         ~ faults' > 0, Due(d)' # 0
                  PROVE  \E v \in Workers :
                            /\ At(v, "distribute", "post")' \/ At(v, "distribute", "mark")'
                            /\ task'[v].now = d
      BY DEF NoStrandedDistribution
    <3>1. CASE d = e
      BY <2>2, <2>3, <3>1 DEF At
    <3>2. CASE d # e
      <4>1. Due(d) = Due(d)'
        BY <2>1 DEF Due, profitVars
      <4>2. PICK v \in Workers :
               /\ At(v, "distribute", "post") \/ At(v, "distribute", "mark")
               /\ task[v].now = d
        BY <2>1, <2>5, <3>2, <4>1 DEF DInv, NoStrandedDistribution, profitVars
      <4>. QED BY <2>3, <2>4, <4>2 DEF At
    <3>. QED BY <3>1, <3>2
  <2>. QED BY <2>7, <2>8 DEF DInv
<1>. QED BY <1>2, <1>3

\* A posting that is refused was of nothing.
LEMMA PostKeeps ==
    ASSUME DInv, IInv', NEW w \in Workers, PostDistribution(w)
    PROVE  DInv'
<1>1. task[w] \in Paying /\ UNCHANGED <<profitVars, payments, faults>>
  BY OperationTells
  DEF DInv, IInv, PostDistribution, At, Distributing, Finish, Goto, Continue
<1>2. PICK e \in Distributions : e = task[w].now
  BY <1>1 DEF Paying
<1>3. PICK t : /\ task' = [task EXCEPT ![w] = t]
               /\ \/ t = None /\ Due(e) = 0
                  \/ t = [task[w] EXCEPT !.pc = "mark"]
  BY <1>2 DEF PostDistribution, Finish, Goto, Continue
<1>4. task'[w] = t /\ \A v \in Workers \ {w} : task'[v] = task[v]
  BY <1>3 DEF DInv, IInv
<1>5. \/ t.op # "distribute" /\ Due(e) = 0
      \/ /\ t.op = "distribute" /\ t.pc = "mark" /\ t.now = e
         /\ t.id = task[w].id /\ t.todo = task[w].todo
  BY <1>1, <1>2, <1>3 DEF None, Paying
<1>6. task[w].op = "distribute"
  BY <1>1 DEF Paying
<1>7. Settled'
  BY <1>1, <1>4, <1>5, <1>6 DEF DInv, Settled, Made, profitVars
<1>8. NoStrandedDistribution'
  <2>. SUFFICES ASSUME NEW d \in Distributions,
                       PaymentKey(d) \in payments', d \notin distributed',
                       ~ faults' > 0, Due(d)' # 0
                PROVE  \E v \in Workers :
                          /\ At(v, "distribute", "post")' \/ At(v, "distribute", "mark")'
                          /\ task'[v].now = d
    BY DEF NoStrandedDistribution
  <2>1. Due(d) = Due(d)'
    BY <1>1 DEF Due, profitVars
  <2>2. PICK v \in Workers :
           /\ At(v, "distribute", "post") \/ At(v, "distribute", "mark")
           /\ task[v].now = d
    BY <1>1, <2>1 DEF DInv, NoStrandedDistribution, profitVars
  <2>3. CASE v = w
    BY <1>2, <1>4, <1>5, <2>1, <2>2, <2>3 DEF At
  <2>4. CASE v # w
    BY <1>4, <2>2, <2>4 DEF At
  <2>. QED BY <2>3, <2>4
<1>. QED BY <1>7, <1>8 DEF DInv

LEMMA MarkKeeps ==
    ASSUME DInv, IInv', NEW w \in Workers, MarkDistribution(w)
    PROVE  DInv'
<1>1. task[w] \in Paying
  BY OperationTells DEF DInv, IInv, MarkDistribution, At, Distributing
<1>2. PICK e \in Distributions : e = task[w].now
  BY <1>1 DEF Paying
<1>. DEFINE t == [op |-> "distribute", pc |-> "next", id |-> task[w].id,
                  todo |-> task[w].todo \ {e}]
<1>3. /\ distributed' = distributed \cup {e}
      /\ UNCHANGED <<deal, calculation, approved, books, faults>>
      /\ task' = [task EXCEPT ![w] = t]
  BY <1>2 DEF MarkDistribution, Continue
<1>4. t.op = "distribute" /\ t.id = task[w].id /\ t.todo = task[w].todo \ {e}
  OBVIOUS
<1>. HIDE DEF t
<1>5. task'[w] = t /\ \A v \in Workers \ {w} : task'[v] = task[v]
  BY <1>3 DEF DInv, IInv
<1>6. task[w].op = "distribute"
  BY <1>1 DEF Paying
<1>7. Settled'
  BY <1>3, <1>4, <1>5, <1>6 DEF DInv, Settled, Made, books
<1>8. NoStrandedDistribution'
  <2>. SUFFICES ASSUME NEW d \in Distributions,
                       PaymentKey(d) \in payments', d \notin distributed',
                       ~ faults' > 0, Due(d)' # 0
                PROVE  \E v \in Workers :
                          /\ At(v, "distribute", "post")' \/ At(v, "distribute", "mark")'
                          /\ task'[v].now = d
    BY DEF NoStrandedDistribution
  <2>1. Due(d) = Due(d)'
    BY <1>3 DEF Due
  <2>2. PICK v \in Workers :
           /\ At(v, "distribute", "post") \/ At(v, "distribute", "mark")
           /\ task[v].now = d
    BY <1>3, <2>1 DEF DInv, NoStrandedDistribution, books
  <2>3. v # w
    BY <1>2, <1>3, <2>2
  <2>. QED BY <1>5, <2>2, <2>3 DEF At
<1>. QED BY <1>7, <1>8 DEF DInv

\* The requests that read, and those that write the status of the deal.
LEMMA ReadsLeave ==
    ASSUME DInv, IInv', NEW w \in Workers,
           \/ \E c \in Calculations, s \in Statements : CalculateRead(w, c, s)
           \/ \E c \in Calculations : DistributeRead(w, c)
           \/ CloseRead(w)
    PROVE  DInv'
<1>1. ASSUME NEW t, Begin(w, t), UNCHANGED <<profitVars, books>>,
             t.op = "distribute" => \A d \in t.todo : d[1] = t.id
      PROVE  DInv'
  <2>1. task[w] = None /\ task' = [task EXCEPT ![w] = t] /\ faults' = faults
    BY <1>1 DEF Begin
  <2>2. None \notin Paying
    BY DEF None, Paying
  <2>. QED BY <1>1, <2>1, <2>2, RequestLeaves
<1>2. ASSUME NEW c \in Calculations, NEW s \in Statements, CalculateRead(w, c, s)
      PROVE  DInv'
  BY <1>1, <1>2 DEF CalculateRead
<1>3. ASSUME NEW c \in Calculations, DistributeRead(w, c) PROVE DInv'
  <2>1. \A d \in Pending(c) : d[1] = c
    BY DEF Pending
  <2>. QED BY <1>1, <1>3, <2>1 DEF DistributeRead
<1>4. CASE CloseRead(w)
  BY <1>1, <1>4 DEF CloseRead
<1>. QED BY <1>2, <1>3, <1>4

LEMMA DealStatusLeaves ==
    ASSUME DInv, IInv', NEW w \in Workers, SettleDeal(w) \/ CloseWrite(w)
    PROVE  DInv'
<1>1. task' = [task EXCEPT ![w] = None] /\ UNCHANGED <<calculation, approved, distributed, books, faults>>
  BY DEF SettleDeal, CloseWrite, Finish, Continue
<1>2. \/ task[w].op # "distribute"
      \/ task[w].pc = "next"
  BY DEF SettleDeal, CloseWrite, At
<1>3. task'[w] = None /\ \A v \in Workers \ {w} : task'[v] = task[v]
  BY <1>1 DEF DInv, IInv
<1>4. Settled'
  BY <1>1, <1>3 DEF DInv, Settled, Made, books, None
<1>5. NoStrandedDistribution'
  BY <1>1, <1>2, <1>3 DEF DInv, NoStrandedDistribution, At, Due, books
<1>. QED BY <1>4, <1>5 DEF DInv

LEMMA DistributionStep ==
    ASSUME DInv, IInv', [Next]_vars
    PROVE  DInv'
<1>1. ASSUME SettlementStep, UNCHANGED <<withdrawalVars, profitVars>> PROVE DInv'
  BY <1>1, SettlementIsForeign, ForeignLeaves, CreateLeaves, LeftPreserves DEF DInv, Settled
<1>2. ASSUME WithdrawalStep, UNCHANGED <<settlementVars, profitVars>> PROVE DInv'
  BY <1>2, WithdrawalIsForeign, ForeignLeaves, CreateLeaves, LeftPreserves DEF DInv, Settled
<1>3. CASE ProfitStep
  BY <1>3, ApprovalLeaves, ReadsLeave, CalculationLeaves, PayKeeps, PostKeeps, MarkKeeps,
     DealStatusLeaves
  DEF ProfitStep
<1>4. ASSUME NEW w \in Workers, Die(w) PROVE DInv'
  BY <1>4, DieLeaves
<1>5. CASE UNCHANGED vars
  <2>. USE <1>5 DEF vars, profitVars, books, requestVars
  <2>1. DistributionsLeft
    BY DEF DistributionsLeft, Bystander
  <2>. QED BY <2>1, LeftPreserves
<1>. QED BY <1>1, <1>2, <1>3, <1>4, <1>5 DEF Next

\* distributeProfit: a distribution that is paid gets marked, unless a request
\* dies or the amount is nothing; two requests that meet do not strand it.
THEOREM PaidGetsMarked == Spec => []NoStrandedDistribution
<1>1. Init => DInv
  <2>1. Init => Settled /\ NoStrandedDistribution
    BY DEF Init, RequestInit, ProfitInit, Settled, NoStrandedDistribution, None
  <2>. QED BY <2>1, InitIsInductive DEF DInv
<1>2. DInv /\ [Next]_vars => DInv'
  BY NextPreserves, DistributionStep DEF DInv
<1>3. DInv => NoStrandedDistribution
  BY DEF DInv
<1>. QED BY <1>1, <1>2, <1>3, PTL DEF Spec

----------------------------------------------------------------------------
(***************************************************************************)
(* Settlements, while requests are served one by one and nothing throws.   *)
(***************************************************************************)
Calm == ~ overlapped /\ faults = 0

StatusTells(s) ==
    /\ settlement[s] \in {"none", "PENDING", "APPROVED", "FAILED"} => moved[s] = 0
    /\ settlement[s] = "COMPLETED" /\ s \in HasRecipient => PayoutKey(s) \in payments

\* Where a request stands, its settlement has the status it wrote there.
Serves(w) ==
    LET t == task[w]
        s == t.id
    IN  /\ t.op = "approve" => settlement[s] = "PENDING"
        /\ t.op = "process" =>
              /\ settlement[s] = IF t.pc = "mark" THEN "APPROVED" ELSE "PROCESSING"
              /\ t.pc \in {"check", "move", "fail"} => moved[s] = 0
              /\ t.pc = "pay" => PayoutKey(s) \notin payments
              /\ t.pc = "complete" /\ s \in HasRecipient => PayoutKey(s) \in payments

Solo == \A v, w \in Workers : task[v] # None /\ task[w] # None => v = w

InStep ==
    /\ Solo
    /\ \A s \in Settlements : StatusTells(s)
    /\ \A w \in Workers : Serves(w)

FInv ==
    /\ IInv
    /\ faults \in Nat
    /\ overlapped \in BOOLEAN
    /\ Calm => InStep

\* The worker w takes a step of its request, and ends it or goes on with t.
Turn(w, t) ==
    /\ task' = [task EXCEPT ![w] = t]
    /\ faults' = faults
    /\ \/ task[w] # None /\ UNCHANGED overlapped
       \/ Begin(w, t)

LEMMA TurnPreserves ==
    ASSUME FInv, IInv', NEW w \in Workers, NEW t, Turn(w, t),
           Calm /\ InStep => Serves(w)' /\ \A s \in Settlements : StatusTells(s)'
    PROVE  FInv'
<1>1. faults' \in Nat /\ overlapped' \in BOOLEAN
  BY DEF FInv, Turn, Begin
<1>2. ASSUME Calm' PROVE InStep'
  <2>1. Calm /\ InStep
    BY <1>2 DEF Calm, FInv, Turn, Begin
  <2>2. task'[w] = t /\ \A v \in Workers \ {w} : task'[v] = task[v]
    BY DEF FInv, IInv, Turn
  <2>3. \A v \in Workers \ {w} : task[v] = None
    <3>1. CASE task[w] # None
      BY <2>1, <3>1 DEF InStep, Solo
    <3>2. CASE Begin(w, t)
      BY <1>2, <3>2 DEF Begin, Calm, FInv
    <3>. QED BY <3>1, <3>2 DEF Turn
  <2>4. Solo'
    BY <2>2, <2>3 DEF Solo
  <2>5. \A v \in Workers \ {w} : Serves(v)'
    BY <2>2, <2>3 DEF Serves, None
  <2>. QED BY <2>1, <2>4, <2>5 DEF InStep
<1>. QED BY <1>1, <1>2 DEF FInv

LEMMA FaultPreserves ==
    ASSUME FInv, IInv', Fault, UNCHANGED overlapped
    PROVE  FInv'
  BY DEF FInv, Fault, Calm

\* A request of another service takes a step.
LEMMA AsidePreserves ==
    ASSUME FInv, IInv', NEW w \in Workers, NEW t, Turn(w, t), UNCHANGED settlementVars,
           t.op \notin {"approve", "process"},
           \A s \in Settlements : PayoutKey(s) \in payments' <=> PayoutKey(s) \in payments
    PROVE  FInv'
<1>1. task'[w] = t
  BY DEF FInv, IInv, Turn
<1>2. Serves(w)'
  BY <1>1 DEF Serves
<1>3. InStep => \A s \in Settlements : StatusTells(s)'
  BY DEF InStep, StatusTells, settlementVars
<1>. QED BY <1>2, <1>3, TurnPreserves

\* Nothing of a request changes, and no settlement.
LEMMA BesidePreserves ==
    ASSUME FInv, IInv', UNCHANGED requestVars, UNCHANGED settlementVars,
           UNCHANGED payments
    PROVE  FInv'
  BY DEF FInv, Calm, InStep, Solo, StatusTells, Serves, requestVars, settlementVars

LEMMA WithdrawalStepAside ==
    ASSUME FInv, IInv', WithdrawalStep, UNCHANGED settlementVars
    PROVE  FInv'
<1>1. ASSUME NEW x \in Withdrawals, RequestWithdrawal(x) PROVE FInv'
  BY <1>1, BesidePreserves DEF RequestWithdrawal, books
<1>2. ASSUME NEW w \in Workers, NEW x \in Withdrawals, NEW d, ReviewRead(w, x, d)
      PROVE  FInv'
  BY <1>2, AsidePreserves DEF ReviewRead, Turn, Begin, books
<1>3. ASSUME NEW w \in Workers, NEW x \in Withdrawals, WithdrawRead(w, x) PROVE FInv'
  BY <1>3, AsidePreserves DEF WithdrawRead, Turn, Begin, books
<1>4. ASSUME NEW w \in Workers, ReviewWrite(w) PROVE FInv'
  <2>1. Turn(w, None) /\ None.op \notin {"approve", "process"}
    BY <1>4 DEF ReviewWrite, Turn, Finish, Continue, At, None
  <2>. QED BY <1>4, <2>1, AsidePreserves DEF ReviewWrite, books
<1>5. ASSUME NEW w \in Workers, CheckWallet(w) PROVE FInv'
  <2>1. PICK t : /\ t = None \/ t = [task[w] EXCEPT !.pc = "pay"]
                 /\ Turn(w, t)
    BY <1>5 DEF CheckWallet, Turn, Finish, Goto, Continue, At, None
  <2>2. t.op \notin {"approve", "process"}
    <3>1. task[w] \in InHand /\ task[w].op \notin {"approve", "process"}
      BY <1>5 DEF CheckWallet, At, FInv, IInv
    <3>2. None.op \notin {"approve", "process"}
      BY DEF None
    <3>. QED BY <2>1, <3>1, <3>2, StepKeepsOperation
  <2>. QED BY <1>5, <2>1, <2>2, AsidePreserves DEF CheckWallet, books
<1>6. ASSUME NEW w \in Workers, PayWithdrawal(w) PROVE FInv'
  <2>1. Turn(w, None) /\ None.op \notin {"approve", "process"}
    BY <1>6 DEF PayWithdrawal, Turn, Finish, Continue, At, None
  <2>2. payments' \in {payments, payments \cup {WithdrawalPayment(task[w].id)}}
    BY <1>6 DEF PayWithdrawal, books
  <2>. QED BY <2>1, <2>2, KeysApart, AsidePreserves
<1>. QED BY <1>1, <1>2, <1>3, <1>4, <1>5, <1>6 DEF WithdrawalStep

LEMMA ProfitStepAside ==
    ASSUME FInv, IInv', ProfitStep, UNCHANGED settlementVars
    PROVE  FInv'
<1>1. ASSUME NEW c \in Calculations, ApproveCalculation(c) PROVE FInv'
  BY <1>1, BesidePreserves DEF ApproveCalculation, books
<1>2. ASSUME NEW w \in Workers, NEW t, Begin(w, t), t.op \notin {"approve", "process"},
             UNCHANGED payments
      PROVE  FInv'
  BY <1>2, AsidePreserves DEF Turn, Begin
<1>3. ASSUME NEW w \in Workers, NEW c \in Calculations, NEW s \in Statements,
             CalculateRead(w, c, s)
      PROVE  FInv'
  BY <1>2, <1>3 DEF CalculateRead, books
<1>4. ASSUME NEW w \in Workers, NEW c \in Calculations, DistributeRead(w, c) PROVE FInv'
  BY <1>2, <1>4 DEF DistributeRead, books
<1>5. ASSUME NEW w \in Workers, CloseRead(w) PROVE FInv'
  BY <1>2, <1>5 DEF CloseRead, books
<1>6. ASSUME NEW w \in Workers, CalculateWrite(w) \/ SettleDeal(w) \/ CloseWrite(w)
      PROVE  FInv'
  <2>1. Turn(w, None) /\ None.op \notin {"approve", "process"} /\ UNCHANGED payments
    BY <1>6 DEF CalculateWrite, SettleDeal, CloseWrite, Turn, Finish, Continue, At, None,
                books
  <2>. QED BY <2>1, AsidePreserves
<1>7. ASSUME NEW w \in Workers, NEW d \in Distributions, PayDistribution(w, d)
      PROVE  FInv'
  <2>1. PICK t : Turn(w, t) /\ t.op \notin {"approve", "process"}
    BY <1>7 DEF PayDistribution, Duplicate, Turn, Finish, Continue, At, None
  <2>2. payments' \in {payments, payments \cup {PaymentKey(d)}}
    BY <1>7 DEF PayDistribution, Duplicate
  <2>. QED BY <2>1, <2>2, KeysApart, AsidePreserves
<1>8. ASSUME NEW w \in Workers, PostDistribution(w) PROVE FInv'
  <2>1. PICK t : /\ t = None \/ t = [task[w] EXCEPT !.pc = "mark"]
                 /\ Turn(w, t)
    BY <1>8 DEF PostDistribution, Turn, Finish, Goto, Continue, At, None
  <2>2. t.op \notin {"approve", "process"}
    <3>1. task[w] \in InHand /\ task[w].op \notin {"approve", "process"}
      BY <1>8 DEF PostDistribution, At, FInv, IInv
    <3>2. None.op \notin {"approve", "process"}
      BY DEF None
    <3>. QED BY <2>1, <3>1, <3>2, StepKeepsOperation
  <2>. QED BY <1>8, <2>1, <2>2, AsidePreserves DEF PostDistribution
<1>9. ASSUME NEW w \in Workers, MarkDistribution(w) PROVE FInv'
  <2>. DEFINE t == [op |-> "distribute", pc |-> "next", id |-> task[w].id,
                    todo |-> task[w].todo \ {task[w].now}]
  <2>1. Turn(w, t) /\ t.op \notin {"approve", "process"}
    BY <1>9 DEF MarkDistribution, Turn, Continue, At, None
  <2>. HIDE DEF t
  <2>. QED BY <1>9, <2>1, AsidePreserves DEF MarkDistribution, books
<1>. QED BY <1>1, <1>3, <1>4, <1>5, <1>6, <1>7, <1>8, <1>9 DEF ProfitStep

LEMMA CreateInStep ==
    ASSUME FInv, IInv', NEW r \in Settlements, CreateSettlement(r)
    PROVE  FInv'
<1>. USE DEF CreateSettlement, requestVars, books
<1>1. /\ settlement' = [settlement EXCEPT ![r] = "PENDING"]
      /\ settlement \in [Settlements -> {"none", "PENDING", "APPROVED", "PROCESSING",
                                         "COMPLETED", "FAILED"}]
  BY DEF SetStatus, FInv, IInv, TypeOK, SettlementTypeOK
<1>2. ASSUME InStep PROVE InStep'
  <2>1. Solo'
    BY <1>2 DEF InStep, Solo
  <2>2. \A s \in Settlements : StatusTells(s)'
    BY <1>1, <1>2 DEF InStep, StatusTells
  <2>3. ASSUME NEW w \in Workers PROVE Serves(w)'
    <3>1. CASE task[w].op \in {"approve", "process"}
      <4>1. task[w].id \in Settlements /\ Serves(w)
        BY <1>2, <3>1, OperationTells DEF InStep, FInv, IInv, Approving, Processing, Releasing
      <4>2. settlement[task[w].id] # "none"
        BY <3>1, <4>1 DEF Serves
      <4>3. settlement'[task[w].id] = settlement[task[w].id]
        BY <1>1, <4>1, <4>2
      <4>. QED BY <4>1, <4>3 DEF Serves
    <3>2. CASE task[w].op \notin {"approve", "process"}
      BY <3>2 DEF Serves
    <3>. QED BY <3>1, <3>2
  <2>. QED BY <2>1, <2>2, <2>3 DEF InStep
<1>. QED BY <1>2 DEF FInv, Calm

\* A request of SettlementsService begins with a look at the status.
LEMMA ReadInStep ==
    ASSUME FInv, IInv', NEW w \in Workers, NEW s \in Settlements,
           ApproveRead(w, s) \/ ProcessRead(w, s)
    PROVE  FInv'
<1>. USE DEF settlementVars, books
<1>1. PICK t :
        /\ Begin(w, t)
        /\ t.id = s
        /\ \/ t.op = "approve" /\ settlement[s] = "PENDING"
           \/ t.op = "process" /\ t.pc = "mark" /\ settlement[s] = "APPROVED"
  BY DEF ApproveRead, ProcessRead, Approvable
<1>2. UNCHANGED <<settlementVars, books>>
  BY DEF ApproveRead, ProcessRead
<1>3. Turn(w, t)
  BY <1>1 DEF Turn, Begin
<1>4. task'[w] = t
  BY <1>3 DEF Turn, FInv, IInv
<1>5. Serves(w)'
  BY <1>1, <1>2, <1>4 DEF Serves
<1>6. InStep => \A r \in Settlements : StatusTells(r)'
  BY <1>2 DEF InStep, StatusTells
<1>. QED BY <1>3, <1>5, <1>6, TurnPreserves

\* The status of the settlement in hand is written.
LEMMA WriteInStep ==
    ASSUME FInv, IInv', NEW w \in Workers, NEW s \in Settlements, s = task[w].id,
           NEW status \in {"APPROVED", "PROCESSING", "COMPLETED", "FAILED"},
           NEW t, Turn(w, t), SetStatus(s, status), UNCHANGED <<moved, books>>,
           Calm /\ InStep =>
              /\ status \in {"APPROVED", "FAILED"} => moved[s] = 0
              /\ status = "COMPLETED" /\ s \in HasRecipient => PayoutKey(s) \in payments,
           Calm /\ InStep => Serves(w)'
    PROVE  FInv'
<1>1. /\ settlement'[s] = status
      /\ \A r \in Settlements \ {s} : settlement'[r] = settlement[r]
  BY DEF SetStatus, FInv, IInv, TypeOK, SettlementTypeOK
<1>2. Calm /\ InStep => \A r \in Settlements : StatusTells(r)'
  BY <1>1 DEF InStep, StatusTells, books
<1>. QED BY <1>2, TurnPreserves

LEMMA ApproveInStep ==
    ASSUME FInv, IInv', NEW w \in Workers, ApproveWrite(w)
    PROVE  FInv'
<1>1. PICK s \in Settlements : s = task[w].id
  BY OperationTells DEF FInv, IInv, ApproveWrite, At, Approving
<1>2. /\ Turn(w, None) /\ SetStatus(s, "APPROVED") /\ UNCHANGED <<moved, books>>
      /\ task[w].op = "approve"
  BY <1>1 DEF ApproveWrite, Turn, Finish, Continue, At, None
<1>3. InStep => moved[s] = 0
  BY <1>1, <1>2 DEF InStep, StatusTells, Serves
<1>4. Serves(w)'
  BY <1>2 DEF Serves, Turn, FInv, IInv, None
<1>. QED BY <1>1, <1>2, <1>3, <1>4, WriteInStep

LEMMA MarkInStep ==
    ASSUME FInv, IInv', NEW w \in Workers, MarkProcessing(w)
    PROVE  FInv'
<1>1. task[w] \in Processing /\ task[w].pc = "mark"
  BY OperationTells DEF FInv, IInv, MarkProcessing, At, Releasing
<1>2. PICK s \in Settlements : s = task[w].id
  BY <1>1 DEF Processing
<1>. DEFINE t == [task[w] EXCEPT !.pc = "check"]
<1>3. Turn(w, t) /\ SetStatus(s, "PROCESSING") /\ UNCHANGED <<moved, books>>
  BY <1>1, <1>2 DEF MarkProcessing, Turn, Goto, Continue, None, Processing
<1>4. t.op = "process" /\ t.pc = "check" /\ t.id = s
  BY <1>1, <1>2 DEF Processing
<1>. HIDE DEF t
<1>5. task'[w] = t
  BY <1>3 DEF Turn, FInv, IInv
<1>6. settlement'[s] = "PROCESSING"
  BY <1>3 DEF SetStatus, FInv, IInv, TypeOK, SettlementTypeOK
<1>7. InStep => moved[s] = 0
  BY <1>1, <1>2 DEF InStep, StatusTells, Serves, Processing
<1>8. InStep => Serves(w)'
  BY <1>3, <1>4, <1>5, <1>6, <1>7 DEF Serves
<1>. QED BY <1>2, <1>3, <1>8, WriteInStep

LEMMA CheckInStep ==
    ASSUME FInv, IInv', NEW w \in Workers, CheckEscrow(w)
    PROVE  FInv'
<1>. USE DEF settlementVars, books
<1>1. PICK t : /\ Turn(w, t)
               /\ t.op = "process" /\ t.id = task[w].id /\ t.pc \in {"move", "fail"}
  <2>1. PICK pc \in {"move", "fail"} :
          Continue(w, [op |-> "process", id |-> task[w].id, seen |-> escrow, pc |-> pc])
    BY DEF CheckEscrow
  <2>2. task[w] # None
    BY DEF CheckEscrow, At, None
  <2>. DEFINE t == [op |-> "process", id |-> task[w].id, seen |-> escrow, pc |-> pc]
  <2>3. Turn(w, t)
    BY <2>1, <2>2 DEF Continue, Turn
  <2>4. t.op = "process" /\ t.id = task[w].id /\ t.pc \in {"move", "fail"}
    OBVIOUS
  <2>. HIDE DEF t
  <2>. QED BY <2>3, <2>4
<1>2. /\ task[w].op = "process" /\ task[w].pc = "check"
      /\ UNCHANGED <<settlementVars, books>>
  BY DEF CheckEscrow, At
<1>3. task'[w] = t
  BY <1>1 DEF Turn, FInv, IInv
<1>4. InStep => Serves(w)'
  BY <1>1, <1>2, <1>3 DEF InStep, Serves
<1>5. InStep => \A s \in Settlements : StatusTells(s)'
  BY <1>2 DEF InStep, StatusTells
<1>. QED BY <1>1, <1>4, <1>5, TurnPreserves

LEMMA MoveInStep ==
    ASSUME FInv, IInv', NEW w \in Workers, MoveEscrow(w)
    PROVE  FInv'
<1>1. task[w] \in Releasing /\ task[w].pc = "move"
  BY OperationTells DEF FInv, IInv, MoveEscrow, At, Processing
<1>2. PICK s \in Settlements : s = task[w].id
  BY <1>1 DEF Releasing
<1>3. PICK pc \in {"pay", "fail"} :
        /\ Turn(w, [task[w] EXCEPT !.pc = pc])
        /\ pc = "fail" => UNCHANGED moved
        /\ pc = "pay" => moved' = [moved EXCEPT ![s] = @ + 1]
        /\ UNCHANGED <<settlement, payments>>
  BY <1>1, <1>2 DEF MoveEscrow, Turn, Goto, Continue, None, Releasing
<1>. DEFINE t == [task[w] EXCEPT !.pc = pc]
<1>4. t.op = "process" /\ t.pc = pc /\ t.id = s
  BY <1>1, <1>2 DEF Releasing
<1>. HIDE DEF t
<1>5. task'[w] = t
  BY <1>3 DEF Turn, FInv, IInv, t
<1>6. InStep => settlement[s] = "PROCESSING" /\ moved[s] = 0
  BY <1>1, <1>2 DEF InStep, Serves, Releasing
<1>7. moved[s] = 0 => PayoutKey(s) \notin payments
  BY DEF FInv, IInv, PayoutFollowsRelease
<1>8. InStep => Serves(w)'
  BY <1>3, <1>4, <1>5, <1>6, <1>7 DEF Serves
<1>9. \A r \in Settlements \ {s} : moved'[r] = moved[r]
  BY <1>3 DEF FInv, IInv, TypeOK, SettlementTypeOK
<1>10. InStep => \A r \in Settlements : StatusTells(r)'
  BY <1>3, <1>6, <1>9 DEF InStep, StatusTells
<1>. QED BY <1>3, <1>8, <1>10, TurnPreserves

\* Nobody has paid the settlement in hand, so that its payment is recorded.
LEMMA PayInStep ==
    ASSUME FInv, IInv', NEW w \in Workers, PayOut(w)
    PROVE  FInv'
<1>. USE DEF settlementVars
<1>1. task[w] \in Releasing /\ task[w].pc = "pay"
  BY OperationTells DEF FInv, IInv, PayOut, At, Processing
<1>2. PICK s \in Settlements : s = task[w].id
  BY <1>1 DEF Releasing
<1>3. PICK pc \in {"fail", "complete"} :
        /\ Turn(w, [task[w] EXCEPT !.pc = pc])
        /\ pc = "fail" => PayoutKey(s) \in payments
        /\ payments \subseteq payments'
        /\ s \in HasRecipient => PayoutKey(s) \in payments'
        /\ UNCHANGED settlementVars
  <2>1. PICK pc \in {"fail", "complete"} :
          /\ Turn(w, [task[w] EXCEPT !.pc = pc])
          /\ pc = "fail" => PayoutKey(s) \in payments
    <3>1. PICK pc \in {"fail", "complete"} :
            Goto(w, pc) /\ (pc = "fail" => PayoutKey(s) \in payments)
      BY <1>2 DEF PayOut, PaymentThrows
    <3>2. task[w] # None
      BY <1>1 DEF None, Releasing
    <3>. QED BY <3>1, <3>2 DEF Goto, Continue, Turn
  <2>. QED BY <1>2, <2>1 DEF PayOut
<1>. DEFINE t == [task[w] EXCEPT !.pc = pc]
<1>4. t.op = "process" /\ t.pc = pc /\ t.id = s
  BY <1>1, <1>2 DEF Releasing
<1>. HIDE DEF t
<1>5. task'[w] = t
  BY <1>3 DEF Turn, FInv, IInv, t
<1>6. InStep => settlement[s] = "PROCESSING" /\ PayoutKey(s) \notin payments
  BY <1>1, <1>2 DEF InStep, Serves, Releasing
<1>7. InStep => Serves(w)'
  BY <1>3, <1>4, <1>5, <1>6 DEF Serves
<1>8. InStep => \A r \in Settlements : StatusTells(r)'
  BY <1>3 DEF InStep, StatusTells
<1>. QED BY <1>3, <1>7, <1>8, TurnPreserves

LEMMA EndInStep ==
    ASSUME FInv, IInv', NEW w \in Workers, CompleteSettlement(w) \/ FailSettlement(w)
    PROVE  FInv'
<1>1. PICK s \in Settlements : s = task[w].id
  BY OperationTells
  DEF FInv, IInv, CompleteSettlement, FailSettlement, At, Processing, Releasing
<1>2. /\ Turn(w, None) /\ UNCHANGED <<moved, books>>
      /\ task[w].op = "process"
      /\ \/ task[w].pc = "complete" /\ SetStatus(s, "COMPLETED")
         \/ task[w].pc = "fail" /\ SetStatus(s, "FAILED")
  BY <1>1 DEF CompleteSettlement, FailSettlement, Turn, Finish, Continue, At, None
<1>3. Serves(w)'
  BY <1>2 DEF Serves, Turn, FInv, IInv, None
<1>4. InStep =>
        /\ task[w].pc = "fail" => moved[s] = 0
        /\ task[w].pc = "complete" /\ s \in HasRecipient => PayoutKey(s) \in payments
  BY <1>1, <1>2 DEF InStep, Serves
<1>. QED BY <1>1, <1>2, <1>3, <1>4, WriteInStep

\* Deposits and locks move no settlement's money.
LEMMA EscrowAside ==
    ASSUME FInv, IInv', NEW w \in Workers, NEW t, Turn(w, t),
           t.op \notin {"approve", "process"}, UNCHANGED <<settlement, payments>>,
           \A s \in Settlements : moved'[s] = moved[s]
    PROVE  FInv'
<1>1. Serves(w)'
  BY DEF Serves, Turn, FInv, IInv
<1>2. InStep => \A s \in Settlements : StatusTells(s)'
  BY DEF InStep, StatusTells
<1>. QED BY <1>1, <1>2, TurnPreserves

LEMMA EscrowStepAside ==
    ASSUME FInv, IInv', NEW w \in Workers,
           \/ \E r \in Deposits : DepositRead(w, r)
           \/ DepositWrite(w)
           \/ LockRead(w)
           \/ LockWrite(w)
    PROVE  FInv'
<1>1. ASSUME NEW r \in Deposits, DepositRead(w, r) PROVE FInv'
  BY <1>1, EscrowAside DEF DepositRead, Turn, Begin, settlementVars, books
<1>2. CASE LockRead(w)
  BY <1>2, EscrowAside DEF LockRead, Turn, Begin, settlementVars, books
<1>3. None.op \notin {"approve", "process"}
  BY DEF None
<1>4. CASE DepositWrite(w)
  <2>1. Turn(w, None) /\ UNCHANGED <<settlement, payments>>
    BY <1>4 DEF DepositWrite, Turn, Finish, Continue, At, None
  <2>2. task[w].id \in Deposits
    BY <1>4, OperationTells DEF FInv, IInv, DepositWrite, At, Depositing
  <2>3. \A s \in Settlements : s # task[w].id
    BY <2>2, SettlementAssumption
  <2>4. \A s \in Settlements : moved'[s] = moved[s]
    BY <1>4, <2>2, <2>3 DEF DepositWrite, FInv, IInv, TypeOK, SettlementTypeOK
  <2>. QED BY <1>3, <2>1, <2>4, EscrowAside
<1>5. CASE LockWrite(w)
  <2>1. Turn(w, None) /\ UNCHANGED <<settlement, payments, moved>>
    BY <1>5 DEF LockWrite, Turn, Finish, Continue, At, None, books
  <2>. QED BY <1>3, <2>1, EscrowAside
<1>. QED BY <1>1, <1>2, <1>4, <1>5

LEMMA StatusStep ==
    ASSUME FInv, IInv', [Next]_vars
    PROVE  FInv'
<1>1. CASE SettlementStep
  <2>1. ASSUME NEW w \in Workers, ThrowIntoCatch(w) PROVE FInv'
    BY <2>1, FaultPreserves DEF ThrowIntoCatch
  <2>. QED BY <1>1, <2>1, CreateInStep, ReadInStep, ApproveInStep, MarkInStep, CheckInStep,
         MoveInStep, PayInStep, EndInStep, EscrowStepAside
       DEF SettlementStep
<1>2. ASSUME WithdrawalStep, UNCHANGED settlementVars PROVE FInv'
  BY <1>2, WithdrawalStepAside
<1>3. ASSUME ProfitStep, UNCHANGED settlementVars PROVE FInv'
  BY <1>3, ProfitStepAside
<1>4. ASSUME NEW w \in Workers, Die(w) PROVE FInv'
  BY <1>4, FaultPreserves DEF Die, Abort
<1>5. CASE UNCHANGED vars
  BY <1>5, BesidePreserves DEF vars, books
<1>. QED BY <1>1, <1>2, <1>3, <1>4, <1>5 DEF Next

\* processSettlement: while requests are served one by one and nothing throws, a
\* FAILED settlement has drawn nothing on the escrow account, so that one made
\* in its place pays once, and a COMPLETED one has a payment for its recipient.
THEOREM StatusIsTrue == Spec => []FailedDrewNothing
<1>1. Init => FInv
  <2>. SUFFICES ASSUME Init PROVE FInv
    OBVIOUS
  <2>. USE DEF Init, RequestInit, SettlementInit
  <2>1. IInv
    BY InitIsInductive
  <2>2. Solo /\ \A w \in Workers : Serves(w)
    BY DEF Solo, Serves, None
  <2>3. \A s \in Settlements : StatusTells(s)
    BY DEF StatusTells
  <2>. QED BY <2>1, <2>2, <2>3 DEF FInv, InStep
<1>2. FInv /\ [Next]_vars => FInv'
  BY NextPreserves, StatusStep DEF FInv
<1>3. FInv => FailedDrewNothing
  BY DEF FInv, InStep, StatusTells, Calm, FailedDrewNothing
<1>. QED BY <1>1, <1>2, <1>3, PTL DEF Spec

----------------------------------------------------------------------------
(***************************************************************************)
(* One service as the others see it.                                       *)
(***************************************************************************)
SettlementOps == {"approve", "process", "deposit", "lock"}
WithdrawalOps == {"review", "withdraw"}
ProfitOps == {"calculate", "distribute", "close"}

\* The worker w takes a step of a service whose operations are ops, and goes
\* on with t.
ServiceStep(w, t, ops) ==
    /\ task' = [task EXCEPT ![w] = t]
    /\ task[w] = None \/ task[w].op \in ops
    /\ t = None \/ t.op \in ops
    /\ \/ task[w] # None /\ UNCHANGED overlapped
       \/ Begin(w, t)

\* A step of the service, by one worker or by none.
ServedBy(ops) ==
    \/ UNCHANGED <<task, overlapped>>
    \/ \E w \in Workers : \E t : ServiceStep(w, t, ops)

LEMMA ReadServes ==
    ASSUME NEW w \in Workers, NEW t, Begin(w, t), NEW ops, t.op \in ops
    PROVE  ServedBy(ops)
  BY DEF ServedBy, ServiceStep, Begin

LEMMA EndServes ==
    ASSUME IInv, NEW w \in Workers, Finish(w), NEW ops, task[w].op \in ops, "none" \notin ops
    PROVE  ServedBy(ops)
<1>1. task[w] # None
  BY DEF None
<1>2. ServiceStep(w, None, ops)
  BY <1>1 DEF ServiceStep, Finish, Continue
<1>. QED BY <1>2 DEF ServedBy

LEMMA StepServes ==
    ASSUME IInv, NEW w \in Workers, NEW pc, task' = [task EXCEPT ![w].pc = pc],
           UNCHANGED overlapped, NEW ops, task[w].op \in ops, "none" \notin ops
    PROVE  ServedBy(ops)
<1>1. task[w] # None
  BY DEF None
<1>. DEFINE t == [task[w] EXCEPT !.pc = pc]
<1>2. t.op \in ops
  BY StepKeepsOperation DEF IInv
<1>3. task' = [task EXCEPT ![w] = t]
  BY DEF IInv
<1>. HIDE DEF t
<1>4. ServiceStep(w, t, ops)
  BY <1>1, <1>2, <1>3 DEF ServiceStep
<1>. QED BY <1>4 DEF ServedBy

LEMMA GoesOnServes ==
    ASSUME IInv, NEW w \in Workers, NEW t, Continue(w, t), NEW ops, task[w].op \in ops,
           t.op \in ops, "none" \notin ops
    PROVE  ServedBy(ops)
<1>1. task[w] # None
  BY DEF None
<1>2. ServiceStep(w, t, ops)
  BY <1>1 DEF ServiceStep, Continue
<1>. QED BY <1>2 DEF ServedBy

LEMMA GotoServes ==
    ASSUME IInv, NEW w \in Workers, NEW pc, Goto(w, pc), NEW ops, task[w].op \in ops,
           "none" \notin ops
    PROVE  ServedBy(ops)
<1>1. [task[w] EXCEPT !.pc = pc].op \in ops
  BY StepKeepsOperation DEF IInv
<1>2. Continue(w, [task[w] EXCEPT !.pc = pc])
  BY DEF Goto
<1>. QED BY <1>1, <1>2, GoesOnServes

LEMMA SettlementServes ==
    ASSUME IInv, SettlementStep
    PROVE  ServedBy(SettlementOps)
<1>. DEFINE ops == SettlementOps
<1>0. /\ "none" \notin ops
      /\ \A op \in {"approve", "process", "deposit", "lock"} : op \in ops
  BY DEF SettlementOps
<1>. HIDE DEF ops
<1>1. ASSUME NEW s \in Settlements, CreateSettlement(s) PROVE ServedBy(ops)
  BY <1>1 DEF CreateSettlement, requestVars, ServedBy
<1>2. ASSUME NEW w \in Workers, NEW s \in Settlements,
             ApproveRead(w, s) \/ ProcessRead(w, s)
      PROVE  ServedBy(ops)
  BY <1>0, <1>2, ReadServes DEF ApproveRead, ProcessRead
<1>3. ASSUME NEW w \in Workers, (\E r \in Deposits : DepositRead(w, r)) \/ LockRead(w)
      PROVE  ServedBy(ops)
  <2>1. ASSUME NEW r \in Deposits, DepositRead(w, r) PROVE ServedBy(ops)
    BY <1>0, <2>1, ReadServes DEF DepositRead
  <2>2. CASE LockRead(w)
    BY <1>0, <2>2, ReadServes DEF LockRead
  <2>. QED BY <1>3, <2>1, <2>2
<1>4. ASSUME NEW w \in Workers,
             \/ ApproveWrite(w) \/ CompleteSettlement(w) \/ FailSettlement(w)
             \/ DepositWrite(w) \/ LockWrite(w)
      PROVE  ServedBy(ops)
  BY <1>0, <1>4, EndServes
  DEF ApproveWrite, CompleteSettlement, FailSettlement, DepositWrite, LockWrite, At
<1>5. ASSUME NEW w \in Workers, MarkProcessing(w) \/ MoveEscrow(w) \/ PayOut(w)
      PROVE  ServedBy(ops)
  BY <1>0, <1>5, GotoServes DEF MarkProcessing, MoveEscrow, PayOut, At
<1>6. ASSUME NEW w \in Workers, CheckEscrow(w) PROVE ServedBy(ops)
  <2>1. PICK pc : Continue(w, [op |-> "process", id |-> task[w].id, seen |-> escrow, pc |-> pc])
    BY <1>6 DEF CheckEscrow
  <2>2. task[w].op = "process"
    BY <1>6 DEF CheckEscrow, At
  <2>. QED BY <1>0, <2>1, <2>2, GoesOnServes
<1>7. ASSUME NEW w \in Workers, ThrowIntoCatch(w) PROVE ServedBy(ops)
  BY <1>0, <1>7, StepServes DEF ThrowIntoCatch, At
<1>. QED BY <1>1, <1>2, <1>3, <1>4, <1>5, <1>6, <1>7 DEF SettlementStep, ops

LEMMA WithdrawalServes ==
    ASSUME IInv, WithdrawalStep
    PROVE  ServedBy(WithdrawalOps)
<1>. DEFINE ops == WithdrawalOps
<1>0. "none" \notin ops /\ "review" \in ops /\ "withdraw" \in ops
  BY DEF WithdrawalOps
<1>. HIDE DEF ops
<1>1. ASSUME NEW x \in Withdrawals, RequestWithdrawal(x) PROVE ServedBy(ops)
  BY <1>1 DEF RequestWithdrawal, requestVars, ServedBy
<1>2. ASSUME NEW w \in Workers, NEW x \in Withdrawals, NEW d,
             ReviewRead(w, x, d) \/ WithdrawRead(w, x)
      PROVE  ServedBy(ops)
  BY <1>0, <1>2, ReadServes DEF ReviewRead, WithdrawRead
<1>3. ASSUME NEW w \in Workers, ReviewWrite(w) \/ PayWithdrawal(w) PROVE ServedBy(ops)
  BY <1>0, <1>3, EndServes DEF ReviewWrite, PayWithdrawal, At
<1>4. ASSUME NEW w \in Workers, CheckWallet(w) PROVE ServedBy(ops)
  BY <1>0, <1>4, EndServes, GotoServes DEF CheckWallet, At
<1>. QED BY <1>1, <1>2, <1>3, <1>4 DEF WithdrawalStep, ops

LEMMA ProfitServes ==
    ASSUME IInv, ProfitStep
    PROVE  ServedBy(ProfitOps)
<1>. DEFINE ops == ProfitOps
<1>0. "none" \notin ops /\ "calculate" \in ops /\ "distribute" \in ops /\ "close" \in ops
  BY DEF ProfitOps
<1>. HIDE DEF ops
<1>1. ASSUME NEW c \in Calculations, ApproveCalculation(c) PROVE ServedBy(ops)
  BY <1>1 DEF ApproveCalculation, requestVars, ServedBy
<1>2. ASSUME NEW w \in Workers,
             \/ \E c \in Calculations, s \in Statements : CalculateRead(w, c, s)
             \/ \E c \in Calculations : DistributeRead(w, c)
             \/ CloseRead(w)
      PROVE  ServedBy(ops)
  <2>1. ASSUME NEW c \in Calculations, NEW s \in Statements, CalculateRead(w, c, s)
        PROVE  ServedBy(ops)
    BY <1>0, <2>1, ReadServes DEF CalculateRead
  <2>2. ASSUME NEW c \in Calculations, DistributeRead(w, c) PROVE ServedBy(ops)
    BY <1>0, <2>2, ReadServes DEF DistributeRead
  <2>3. CASE CloseRead(w)
    BY <1>0, <2>3, ReadServes DEF CloseRead
  <2>. QED BY <1>2, <2>1, <2>2, <2>3
<1>3. ASSUME NEW w \in Workers, CalculateWrite(w) \/ SettleDeal(w) \/ CloseWrite(w)
      PROVE  ServedBy(ops)
  BY <1>0, <1>3, EndServes DEF CalculateWrite, SettleDeal, CloseWrite, At
<1>4. ASSUME NEW w \in Workers, NEW d \in Distributions, PayDistribution(w, d)
      PROVE  ServedBy(ops)
  <2>1. task[w].op = "distribute"
    BY <1>4 DEF PayDistribution, At
  <2>2. Finish(w) \/ \E t : t.op = "distribute" /\ Continue(w, t)
    BY <1>4 DEF PayDistribution, Duplicate
  <2>. QED BY <1>0, <2>1, <2>2, EndServes, GoesOnServes
<1>5. ASSUME NEW w \in Workers, PostDistribution(w) PROVE ServedBy(ops)
  BY <1>0, <1>5, EndServes, GotoServes DEF PostDistribution, At
<1>6. ASSUME NEW w \in Workers, MarkDistribution(w) PROVE ServedBy(ops)
  <2>1. task[w].op = "distribute" /\ \E t : t.op = "distribute" /\ Continue(w, t)
    BY <1>6 DEF MarkDistribution, At
  <2>. QED BY <1>0, <2>1, GoesOnServes
<1>. QED BY <1>1, <1>2, <1>3, <1>4, <1>5, <1>6 DEF ProfitStep, ops


----------------------------------------------------------------------------
(***************************************************************************)
(* Withdrawals and the wallet they draw on.                                *)
(***************************************************************************)
OneByOne == overlapped \in BOOLEAN /\ (overlapped \/ Solo)

LEMMA OthersWait ==
    ASSUME IInv, OneByOne, NEW w \in Workers, NEW t, NEW ops, ServiceStep(w, t, ops)
    PROVE  /\ task'[w] = t
           /\ \A v \in Workers \ {w} : task'[v] = task[v]
           /\ overlapped => overlapped'
           /\ OneByOne'
           /\ ~ overlapped' => \A v \in Workers \ {w} : task[v] = None
<1>1. task'[w] = t /\ \A v \in Workers \ {w} : task'[v] = task[v]
  BY DEF IInv, ServiceStep
<1>2. (overlapped => overlapped') /\ overlapped' \in BOOLEAN
  <2>1. CASE UNCHANGED overlapped
    BY <2>1 DEF OneByOne
  <2>2. CASE Begin(w, t)
    BY <2>2 DEF OneByOne, Begin
  <2>. QED BY <2>1, <2>2 DEF ServiceStep
<1>3. ~ overlapped' => \A v \in Workers \ {w} : task[v] = None
  BY <1>2 DEF OneByOne, Solo, ServiceStep, Begin
<1>. QED BY <1>1, <1>2, <1>3 DEF OneByOne, Solo

\* What each withdrawal has taken, and what each worker is about to take.
Withdrawn ==
    [x \in Withdrawals |->
        IF WithdrawalPayment(x) \in payments THEN WithdrawalOf[x] ELSE 0]
Claimed ==
    [w \in Workers |->
        IF At(w, "withdraw", "pay") THEN WithdrawalOf[task[w].id] ELSE 0]

Recorded(x) ==
    /\ WithdrawalPayment(x) \in payments <=> WithdrawalKey(x) \in posted
    /\ withdrawal[x] = "COMPLETED" => WithdrawalPayment(x) \in payments

\* What a request read still holds.
Holds(w) ==
    /\ task[w].op = "review" => withdrawal[task[w].id] = "PENDING"
    /\ At(w, "withdraw", "pay") => WithdrawalOf[task[w].id] <= wallet

Bound(x) == - (Cardinality(Workers) - 1) * WithdrawalOf[x]

\* What is left when everybody has paid who found enough.
Overdraft ==
    LET left == wallet - SumFunction(Claimed)
    IN  left >= 0 \/ \E x \in Withdrawals : left >= Bound(x)

WInv ==
    /\ IInv
    /\ OneByOne
    /\ \A x \in Withdrawals : Recorded(x)
    /\ wallet = WalletOpening - SumFunction(Withdrawn)
    /\ Overdraft
    /\ overlapped \/
         /\ wallet >= 0
         /\ \A x \in Withdrawals :
               WithdrawalPayment(x) \in payments => withdrawal[x] = "COMPLETED"
         /\ \A w \in Workers : Holds(w)


LEMMA SumsAreNumbers ==
    ASSUME IInv
    PROVE  /\ Withdrawn \in [Withdrawals -> Nat]
           /\ Claimed \in [Workers -> Nat]
           /\ SumFunction(Withdrawn) \in Int
           /\ SumFunction(Claimed) \in Nat
           /\ \A x \in Withdrawals : WithdrawalOf[x] \in Nat
           /\ wallet \in Int /\ WalletOpening \in Nat
           /\ IsFiniteSet(Workers) /\ IsFiniteSet(Withdrawals)
<1>1. /\ IsFiniteSet(Workers) /\ IsFiniteSet(Withdrawals) /\ WalletOpening \in Nat
      /\ \A x \in Withdrawals : WithdrawalOf[x] \in Nat
      /\ wallet \in Int
  BY RequestAssumption, WithdrawalAssumption DEF IInv, TypeOK, WithdrawalTypeOK
<1>2. Withdrawn \in [Withdrawals -> Nat]
  BY <1>1 DEF Withdrawn
<1>3. Claimed \in [Workers -> Nat]
  <2>1. ASSUME NEW w \in Workers, At(w, "withdraw", "pay")
        PROVE  WithdrawalOf[task[w].id] \in Nat
    BY <1>1, <2>1, OperationTells DEF IInv, At, Withdrawing
  <2>. QED BY <2>1 DEF Claimed
<1>4. Withdrawn \in [Withdrawals -> Int] /\ Claimed \in [Workers -> Int]
  BY <1>2, <1>3
<1>5. SumFunction(Withdrawn) \in Int
  BY <1>1, <1>4, SumOfFunction
<1>6. SumFunction(Claimed) \in Nat
  <2>1. SumFunction(Claimed) = SumFunctionOnSet(Claimed, Workers)
    BY <1>1, <1>4, SumOfFunction
  <2>2. \A w \in Workers : Claimed[w] \in Nat
    BY <1>3
  <2>. QED BY <1>1, <2>1, <2>2, SumOfNaturals
<1>. QED BY <1>1, <1>2, <1>3, <1>5, <1>6

\* The same after a step.
LEMMA SumsAreNumbersNext ==
    ASSUME IInv'
    PROVE  /\ Withdrawn' \in [Withdrawals -> Nat]
           /\ Claimed' \in [Workers -> Nat]
           /\ SumFunction(Withdrawn') \in Int
           /\ SumFunction(Claimed') \in Nat
           /\ wallet' \in Int
<1>1. /\ IsFiniteSet(Workers) /\ IsFiniteSet(Withdrawals)
      /\ \A x \in Withdrawals : WithdrawalOf[x] \in Nat
      /\ wallet' \in Int
  BY RequestAssumption, WithdrawalAssumption DEF IInv, TypeOK, WithdrawalTypeOK
<1>2. Withdrawn' \in [Withdrawals -> Nat]
  BY <1>1 DEF Withdrawn
<1>3. Claimed' \in [Workers -> Nat]
  <2>1. ASSUME NEW w \in Workers, At(w, "withdraw", "pay")'
        PROVE  WithdrawalOf[task'[w].id] \in Nat
    BY <1>1, <2>1, OperationTells DEF IInv, At, Withdrawing
  <2>. QED BY <2>1 DEF Claimed
<1>4. Withdrawn' \in [Withdrawals -> Int] /\ Claimed' \in [Workers -> Int]
  BY <1>2, <1>3
<1>5. SumFunction(Withdrawn') \in Int
  BY <1>1, <1>4, SumOfFunction
<1>6. SumFunction(Claimed') \in Nat
  <2>1. SumFunction(Claimed') = SumFunctionOnSet(Claimed', Workers)
    BY <1>1, <1>4, SumOfFunction
  <2>2. \A w \in Workers : Claimed'[w] \in Nat
    BY <1>3
  <2>. QED BY <1>1, <2>1, <2>2, SumOfNaturals
<1>. QED BY <1>1, <1>2, <1>3, <1>5, <1>6

LEMMA BoundIsNumber ==
    ASSUME NEW x \in Withdrawals
    PROVE  Bound(x) \in Int
<1>1. Cardinality(Workers) \in Nat /\ WithdrawalOf[x] \in Nat
  BY RequestAssumption, FS_CardinalityType, WithdrawalAssumption
<1>. QED BY <1>1 DEF Bound

\* The wallet is safe when no more is left to pay than before.
LEMMA OverdraftKept ==
    ASSUME IInv, IInv', Overdraft,
           wallet' - SumFunction(Claimed') >= wallet - SumFunction(Claimed)
    PROVE  Overdraft'
<1>. DEFINE left == wallet - SumFunction(Claimed)
            next == wallet' - SumFunction(Claimed')
<1>1. left \in Int /\ next \in Int /\ next >= left
  BY SumsAreNumbers, SumsAreNumbersNext
<1>2. left >= 0 \/ \E x \in Withdrawals : left >= Bound(x)
  BY DEF Overdraft
<1>3. next >= 0 \/ \E x \in Withdrawals : next >= Bound(x)
  <2>. HIDE DEF left, next
  <2>. QED BY <1>1, <1>2, BoundIsNumber
<1>4. \A x \in Withdrawals : Bound(x)' = Bound(x)
  BY DEF Bound
<1>. QED BY <1>3, <1>4 DEF Overdraft

LEMMA ClaimsShrink ==
    ASSUME IInv, IInv', \A v \in Workers : Claimed'[v] <= Claimed[v]
    PROVE  SumFunction(Claimed') <= SumFunction(Claimed)
<1>1. /\ Claimed \in [Workers -> Int] /\ Claimed' \in [Workers -> Int]
      /\ IsFiniteSet(Workers)
  BY SumsAreNumbers, SumsAreNumbersNext
<1>2. \A v \in Workers : Claimed'[v] \in Int /\ Claimed[v] \in Int
  BY <1>1
<1>3. SumFunctionOnSet(Claimed', Workers) <= SumFunctionOnSet(Claimed, Workers)
  BY <1>1, <1>2, SumMonotone
<1>. QED BY <1>1, <1>3, SumOfFunction

\* Nothing is written of a withdrawal; nobody finds enough in the wallet, and
\* who begins a review begins it on a withdrawal that is PENDING.
LEMMA WalletAside ==
    ASSUME WInv, IInv', OneByOne', overlapped => overlapped', UNCHANGED withdrawalVars,
           \A x \in Withdrawals :
              /\ WithdrawalPayment(x) \in payments' <=> WithdrawalPayment(x) \in payments
              /\ WithdrawalKey(x) \in posted' <=> WithdrawalKey(x) \in posted,
           \A v \in Workers : \/ task'[v] = task[v]
                              \/ /\ ~ At(v, "withdraw", "pay")'
                                 /\ task'[v].op = "review" =>
                                       withdrawal[task'[v].id] = "PENDING"
    PROVE  WInv'
<1>. USE DEF withdrawalVars
<1>1. \A x \in Withdrawals : Recorded(x)'
  BY DEF WInv, Recorded
<1>2. Withdrawn' = Withdrawn
  BY DEF Withdrawn
<1>3. \A v \in Workers : Claimed'[v] <= Claimed[v]
  <2>1. \A v \in Workers : Claimed'[v] = Claimed[v] \/ Claimed'[v] = 0
    BY DEF Claimed, At
  <2>2. \A v \in Workers : Claimed'[v] \in Nat /\ Claimed[v] \in Nat
    BY SumsAreNumbers, SumsAreNumbersNext DEF WInv
  <2>. QED BY <2>1, <2>2
<1>4. Overdraft'
  <2>1. SumFunction(Claimed') <= SumFunction(Claimed)
    BY <1>3, ClaimsShrink DEF WInv
  <2>2. SumFunction(Claimed') \in Int /\ SumFunction(Claimed) \in Int /\ wallet \in Int
    BY SumsAreNumbers, SumsAreNumbersNext DEF WInv
  <2>3. wallet' - SumFunction(Claimed') >= wallet - SumFunction(Claimed)
    BY <2>1, <2>2
  <2>. QED BY <2>3, OverdraftKept DEF WInv
<1>5. ~ overlapped' =>
        /\ wallet' >= 0
        /\ \A x \in Withdrawals :
              WithdrawalPayment(x) \in payments' => withdrawal'[x] = "COMPLETED"
        /\ \A w \in Workers : Holds(w)'
  BY DEF WInv, Holds, At
<1>6. wallet' = WalletOpening - SumFunction(Withdrawn')
  BY <1>2 DEF WInv
<1>. QED BY <1>1, <1>4, <1>5, <1>6 DEF WInv


\* What the other services write are keys of their own.
WithdrawalKeysLeft ==
    \A x : /\ WithdrawalPayment(x) \in payments' <=> WithdrawalPayment(x) \in payments
           /\ WithdrawalKey(x) \in posted' <=> WithdrawalKey(x) \in posted

LEMMA WritesOfOthers ==
    ASSUME NEW r, NEW d,
           posted' \in {posted, posted \cup {EscrowKey(r)}, posted \cup {LedgerKey(d)}},
           payments' \in {payments, payments \cup {PayoutKey(r)},
                          payments \cup {PaymentKey(d)}}
    PROVE  WithdrawalKeysLeft
  BY DEF WithdrawalKeysLeft, EscrowKey, LedgerKey, PayoutKey, PaymentKey, WithdrawalKey,
         WithdrawalPayment

LEMMA SettlementWrites ==
    ASSUME SettlementStep
    PROVE  WithdrawalKeysLeft
<1>1. CASE UNCHANGED books
  BY <1>1, WritesOfOthers DEF books
<1>2. ASSUME NEW w \in Workers, MoveEscrow(w) PROVE WithdrawalKeysLeft
  BY <1>2, WritesOfOthers DEF MoveEscrow, Post
<1>3. ASSUME NEW w \in Workers, DepositWrite(w) PROVE WithdrawalKeysLeft
  BY <1>3, WritesOfOthers DEF DepositWrite, Post
<1>4. ASSUME NEW w \in Workers, PayOut(w) PROVE WithdrawalKeysLeft
  BY <1>4, WritesOfOthers DEF PayOut
<1>. QED BY <1>1, <1>2, <1>3, <1>4
     DEF SettlementStep, CreateSettlement, ApproveRead, ApproveWrite, ProcessRead,
         MarkProcessing, CheckEscrow, CompleteSettlement, FailSettlement,
         ThrowIntoCatch, DepositRead, LockRead, LockWrite

LEMMA ProfitWrites ==
    ASSUME ProfitStep
    PROVE  WithdrawalKeysLeft
<1>1. CASE UNCHANGED books
  BY <1>1, WritesOfOthers DEF books
<1>2. ASSUME NEW w \in Workers, NEW d \in Distributions, PayDistribution(w, d)
      PROVE  WithdrawalKeysLeft
  BY <1>2, WritesOfOthers DEF PayDistribution, Duplicate
<1>3. ASSUME NEW w \in Workers, PostDistribution(w) PROVE WithdrawalKeysLeft
  BY <1>3, WritesOfOthers DEF PostDistribution, Post
<1>. QED BY <1>1, <1>2, <1>3
     DEF ProfitStep, ApproveCalculation, CalculateRead, CalculateWrite, DistributeRead,
         MarkDistribution, SettleDeal, CloseRead, CloseWrite, books

LEMMA OthersLeaveWallet ==
    ASSUME WInv, IInv', SettlementStep \/ ProfitStep, UNCHANGED withdrawalVars
    PROVE  WInv'
<1>1. PICK ops \in {SettlementOps, ProfitOps} : ServedBy(ops)
  BY SettlementServes, ProfitServes DEF WInv
<1>2. "review" \notin ops /\ "withdraw" \notin ops
  BY <1>1 DEF SettlementOps, ProfitOps
<1>3. \A x \in Withdrawals :
        /\ WithdrawalPayment(x) \in payments' <=> WithdrawalPayment(x) \in payments
        /\ WithdrawalKey(x) \in posted' <=> WithdrawalKey(x) \in posted
  BY SettlementWrites, ProfitWrites DEF WithdrawalKeysLeft
<1>4. CASE UNCHANGED <<task, overlapped>>
  <2>1. OneByOne'
    BY <1>4 DEF WInv, OneByOne, Solo
  <2>. QED BY <1>3, <1>4, <2>1, WalletAside
<1>5. ASSUME NEW w \in Workers, NEW t, ServiceStep(w, t, ops) PROVE WInv'
  <2>1. /\ task'[w] = t /\ \A v \in Workers \ {w} : task'[v] = task[v]
        /\ OneByOne' /\ (overlapped => overlapped')
    BY <1>5, OthersWait DEF WInv
  <2>2. t.op \notin {"review", "withdraw"}
    BY <1>2, <1>5 DEF ServiceStep, None
  <2>3. \A v \in Workers : \/ task'[v] = task[v]
                           \/ /\ ~ At(v, "withdraw", "pay")'
                              /\ task'[v].op = "review" =>
                                    withdrawal[task'[v].id] = "PENDING"
    BY <2>1, <2>2 DEF At
  <2>. QED BY <1>3, <2>1, <2>3, WalletAside
<1>. QED BY <1>1, <1>4, <1>5 DEF ServedBy

LEMMA DieLeavesWallet ==
    ASSUME WInv, IInv', NEW w \in Workers, Die(w)
    PROVE  WInv'
<1>1. /\ task'[w] = None /\ \A v \in Workers \ {w} : task'[v] = task[v]
      /\ UNCHANGED <<overlapped, withdrawalVars, books>>
  BY DEF WInv, IInv, Die, Abort
<1>2. OneByOne' /\ (overlapped => overlapped')
  BY <1>1 DEF WInv, OneByOne, Solo
<1>3. \A v \in Workers : \/ task'[v] = task[v]
                         \/ /\ ~ At(v, "withdraw", "pay")'
                            /\ task'[v].op = "review" =>
                                  withdrawal[task'[v].id] = "PENDING"
  BY <1>1 DEF At, None
<1>. QED BY <1>1, <1>2, <1>3, WalletAside DEF books

\* A review or a withdrawal begins, or one ends without having written.
LEMMA WithdrawalReadsLeave ==
    ASSUME WInv, IInv', NEW w \in Workers, NEW t, ServiceStep(w, t, WithdrawalOps),
           UNCHANGED <<withdrawalVars, books>>,
           ~ (t.op = "withdraw" /\ t.pc = "pay"),
           t.op = "review" => withdrawal[t.id] = "PENDING"
    PROVE  WInv'
<1>1. /\ task'[w] = t /\ \A v \in Workers \ {w} : task'[v] = task[v]
      /\ OneByOne'
  BY OthersWait DEF WInv
<1>2. overlapped => overlapped'
  BY OthersWait DEF WInv
<1>3. \A v \in Workers : \/ task'[v] = task[v]
                         \/ /\ ~ At(v, "withdraw", "pay")'
                            /\ task'[v].op = "review" =>
                                  withdrawal[task'[v].id] = "PENDING"
  BY <1>1 DEF At
<1>. QED BY <1>1, <1>2, <1>3, WalletAside DEF books


\* The sum of the claims when only the worker w makes or drops one.
LEMMA ClaimChanges ==
    ASSUME IInv, IInv', NEW w \in Workers,
           \A v \in Workers \ {w} : Claimed'[v] = Claimed[v]
    PROVE  SumFunction(Claimed') = SumFunction(Claimed) + (Claimed'[w] - Claimed[w])
<1>1. /\ Claimed \in [Workers -> Int] /\ Claimed' \in [Workers -> Int]
      /\ IsFiniteSet(Workers)
  BY SumsAreNumbers, SumsAreNumbersNext
<1>2. \A v \in Workers : Claimed[v] \in Int /\ Claimed'[v] \in Int
  BY <1>1
<1>3. \A v \in Workers \ {w} : Claimed[v] = Claimed'[v]
  OBVIOUS
<1>4. SumFunctionOnSet(Claimed', Workers)
        = SumFunctionOnSet(Claimed, Workers) + (Claimed'[w] - Claimed[w])
  BY <1>1, <1>2, <1>3, SumChange
<1>. QED BY <1>1, <1>4, SumOfFunction

LEMMA RequestWithdrawalKeeps ==
    ASSUME WInv, IInv', NEW x \in Withdrawals, RequestWithdrawal(x)
    PROVE  WInv'
<1>. USE DEF RequestWithdrawal, requestVars, books
<1>1. /\ withdrawal[x] = "none" /\ withdrawal'[x] = "PENDING"
      /\ \A y \in Withdrawals \ {x} : withdrawal'[y] = withdrawal[y]
  BY DEF WInv, IInv, TypeOK, WithdrawalTypeOK, SetWithdrawal
<1>2. \A y \in Withdrawals : Recorded(y)'
  BY <1>1 DEF WInv, Recorded
<1>3. Withdrawn' = Withdrawn /\ Claimed' = Claimed
  BY DEF Withdrawn, Claimed, At
<1>4. Overdraft' /\ OneByOne'
  BY <1>3 DEF WInv, Overdraft, Bound, OneByOne, Solo
<1>5. ~ overlapped' =>
        /\ wallet' >= 0
        /\ \A y \in Withdrawals :
              WithdrawalPayment(y) \in payments' => withdrawal'[y] = "COMPLETED"
        /\ \A w \in Workers : Holds(w)'
  <2>. SUFFICES ASSUME ~ overlapped' PROVE wallet' >= 0 /\
         (\A y \in Withdrawals :
              WithdrawalPayment(y) \in payments' => withdrawal'[y] = "COMPLETED") /\
         (\A w \in Workers : Holds(w)')
    OBVIOUS
  <2>1. \A y \in Withdrawals :
              WithdrawalPayment(y) \in payments' => withdrawal'[y] = "COMPLETED"
    BY <1>1 DEF WInv
  <2>2. ASSUME NEW w \in Workers PROVE Holds(w)'
    <3>1. task[w].op = "review" => task[w].id \in Withdrawals
      BY OperationTells DEF WInv, IInv, Reviewing
    <3>2. Holds(w)
      BY DEF WInv
    <3>. QED BY <1>1, <3>1, <3>2 DEF Holds, At
  <2>. QED BY <2>1, <2>2 DEF WInv
<1>. QED BY <1>2, <1>3, <1>4, <1>5 DEF WInv

\* A review that overlaps no other request decides on a withdrawal nobody paid.
LEMMA ReviewWriteKeeps ==
    ASSUME WInv, IInv', NEW w \in Workers, ReviewWrite(w)
    PROVE  WInv'
<1>. USE DEF books
<1>1. task[w] \in Reviewing
  BY OperationTells DEF WInv, IInv, ReviewWrite, At
<1>2. PICK x \in Withdrawals : x = task[w].id
  BY <1>1 DEF Reviewing
<1>3. /\ withdrawal'[x] \in {"APPROVED", "REJECTED"}
      /\ \A y \in Withdrawals \ {x} : withdrawal'[y] = withdrawal[y]
      /\ UNCHANGED <<wallet, posted, payments>>
  BY <1>1, <1>2 DEF ReviewWrite, Reviewing, WInv, IInv, TypeOK, WithdrawalTypeOK, SetWithdrawal
<1>4. ServiceStep(w, None, WithdrawalOps)
  BY <1>1 DEF ReviewWrite, ServiceStep, Finish, Continue, At, WithdrawalOps, None
<1>5. /\ task'[w] = None /\ \A v \in Workers \ {w} : task'[v] = task[v]
      /\ OneByOne'
      /\ (overlapped => overlapped')
      /\ (~ overlapped' => \A v \in Workers \ {w} : task[v] = None)
  BY <1>4, OthersWait DEF WInv
<1>6. \A y \in Withdrawals : Recorded(y)'
  BY <1>3 DEF WInv, Recorded
<1>7. Withdrawn' = Withdrawn
  BY <1>3 DEF Withdrawn
<1>8. Claimed' = Claimed
  <2>1. \A v \in Workers : At(v, "withdraw", "pay")' <=> At(v, "withdraw", "pay")
    BY <1>1, <1>5 DEF At, None, Reviewing
  <2>2. \A v \in Workers : At(v, "withdraw", "pay") => task'[v] = task[v]
    BY <1>1, <1>5 DEF At, Reviewing
  <2>. QED BY <2>1, <2>2 DEF Claimed
<1>9. Overdraft'
  BY <1>3, <1>8 DEF WInv, Overdraft, Bound
<1>10. ~ overlapped' =>
        /\ wallet' >= 0
        /\ \A y \in Withdrawals :
              WithdrawalPayment(y) \in payments' => withdrawal'[y] = "COMPLETED"
        /\ \A v \in Workers : Holds(v)'
  <2>. SUFFICES ASSUME ~ overlapped' PROVE wallet' >= 0 /\
         (\A y \in Withdrawals :
              WithdrawalPayment(y) \in payments' => withdrawal'[y] = "COMPLETED") /\
         (\A v \in Workers : Holds(v)')
    OBVIOUS
  <2>1. withdrawal[x] = "PENDING"
    BY <1>1, <1>2, <1>5 DEF WInv, Holds, Reviewing
  <2>2. \A y \in Withdrawals :
              WithdrawalPayment(y) \in payments' => withdrawal'[y] = "COMPLETED"
    BY <1>3, <1>5, <2>1 DEF WInv
  <2>3. \A v \in Workers : task'[v] = None
    BY <1>5
  <2>4. \A v \in Workers : Holds(v)'
    BY <2>3 DEF Holds, At, None
  <2>. QED BY <1>3, <1>5, <2>2, <2>4 DEF WInv
<1>. QED BY <1>3, <1>5, <1>6, <1>7, <1>9, <1>10 DEF WInv

\* A worker that found enough in the wallet claims its amount: what the others
\* claim is at most the largest amount for each of them.
LEMMA CheckWalletKeeps ==
    ASSUME WInv, IInv', NEW w \in Workers, CheckWallet(w)
    PROVE  WInv'
<1>. USE DEF withdrawalVars, books
<1>1. task[w] \in Withdrawing /\ task[w].pc = "check"
  BY OperationTells DEF WInv, IInv, CheckWallet, At
<1>2. PICK x \in Withdrawals : x = task[w].id
  BY <1>1 DEF Withdrawing
<1>3. CASE Sufficient(x)
  <2>. DEFINE t == [task[w] EXCEPT !.pc = "pay"]
  <2>1. t.op = "withdraw" /\ t.pc = "pay" /\ t.id = x
    BY <1>1, <1>2 DEF Withdrawing
  <2>2. ServiceStep(w, t, WithdrawalOps)
    BY <1>1, <1>2, <1>3
    DEF CheckWallet, ServiceStep, Goto, Continue, WithdrawalOps, None, Withdrawing
  <2>3. UNCHANGED <<wallet, withdrawal, posted, payments>>
    BY DEF CheckWallet
  <2>. HIDE DEF t
  <2>4. /\ task'[w] = t /\ \A v \in Workers \ {w} : task'[v] = task[v]
        /\ OneByOne'
        /\ (overlapped => overlapped')
        /\ (~ overlapped' => \A v \in Workers \ {w} : task[v] = None)
    BY <2>2, OthersWait DEF WInv
  <2>5. WithdrawalOf[x] <= wallet /\ WithdrawalOf[x] \in Nat /\ wallet \in Int
    BY <1>3, SumsAreNumbers DEF Sufficient, WInv
  <2>6. \A y \in Withdrawals : Recorded(y)'
    BY <2>3 DEF WInv, Recorded
  <2>7. Withdrawn' = Withdrawn
    BY <2>3 DEF Withdrawn
  <2>8. Claimed'[w] = WithdrawalOf[x]
    BY <2>1, <2>4 DEF Claimed, At
  <2>9. Overdraft'
    <3>1. PICK m \in Withdrawals : \A y \in Withdrawals : WithdrawalOf[y] <= WithdrawalOf[m]
      <4>1. /\ IsFiniteSet(Withdrawals) /\ Withdrawals # {}
            /\ \A y \in Withdrawals : WithdrawalOf[y] \in Int
        BY SumsAreNumbers DEF WInv
      <4>. QED BY <4>1, LargestValue
    <3>. DEFINE others == Workers \ {w}
                rest == SumFunctionOnSet(Claimed', others)
    <3>2. /\ IsFiniteSet(others) /\ Cardinality(others) = Cardinality(Workers) - 1
          /\ IsFiniteSet(Workers)
      BY RequestAssumption, FS_RemoveElement
    <3>3. WithdrawalOf[m] \in Int /\ \A v \in Workers : Claimed'[v] \in Int
      BY SumsAreNumbers, SumsAreNumbersNext DEF WInv
    <3>4. \A v \in Workers : Claimed'[v] <= WithdrawalOf[m]
      <4>1. ASSUME NEW v \in Workers, At(v, "withdraw", "pay")'
            PROVE  task'[v].id \in Withdrawals
        BY <4>1, OperationTells DEF IInv, At, Withdrawing
      <4>2. 0 <= WithdrawalOf[m]
        BY SumsAreNumbers DEF WInv
      <4>. QED BY <3>1, <4>1, <4>2 DEF Claimed
    <3>5. rest <= Cardinality(others) * WithdrawalOf[m] /\ rest \in Int
      BY <3>2, <3>3, <3>4, SumBounded, SumType
    <3>6. SumFunctionOnSet(Claimed', Workers) = Claimed'[w] + rest
      BY <3>2, <3>3, SumWithout
    <3>7. SumFunction(Claimed') = SumFunctionOnSet(Claimed', Workers)
      <4>1. Claimed' \in [Workers -> Int]
        BY SumsAreNumbersNext
      <4>. QED BY <3>2, <4>1, SumOfFunction
    <3>. DEFINE most == (Cardinality(Workers) - 1) * WithdrawalOf[m]
    <3>8. most \in Int /\ rest <= most /\ Bound(m) = - most
      <4>1. Cardinality(Workers) - 1 \in Int
        BY <3>2, FS_CardinalityType
      <4>. QED BY <3>2, <3>3, <3>5, <4>1 DEF Bound
    <3>. HIDE DEF most, rest
    <3>9. wallet' - SumFunction(Claimed') >= Bound(m)
      BY <2>3, <2>5, <2>8, <3>5, <3>6, <3>7, <3>8 DEF rest
    <3>10. Bound(m)' = Bound(m)
      BY DEF Bound
    <3>. QED BY <3>9, <3>10 DEF Overdraft
  <2>10. ~ overlapped' =>
          /\ wallet' >= 0
          /\ \A y \in Withdrawals :
                WithdrawalPayment(y) \in payments' => withdrawal'[y] = "COMPLETED"
          /\ \A v \in Workers : Holds(v)'
    <3>1. Holds(w)'
      BY <2>1, <2>3, <2>4, <2>5 DEF Holds, At
    <3>2. ASSUME ~ overlapped', NEW v \in Workers \ {w} PROVE Holds(v)'
      BY <2>4, <3>2 DEF Holds, At, None
    <3>. QED BY <2>3, <2>4, <3>1, <3>2 DEF WInv
  <2>. QED BY <2>3, <2>4, <2>6, <2>7, <2>9, <2>10 DEF WInv
<1>4. CASE ~ Sufficient(x)
  <2>1. ServiceStep(w, None, WithdrawalOps)
    BY <1>1, <1>2, <1>4
    DEF CheckWallet, ServiceStep, Finish, Continue, WithdrawalOps, None, Withdrawing
  <2>2. None.op # "withdraw" /\ None.op # "review"
    BY DEF None
  <2>. QED BY <2>1, <2>2, WithdrawalReadsLeave DEF CheckWallet
<1>. QED BY <1>3, <1>4


\* What is paid leaves the wallet and the claims at once.
LEMMA PayWithdrawalKeeps ==
    ASSUME WInv, IInv', NEW w \in Workers, PayWithdrawal(w)
    PROVE  WInv'
<1>1. task[w] \in Withdrawing /\ task[w].pc = "pay"
  BY OperationTells DEF WInv, IInv, PayWithdrawal, At
<1>2. PICK x \in Withdrawals : x = task[w].id
  BY <1>1 DEF Withdrawing
<1>3. ServiceStep(w, None, WithdrawalOps)
  BY <1>1 DEF PayWithdrawal, ServiceStep, Finish, Continue, At, WithdrawalOps, None
<1>4. CASE ~ Payable(x)
  <2>1. UNCHANGED <<withdrawalVars, books>>
    BY <1>2, <1>4 DEF PayWithdrawal
  <2>2. None.op # "withdraw" /\ None.op # "review"
    BY DEF None
  <2>. QED BY <1>3, <2>1, <2>2, WithdrawalReadsLeave
<1>5. CASE Payable(x)
  <2>1. WithdrawalPayment(x) \notin payments /\ WithdrawalKey(x) \notin posted
    BY <1>5 DEF Payable, WInv, Recorded
  <2>2. /\ posted' = posted \cup {WithdrawalKey(x)}
        /\ payments' = payments \cup {WithdrawalPayment(x)}
        /\ wallet' = wallet - WithdrawalOf[x]
        /\ withdrawal'[x] = "COMPLETED"
        /\ \A y \in Withdrawals \ {x} : withdrawal'[y] = withdrawal[y]
    BY <1>2, <1>5, <2>1
    DEF PayWithdrawal, Post, SetWithdrawal, WInv, IInv, TypeOK, WithdrawalTypeOK
  <2>3. /\ task'[w] = None /\ \A v \in Workers \ {w} : task'[v] = task[v]
        /\ OneByOne'
        /\ (overlapped => overlapped')
        /\ (~ overlapped' => \A v \in Workers \ {w} : task[v] = None)
    BY <1>3, OthersWait DEF WInv
  <2>4. /\ WithdrawalOf[x] \in Nat /\ wallet \in Int /\ wallet' \in Int
        /\ WalletOpening \in Nat
        /\ IsFiniteSet(Withdrawals)
        /\ SumFunction(Claimed) \in Int /\ SumFunction(Claimed') \in Int
        /\ SumFunction(Withdrawn) \in Int /\ SumFunction(Withdrawn') \in Int
        /\ Withdrawn \in [Withdrawals -> Int] /\ Withdrawn' \in [Withdrawals -> Int]
    BY SumsAreNumbers, SumsAreNumbersNext DEF WInv
  <2>5. \A y : /\ WithdrawalPayment(y) \in payments'
                     <=> y = x \/ WithdrawalPayment(y) \in payments
               /\ WithdrawalKey(y) \in posted' <=> y = x \/ WithdrawalKey(y) \in posted
    BY <2>2 DEF WithdrawalPayment, WithdrawalKey
  <2>6. \A y \in Withdrawals : Recorded(y)'
    BY <2>2, <2>5 DEF WInv, Recorded
  <2>7. SumFunction(Withdrawn') = SumFunction(Withdrawn) + WithdrawalOf[x]
    <3>1. /\ Withdrawn[x] = 0 /\ Withdrawn'[x] = WithdrawalOf[x]
          /\ \A y \in Withdrawals \ {x} : Withdrawn'[y] = Withdrawn[y]
      BY <2>1, <2>5 DEF Withdrawn
    <3>2. Withdrawn'[x] = Withdrawn[x] + WithdrawalOf[x]
      BY <2>4, <3>1
    <3>. QED BY <2>4, <3>1, <3>2, SumExcept
  <2>8. wallet' = WalletOpening - SumFunction(Withdrawn')
    BY <2>2, <2>4, <2>7 DEF WInv
  <2>9. SumFunction(Claimed') = SumFunction(Claimed) - WithdrawalOf[x]
    <3>1. Claimed[w] = WithdrawalOf[x] /\ Claimed'[w] = 0
      BY <1>1, <1>2, <2>3 DEF Claimed, At, Withdrawing, None
    <3>2. \A v \in Workers \ {w} : Claimed'[v] = Claimed[v]
      BY <2>3 DEF Claimed, At
    <3>3. SumFunction(Claimed') = SumFunction(Claimed) + (Claimed'[w] - Claimed[w])
      BY <3>2, ClaimChanges DEF WInv
    <3>. QED BY <2>4, <3>1, <3>3
  <2>10. Overdraft'
    BY <2>2, <2>4, <2>9, OverdraftKept DEF WInv
  <2>11. ~ overlapped' =>
          /\ wallet' >= 0
          /\ \A y \in Withdrawals :
                WithdrawalPayment(y) \in payments' => withdrawal'[y] = "COMPLETED"
          /\ \A v \in Workers : Holds(v)'
    <3>. SUFFICES ASSUME ~ overlapped' PROVE wallet' >= 0 /\
           (\A y \in Withdrawals :
                WithdrawalPayment(y) \in payments' => withdrawal'[y] = "COMPLETED") /\
           (\A v \in Workers : Holds(v)')
      OBVIOUS
    <3>1. WithdrawalOf[x] <= wallet
      BY <1>1, <1>2, <2>3 DEF WInv, Holds, At, Withdrawing
    <3>2. wallet' >= 0
      BY <2>2, <2>4, <3>1
    <3>3. \A y \in Withdrawals :
                WithdrawalPayment(y) \in payments' => withdrawal'[y] = "COMPLETED"
      BY <2>2, <2>3, <2>5 DEF WInv
    <3>4. \A v \in Workers : task'[v] = None
      BY <2>3
    <3>5. \A v \in Workers : Holds(v)'
      BY <3>4 DEF Holds, At, None
    <3>. QED BY <3>2, <3>3, <3>5
  <2>. QED BY <2>3, <2>6, <2>8, <2>10, <2>11 DEF WInv
<1>. QED BY <1>4, <1>5

LEMMA WithdrawalReadsKeep ==
    ASSUME WInv, IInv', NEW w \in Workers, NEW x \in Withdrawals,
           (\E decision : ReviewRead(w, x, decision)) \/ WithdrawRead(w, x)
    PROVE  WInv'
<1>1. ASSUME NEW t, Begin(w, t), t.op \in WithdrawalOps PROVE ServiceStep(w, t, WithdrawalOps)
  BY <1>1 DEF ServiceStep, Begin
<1>2. ASSUME NEW decision, ReviewRead(w, x, decision) PROVE WInv'
  <2>. DEFINE t == [op |-> "review", pc |-> "write", id |-> x, as |-> decision]
  <2>1. t.op = "review" /\ t.id = x /\ Begin(w, t) /\ withdrawal[x] = "PENDING"
    BY <1>2 DEF ReviewRead, Reviewable
  <2>. HIDE DEF t
  <2>2. ServiceStep(w, t, WithdrawalOps)
    BY <1>1, <2>1 DEF WithdrawalOps
  <2>. QED BY <1>2, <2>1, <2>2, WithdrawalReadsLeave DEF ReviewRead
<1>3. CASE WithdrawRead(w, x)
  <2>. DEFINE t == [op |-> "withdraw", pc |-> "check", id |-> x]
  <2>1. t.op = "withdraw" /\ t.pc = "check" /\ Begin(w, t)
    BY <1>3 DEF WithdrawRead
  <2>. HIDE DEF t
  <2>2. ServiceStep(w, t, WithdrawalOps)
    BY <1>1, <2>1 DEF WithdrawalOps
  <2>. QED BY <1>3, <2>1, <2>2, WithdrawalReadsLeave DEF WithdrawRead
<1>. QED BY <1>2, <1>3

LEMMA WalletStep ==
    ASSUME WInv, IInv', [Next]_vars
    PROVE  WInv'
<1>1. ASSUME SettlementStep \/ ProfitStep, UNCHANGED withdrawalVars PROVE WInv'
  BY <1>1, OthersLeaveWallet
<1>2. CASE WithdrawalStep
  BY <1>2, RequestWithdrawalKeeps, WithdrawalReadsKeep, ReviewWriteKeeps, CheckWalletKeeps,
     PayWithdrawalKeeps
  DEF WithdrawalStep
<1>3. ASSUME NEW w \in Workers, Die(w) PROVE WInv'
  BY <1>3, DieLeavesWallet
<1>4. CASE UNCHANGED vars
  <2>. USE <1>4 DEF vars, requestVars, books, withdrawalVars
  <2>1. OneByOne'
    BY DEF WInv, OneByOne, Solo
  <2>. QED BY <2>1, WalletAside
<1>. QED BY <1>1, <1>2, <1>3, <1>4 DEF Next

LEMMA WalletStart == Init => WInv
<1>. SUFFICES ASSUME Init PROVE WInv
  OBVIOUS
<1>. USE DEF Init, RequestInit, WithdrawalInit
<1>1. IInv
  BY InitIsInductive
<1>2. OneByOne /\ \A w \in Workers : Holds(w)
  BY DEF OneByOne, Solo, Holds, At, None
<1>3. \A x \in Withdrawals : Recorded(x)
  BY DEF Recorded
<1>4. /\ SumFunction(Withdrawn) = SumFunctionOnSet(Withdrawn, Withdrawals)
      /\ SumFunction(Claimed) = SumFunctionOnSet(Claimed, Workers)
      /\ IsFiniteSet(Withdrawals) /\ IsFiniteSet(Workers) /\ WalletOpening \in Nat
  <2>1. /\ Withdrawn \in [Withdrawals -> Int] /\ Claimed \in [Workers -> Int]
        /\ IsFiniteSet(Withdrawals) /\ IsFiniteSet(Workers) /\ WalletOpening \in Nat
    BY <1>1, SumsAreNumbers
  <2>. QED BY <2>1, SumOfFunction
<1>5. (\A x \in Withdrawals : Withdrawn[x] = 0) /\ (\A w \in Workers : Claimed[w] = 0)
  BY DEF Withdrawn, Claimed, At, None
<1>6. SumFunction(Withdrawn) = 0 /\ SumFunction(Claimed) = 0
  BY <1>4, <1>5, SumOfZeros
<1>7. wallet = WalletOpening - SumFunction(Withdrawn) /\ wallet >= 0 /\ Overdraft
  BY <1>4, <1>6 DEF Overdraft
<1>. QED BY <1>1, <1>2, <1>3, <1>7 DEF WInv

THEOREM WalletInvariance == Spec => []WInv
<1>1. WInv /\ [Next]_vars => WInv'
  <2>1. WInv /\ [Next]_vars => IInv'
    BY NextPreserves DEF WInv
  <2>. QED BY <2>1, WalletStep
<1>. QED BY <1>1, WalletStart, PTL DEF Spec

\* processWithdrawal: the ledger has booked a withdrawal exactly when it is in
\* the payments table, and the wallet has been debited once for each, however
\* requests overlap, throw and die; while they are served one by one COMPLETED
\* is the status of the withdrawals that are paid and of no other.
THEOREM WithdrawnExactlyOnce == Spec => []WithdrawnOnce
<1>1. WInv => WithdrawnOnce
  BY DEF WInv, WithdrawnOnce, Recorded, Withdrawn
<1>. QED BY <1>1, WalletInvariance, PTL

\* processWithdrawal: the balance is read before the row is held, so that
\* requests that overlap overdraw the wallet, but by no more than one amount
\* for each request but one; a single request never does.
THEOREM OverdraftIsBounded == Spec => []WalletOverdrawnByOverlapOnly
<1>1. WInv => WalletOverdrawnByOverlapOnly
  <2>. SUFFICES ASSUME WInv, wallet < 0
                PROVE  /\ overlapped
                       /\ \E x \in Withdrawals :
                             wallet >= - (Cardinality(Workers) - 1) * WithdrawalOf[x]
    BY DEF WalletOverdrawnByOverlapOnly
  <2>1. wallet \in Int /\ SumFunction(Claimed) \in Nat
    BY SumsAreNumbers DEF WInv
  <2>2. overlapped
    BY <2>1 DEF WInv
  <2>3. PICK x \in Withdrawals : wallet - SumFunction(Claimed) >= Bound(x)
    BY <2>1 DEF WInv, Overdraft
  <2>4. Bound(x) \in Int
    BY BoundIsNumber
  <2>5. wallet >= Bound(x)
    BY <2>1, <2>3, <2>4
  <2>. QED BY <2>2, <2>5 DEF Bound
<1>. QED BY <1>1, WalletInvariance, PTL


----------------------------------------------------------------------------
(***************************************************************************)
(* The escrow account, while requests are served one by one.               *)
(***************************************************************************)
\* What the deposits and the payouts of each reference have brought.
Brought ==
    [r \in DOMAIN moved |->
        IF r \in Deposits THEN moved[r] * DepositAmount ELSE - moved[r] * AmountOf[r]]

Balanced ==
    /\ escrow.balance = Opening + SumFunction(Brought)
    /\ escrow.locked <= escrow.balance
    /\ \A s \in Settlements :
          /\ moved[s] <= 1
          /\ settlement[s] \in {"none", "PENDING", "APPROVED"} => moved[s] = 0

\* The status and the account are still what the request has read or written.
UpToDate(w) ==
    LET t == task[w] IN
    /\ t.op = "approve" => settlement[t.id] = "PENDING"
    /\ t.op = "process" =>
          /\ settlement[t.id] = IF t.pc = "mark" THEN "APPROVED" ELSE "PROCESSING"
          /\ t.pc \in {"check", "move"} => moved[t.id] = 0
          /\ t.pc = "move" => t.seen = escrow
    /\ t.op \in {"deposit", "lock"} => t.seen = escrow
    /\ t.op = "lock" => LockAmount <= Available(t.seen)

EInv ==
    /\ IInv
    /\ OneByOne
    /\ overlapped \/ (Balanced /\ \A w \in Workers : UpToDate(w))

LEMMA AccountIsNumbers ==
    ASSUME IInv
    PROVE  /\ escrow \in Account /\ Opening \in Nat /\ DepositAmount \in Nat
           /\ LockAmount \in Nat
           /\ DOMAIN moved = Settlements \cup Deposits
           /\ moved \in [Settlements \cup Deposits -> Nat]
           /\ IsFiniteSet(DOMAIN moved)
           /\ \A s \in Settlements : AmountOf[s] \in Nat
           /\ \A r \in Deposits : r \notin Settlements
           /\ Brought \in [DOMAIN moved -> Int]
           /\ SumFunction(Brought) \in Int
<1>1. /\ escrow \in Account
      /\ moved \in [Settlements \cup Deposits -> Nat]
      /\ DOMAIN moved = Settlements \cup Deposits
  BY DEF IInv, TypeOK, SettlementTypeOK, Account
<1>2. /\ Opening \in Nat /\ DepositAmount \in Nat /\ LockAmount \in Nat
      /\ \A s \in Settlements : AmountOf[s] \in Nat
      /\ \A r \in Deposits : r \notin Settlements
  BY SettlementAssumption
<1>3. IsFiniteSet(DOMAIN moved)
  <2>1. IsFiniteSet(Settlements) /\ IsFiniteSet(Deposits)
    BY SettlementAssumption
  <2>2. IsFiniteSet(Settlements \cup Deposits)
    BY <2>1, FS_Union
  <2>. QED BY <1>1, <2>2
<1>4. Brought \in [DOMAIN moved -> Int]
  <2>1. ASSUME NEW r \in DOMAIN moved
        PROVE  (IF r \in Deposits THEN moved[r] * DepositAmount
                ELSE - moved[r] * AmountOf[r]) \in Int
    <3>1. moved[r] \in Nat
      BY <1>1
    <3>2. CASE r \in Deposits
      BY <1>2, <3>1, <3>2
    <3>3. CASE r \in Settlements /\ r \notin Deposits
      BY <1>2, <3>1, <3>3
    <3>. QED BY <1>1, <3>2, <3>3
  <2>. QED BY <2>1 DEF Brought
<1>5. SumFunction(Brought) \in Int
  BY <1>3, <1>4, SumOfFunction
<1>. QED BY <1>1, <1>2, <1>3, <1>4, <1>5

\* One more movement of a reference adds what it brings.
LEMMA OneMoreMovement ==
    ASSUME IInv, IInv', NEW r \in Settlements \cup Deposits,
           moved' = [moved EXCEPT ![r] = @ + 1]
    PROVE  SumFunction(Brought') = SumFunction(Brought)
              + (IF r \in Deposits THEN DepositAmount ELSE - AmountOf[r])
<1>1. DOMAIN moved' = DOMAIN moved /\ r \in DOMAIN moved
      /\ moved'[r] = moved[r] + 1
      /\ \A q \in DOMAIN moved \ {r} : moved'[q] = moved[q]
  BY AccountIsNumbers
<1>. DEFINE more == IF r \in Deposits THEN DepositAmount ELSE - AmountOf[r]
<1>2. more \in Int /\ moved[r] \in Nat
  BY AccountIsNumbers
<1>3. Brought'[r] = Brought[r] + more
  <2>1. CASE r \in Deposits
    <3>1. moved[r] * DepositAmount + 1 * DepositAmount = (moved[r] + 1) * DepositAmount
      BY <1>2, AccountIsNumbers, Distributes
    <3>2. Brought'[r] = moved'[r] * DepositAmount /\ Brought[r] = moved[r] * DepositAmount
      BY <1>1, <2>1 DEF Brought
    <3>3. 1 * DepositAmount = DepositAmount
      BY AccountIsNumbers
    <3>. QED BY <1>1, <2>1, <3>1, <3>2, <3>3
  <2>2. CASE r \notin Deposits
    <3>. DEFINE amount == AmountOf[r]
    <3>0. amount \in Int
      BY <2>2, AccountIsNumbers
    <3>1. moved[r] * amount + 1 * amount = (moved[r] + 1) * amount
      BY <1>2, <3>0, Distributes
    <3>2. Brought'[r] = - moved'[r] * amount /\ Brought[r] = - moved[r] * amount
      BY <1>1, <2>2 DEF Brought
    <3>3. moved[r] * amount \in Int /\ 1 * amount = amount
      BY <1>2, <3>0
    <3>. DEFINE product == moved[r] * amount
    <3>4. (moved[r] + 1) * amount = product + amount /\ product \in Int
      BY <3>1, <3>3
    <3>5. Brought'[r] = - (product + amount) /\ Brought[r] = - product
      BY <1>1, <3>2, <3>4
    <3>. HIDE DEF product, amount
    <3>6. - (product + amount) = - product + (- amount)
      BY <3>0, <3>4
    <3>7. more = - amount
      BY <2>2 DEF amount
    <3>. QED BY <3>5, <3>6, <3>7
  <2>. QED BY <2>1, <2>2
<1>4. \A q \in DOMAIN moved \ {r} : Brought'[q] = Brought[q]
  BY <1>1 DEF Brought
<1>5. /\ Brought \in [DOMAIN moved -> Int] /\ Brought' \in [DOMAIN moved -> Int]
      /\ IsFiniteSet(DOMAIN moved)
  <2>1. Brought' \in [DOMAIN moved' -> Int]
    <3>1. \A q \in DOMAIN moved : Brought[q] \in Int
      BY AccountIsNumbers
    <3>2. \A q \in DOMAIN moved : Brought'[q] \in Int
      BY <1>1, <1>2, <1>3, <1>4, <3>1
    <3>. QED BY <1>1, <3>2 DEF Brought
  <2>. QED BY <1>1, <2>1, AccountIsNumbers
<1>. HIDE DEF more
<1>6. SumFunction(Brought') = SumFunction(Brought) + more
  BY <1>1, <1>2, <1>3, <1>4, <1>5, SumExcept
<1>. QED BY <1>6 DEF more


\* A step keeps the invariant if it keeps it when no other request is served.
LEMMA EscrowTurn ==
    ASSUME EInv, IInv', NEW w \in Workers, NEW t, NEW ops, ServiceStep(w, t, ops),
           Balanced /\ UpToDate(w) /\ task'[w] = t => Balanced' /\ UpToDate(w)'
    PROVE  EInv'
<1>1. /\ task'[w] = t /\ \A v \in Workers \ {w} : task'[v] = task[v]
      /\ OneByOne'
      /\ (overlapped => overlapped')
      /\ (~ overlapped' => \A v \in Workers \ {w} : task[v] = None)
  BY OthersWait DEF EInv
<1>2. ASSUME ~ overlapped' PROVE Balanced' /\ \A v \in Workers : UpToDate(v)'
  <2>1. Balanced' /\ UpToDate(w)'
    BY <1>1, <1>2 DEF EInv
  <2>2. ASSUME NEW v \in Workers \ {w} PROVE UpToDate(v)'
    <3>1. task'[v] = None
      BY <1>1, <1>2
    <3>. QED BY <3>1 DEF UpToDate, None
  <2>. QED BY <2>1, <2>2
<1>. QED BY <1>1, <1>2 DEF EInv

\* The escrow account, the settlements and what moved stay as they are.
LEMMA BalanceStays ==
    ASSUME Balanced, UNCHANGED settlementVars
    PROVE  Balanced'
  BY DEF Balanced, Brought, settlementVars

LEMMA EscrowTurnAside ==
    ASSUME EInv, IInv', NEW w \in Workers, NEW t, NEW ops, ServiceStep(w, t, ops),
           UNCHANGED settlementVars, t.op \notin SettlementOps
    PROVE  EInv'
<1>1. Balanced => Balanced'
  BY BalanceStays
<1>2. task'[w] = t => UpToDate(w)'
  BY DEF UpToDate, SettlementOps
<1>. QED BY <1>1, <1>2, EscrowTurn

LEMMA EscrowUntouched ==
    ASSUME EInv, IInv', UNCHANGED <<task, overlapped, settlementVars>>
    PROVE  EInv'
<1>1. Balanced => Balanced'
  BY BalanceStays
<1>2. \A w \in Workers : UpToDate(w) => UpToDate(w)'
  BY DEF UpToDate, settlementVars
<1>3. OneByOne'
  BY DEF EInv, OneByOne, Solo
<1>. QED BY <1>1, <1>2, <1>3 DEF EInv

LEMMA OthersLeaveEscrow ==
    ASSUME EInv, IInv', WithdrawalStep \/ ProfitStep, UNCHANGED settlementVars
    PROVE  EInv'
<1>1. PICK ops \in {WithdrawalOps, ProfitOps} : ServedBy(ops)
  BY WithdrawalServes, ProfitServes DEF EInv
<1>2. ASSUME NEW w \in Workers, NEW t, ServiceStep(w, t, ops) PROVE EInv'
  <2>1. t.op \notin SettlementOps
    BY <1>1, <1>2 DEF ServiceStep, None, SettlementOps, WithdrawalOps, ProfitOps
  <2>. QED BY <1>2, <2>1, EscrowTurnAside
<1>. QED BY <1>1, <1>2, EscrowUntouched DEF ServedBy

LEMMA DieLeavesEscrow ==
    ASSUME EInv, IInv', NEW w \in Workers, Die(w)
    PROVE  EInv'
<1>1. task[w] # None /\ task' = [task EXCEPT ![w] = None]
      /\ UNCHANGED <<overlapped, settlementVars>>
  BY DEF Die, Abort
<1>2. ServiceStep(w, None, {task[w].op})
  BY <1>1 DEF ServiceStep
<1>3. None.op \notin SettlementOps
  BY DEF None, SettlementOps
<1>. QED BY <1>1, <1>2, <1>3, EscrowTurnAside

LEMMA CreateKeepsBalance ==
    ASSUME EInv, IInv', NEW s \in Settlements, CreateSettlement(s)
    PROVE  EInv'
<1>. USE DEF CreateSettlement, requestVars
<1>1. /\ settlement[s] = "none" /\ settlement'[s] = "PENDING"
      /\ \A r \in Settlements \ {s} : settlement'[r] = settlement[r]
  BY DEF EInv, IInv, TypeOK, SettlementTypeOK, SetStatus
<1>2. Balanced => Balanced'
  BY <1>1 DEF Balanced, Brought
<1>3. ASSUME NEW w \in Workers, UpToDate(w) PROVE UpToDate(w)'
  <2>1. task[w].op \in {"approve", "process"} => task[w].id \in Settlements
    BY OperationTells DEF EInv, IInv, Approving, Processing, Releasing
  <2>. QED BY <1>1, <1>3, <2>1 DEF UpToDate
<1>4. OneByOne'
  BY DEF EInv, OneByOne, Solo
<1>. QED BY <1>2, <1>3, <1>4 DEF EInv

\* A request begins with a look at the status or the account.
LEMMA ReadKeepsBalance ==
    ASSUME EInv, IInv', NEW w \in Workers, NEW t, Begin(w, t), t.op \in SettlementOps,
           UNCHANGED settlementVars,
           t.op = "approve" => settlement[t.id] = "PENDING",
           t.op = "process" => t.pc = "mark" /\ settlement[t.id] = "APPROVED",
           t.op \in {"deposit", "lock"} => t.seen = escrow,
           t.op = "lock" => LockAmount <= Available(escrow)
    PROVE  EInv'
<1>1. ServiceStep(w, t, SettlementOps)
  BY DEF ServiceStep, Begin
<1>2. task'[w] = t => UpToDate(w)'
  BY DEF UpToDate, settlementVars, Available
<1>. QED BY <1>1, <1>2, BalanceStays, EscrowTurn

LEMMA EscrowReadsKeep ==
    ASSUME EInv, IInv', NEW w \in Workers,
           \/ \E s \in Settlements : ApproveRead(w, s) \/ ProcessRead(w, s)
           \/ \E r \in Deposits : DepositRead(w, r)
           \/ LockRead(w)
    PROVE  EInv'
<1>0. \A op \in {"approve", "process", "deposit", "lock"} : op \in SettlementOps
  BY DEF SettlementOps
<1>1. ASSUME NEW s \in Settlements, ApproveRead(w, s) PROVE EInv'
  <2>. DEFINE t == [op |-> "approve", pc |-> "write", id |-> s]
  <2>1. t.op = "approve" /\ t.id = s /\ Begin(w, t) /\ settlement[s] = "PENDING"
    BY <1>1 DEF ApproveRead, Approvable
  <2>. HIDE DEF t
  <2>. QED BY <1>0, <1>1, <2>1, ReadKeepsBalance DEF ApproveRead
<1>2. ASSUME NEW s \in Settlements, ProcessRead(w, s) PROVE EInv'
  <2>. DEFINE t == [op |-> "process", pc |-> "mark", id |-> s]
  <2>1. /\ t.op = "process" /\ t.pc = "mark" /\ t.id = s /\ Begin(w, t)
        /\ settlement[s] = "APPROVED"
    BY <1>2 DEF ProcessRead
  <2>. HIDE DEF t
  <2>. QED BY <1>0, <1>2, <2>1, ReadKeepsBalance DEF ProcessRead
<1>3. ASSUME NEW r \in Deposits, DepositRead(w, r) PROVE EInv'
  <2>. DEFINE t == [op |-> "deposit", pc |-> "write", id |-> r, seen |-> escrow]
  <2>1. t.op = "deposit" /\ t.seen = escrow /\ Begin(w, t)
    BY <1>3 DEF DepositRead
  <2>. HIDE DEF t
  <2>. QED BY <1>0, <1>3, <2>1, ReadKeepsBalance DEF DepositRead
<1>4. CASE LockRead(w)
  <2>. DEFINE t == [op |-> "lock", pc |-> "write", seen |-> escrow]
  <2>1. t.op = "lock" /\ t.seen = escrow /\ Begin(w, t) /\ LockAmount <= Available(escrow)
    BY <1>4 DEF LockRead, Covered
  <2>. HIDE DEF t
  <2>. QED BY <1>0, <1>4, <2>1, ReadKeepsBalance DEF LockRead
<1>. QED BY <1>1, <1>2, <1>3, <1>4


\* The status of the settlement in hand is written, the account is not.
LEMMA StatusKeepsBalance ==
    ASSUME EInv, IInv', NEW w \in Workers, NEW s \in Settlements, s = task[w].id,
           NEW t, ServiceStep(w, t, SettlementOps),
           NEW status \in {"APPROVED", "PROCESSING", "COMPLETED", "FAILED"},
           SetStatus(s, status), UNCHANGED <<escrow, moved>>,
           status = "APPROVED" => task[w].op = "approve",
           t = None \/ /\ t.op = "process" /\ t.pc = "check" /\ t.id = s
                       /\ status = "PROCESSING"
                       /\ task[w].op = "process" /\ task[w].pc = "mark"
    PROVE  EInv'
<1>1. /\ settlement'[s] = status
      /\ \A r \in Settlements \ {s} : settlement'[r] = settlement[r]
  BY DEF EInv, IInv, TypeOK, SettlementTypeOK, SetStatus
<1>2. ASSUME Balanced, UpToDate(w), task'[w] = t
      PROVE  Balanced' /\ UpToDate(w)'
  <2>1. status = "APPROVED" => moved[s] = 0
    BY <1>2 DEF Balanced, UpToDate
  <2>2. Brought' = Brought
    BY DEF Brought
  <2>3. Balanced'
    BY <1>1, <1>2, <2>1, <2>2 DEF Balanced
  <2>4. UpToDate(w)'
    <3>1. CASE t = None
      BY <1>2, <3>1 DEF UpToDate, None
    <3>2. CASE t # None
      <4>1. moved[s] = 0
        BY <1>2, <3>2 DEF Balanced, UpToDate
      <4>. QED BY <1>1, <1>2, <3>2, <4>1 DEF UpToDate
    <3>. QED BY <3>1, <3>2
  <2>. QED BY <2>3, <2>4
<1>. QED BY <1>2, EscrowTurn

LEMMA StatusWritesKeep ==
    ASSUME EInv, IInv', NEW w \in Workers,
           \/ ApproveWrite(w) \/ MarkProcessing(w)
           \/ CompleteSettlement(w) \/ FailSettlement(w)
    PROVE  EInv'
<1>1. PICK s \in Settlements : s = task[w].id
  BY OperationTells
  DEF EInv, IInv, ApproveWrite, MarkProcessing, CompleteSettlement, FailSettlement, At,
      Approving, Processing, Releasing
<1>2. ASSUME NEW op \in SettlementOps, task[w].op = op, Finish(w)
      PROVE  ServiceStep(w, None, SettlementOps)
  BY <1>2 DEF ServiceStep, Finish, Continue, SettlementOps, None
<1>3. "approve" \in SettlementOps /\ "process" \in SettlementOps
  BY DEF SettlementOps
<1>4. CASE ApproveWrite(w)
  <2>1. ServiceStep(w, None, SettlementOps) /\ task[w].op = "approve"
    BY <1>2, <1>3, <1>4 DEF ApproveWrite, At
  <2>. QED BY <1>1, <1>4, <2>1, StatusKeepsBalance DEF ApproveWrite
<1>5. CASE CompleteSettlement(w)
  <2>1. ServiceStep(w, None, SettlementOps)
    BY <1>2, <1>3, <1>5 DEF CompleteSettlement, At
  <2>. QED BY <1>1, <1>5, <2>1, StatusKeepsBalance DEF CompleteSettlement
<1>6. CASE FailSettlement(w)
  <2>1. ServiceStep(w, None, SettlementOps)
    BY <1>2, <1>3, <1>6 DEF FailSettlement, At
  <2>. QED BY <1>1, <1>6, <2>1, StatusKeepsBalance DEF FailSettlement
<1>7. CASE MarkProcessing(w)
  <2>. DEFINE t == [task[w] EXCEPT !.pc = "check"]
  <2>1. task[w] \in Processing /\ task[w].pc = "mark"
    BY <1>7, OperationTells DEF EInv, IInv, MarkProcessing, At, Releasing
  <2>2. t.op = "process" /\ t.pc = "check" /\ t.id = s
    BY <1>1, <2>1 DEF Processing
  <2>3. ServiceStep(w, t, SettlementOps)
    BY <1>3, <1>7, <2>1, <2>2
    DEF MarkProcessing, ServiceStep, Goto, Continue, Processing, None
  <2>4. task[w].op = "process"
    BY <2>1 DEF Processing
  <2>. HIDE DEF t
  <2>. QED BY <1>1, <1>7, <2>1, <2>2, <2>3, <2>4, StatusKeepsBalance DEF MarkProcessing
<1>. QED BY <1>4, <1>5, <1>6, <1>7

\* A request that goes on without having written anything.
LEMMA ProcessKeepsBalance ==
    ASSUME EInv, IInv', NEW w \in Workers, NEW t, task[w].op = "process",
           t.op = "process", t.id = task[w].id, t.pc # "mark", task[w].pc # "mark",
           t.pc = "move" => t.seen = escrow /\ task[w].pc = "check",
           t.pc # "check", task' = [task EXCEPT ![w] = t],
           UNCHANGED <<overlapped, settlementVars>>
    PROVE  EInv'
<1>1. ServiceStep(w, t, SettlementOps)
  BY DEF ServiceStep, SettlementOps, None
<1>2. Balanced /\ UpToDate(w) /\ task'[w] = t => UpToDate(w)'
  BY DEF UpToDate, settlementVars
<1>. QED BY <1>1, <1>2, BalanceStays, EscrowTurn

LEMMA ProcessStepsKeep ==
    ASSUME EInv, IInv', NEW w \in Workers,
           CheckEscrow(w) \/ PayOut(w) \/ ThrowIntoCatch(w)
    PROVE  EInv'
<1>1. CASE CheckEscrow(w)
  <2>1. PICK pc \in {"move", "fail"} :
          Continue(w, [op |-> "process", id |-> task[w].id, seen |-> escrow, pc |-> pc])
    BY <1>1 DEF CheckEscrow
  <2>. DEFINE t == [op |-> "process", id |-> task[w].id, seen |-> escrow, pc |-> pc]
  <2>2. t.op = "process" /\ t.id = task[w].id /\ t.pc = pc /\ t.seen = escrow
    OBVIOUS
  <2>3. /\ task' = [task EXCEPT ![w] = t] /\ UNCHANGED <<overlapped, settlementVars>>
        /\ task[w].op = "process" /\ task[w].pc = "check"
    BY <1>1, <2>1 DEF CheckEscrow, Continue, At
  <2>. HIDE DEF t
  <2>. QED BY <2>2, <2>3, ProcessKeepsBalance
<1>2. ASSUME NEW pc \in {"fail", "complete"}, task' = [task EXCEPT ![w].pc = pc],
             task[w] \in Processing \/ task[w] \in Releasing,
             task[w].pc # "mark", UNCHANGED <<overlapped, settlementVars>>
      PROVE  EInv'
  <2>. DEFINE t == [task[w] EXCEPT !.pc = pc]
  <2>1. t.op = "process" /\ t.id = task[w].id /\ t.pc = pc /\ task[w].op = "process"
    BY <1>2 DEF Processing, Releasing
  <2>2. task' = [task EXCEPT ![w] = t]
    BY <1>2
  <2>. HIDE DEF t
  <2>. QED BY <1>2, <2>1, <2>2, ProcessKeepsBalance
<1>3. CASE PayOut(w)
  <2>1. PICK pc \in {"fail", "complete"} : Goto(w, pc)
    BY <1>3 DEF PayOut
  <2>2. (task[w] \in Processing \/ task[w] \in Releasing) /\ task[w].pc = "pay"
    BY <1>3, OperationTells DEF EInv, IInv, PayOut, At
  <2>. QED BY <1>2, <1>3, <2>1, <2>2 DEF PayOut, Goto, Continue
<1>4. CASE ThrowIntoCatch(w)
  <2>1. (task[w] \in Processing \/ task[w] \in Releasing) /\ task[w].pc # "mark"
    BY <1>4, OperationTells DEF EInv, IInv, ThrowIntoCatch, At
  <2>. QED BY <1>2, <1>4, <2>1 DEF ThrowIntoCatch
<1>. QED BY <1>1, <1>3, <1>4


\* What is drawn on the account as it stands leaves the rest, and the rest
\* covers what stays locked.
LEMMA DrawnLeavesRest ==
    ASSUME escrow \in Account, NEW type, NEW amount \in Nat,
           amount <= Available(escrow), escrow.locked <= escrow.balance
    PROVE  LET account == Drawn(escrow, type, amount)
           IN  /\ account.balance = escrow.balance - amount
               /\ account.locked <= account.balance
<1>1. /\ escrow.balance \in Nat /\ escrow.locked \in Nat
      /\ amount <= escrow.balance - escrow.locked
  BY DEF Account, Available
<1>2. CASE type = "PLATFORM_FEE"
  <2>1. Drawn(escrow, type, amount) = [escrow EXCEPT !.balance = escrow.balance - amount]
    BY <1>2 DEF Drawn
  <2>2. /\ Drawn(escrow, type, amount).balance = escrow.balance - amount
        /\ Drawn(escrow, type, amount).locked = escrow.locked
    BY <2>1 DEF Account
  <2>. QED BY <1>1, <2>2
<1>3. CASE type # "PLATFORM_FEE"
  <2>1. /\ Drawn(escrow, type, amount).balance = escrow.balance - amount
        /\ Drawn(escrow, type, amount).locked
             = IF escrow.locked - amount > 0 THEN escrow.locked - amount ELSE 0
    BY <1>3 DEF Drawn
  <2>. QED BY <1>1, <2>1
<1>. QED BY <1>2, <1>3

LEMMA MoveKeepsBalance ==
    ASSUME EInv, IInv', NEW w \in Workers, MoveEscrow(w)
    PROVE  EInv'
<1>1. task[w] \in Releasing /\ task[w].pc = "move" /\ task[w].op = "process"
  BY OperationTells DEF EInv, IInv, MoveEscrow, At, Processing
<1>2. PICK s \in Settlements : s = task[w].id
  BY <1>1 DEF Releasing
<1>3. CASE Refused(EscrowKey(s), AmountOf[s])
  <2>. DEFINE t == [task[w] EXCEPT !.pc = "fail"]
  <2>1. t.op = "process" /\ t.id = task[w].id /\ t.pc = "fail"
    BY <1>1 DEF Releasing
  <2>2. task' = [task EXCEPT ![w] = t] /\ UNCHANGED <<overlapped, settlementVars>>
    BY <1>2, <1>3 DEF MoveEscrow, Goto, Continue, settlementVars
  <2>. HIDE DEF t
  <2>. QED BY <1>1, <2>1, <2>2, ProcessKeepsBalance
<1>4. CASE ~ Refused(EscrowKey(s), AmountOf[s])
  <2>. DEFINE t == [task[w] EXCEPT !.pc = "pay"]
  <2>1. t.op = "process" /\ t.id = s /\ t.pc = "pay"
    BY <1>1, <1>2 DEF Releasing
  <2>2. /\ task' = [task EXCEPT ![w] = t] /\ UNCHANGED <<overlapped, settlement>>
        /\ escrow' = Drawn(task[w].seen, TypeOf[s], AmountOf[s])
        /\ moved' = [moved EXCEPT ![s] = @ + 1]
    BY <1>2, <1>4 DEF MoveEscrow, Goto, Continue
  <2>. HIDE DEF t
  <2>3. ServiceStep(w, t, SettlementOps)
    BY <1>1, <2>1, <2>2 DEF ServiceStep, SettlementOps, None
  <2>4. ASSUME Balanced, UpToDate(w), task'[w] = t
        PROVE  Balanced' /\ UpToDate(w)'
    <3>1. /\ task[w].seen = escrow /\ settlement[s] = "PROCESSING" /\ moved[s] = 0
          /\ AmountOf[s] <= Available(escrow)
      <4>1. Knows(w)
        BY DEF EInv, IInv
      <4>. QED BY <1>1, <1>2, <2>4, <4>1 DEF UpToDate, Knows
    <3>2. /\ escrow'.balance = escrow.balance - AmountOf[s]
          /\ escrow'.locked <= escrow'.balance
      BY <2>2, <2>4, <3>1, DrawnLeavesRest, AccountIsNumbers DEF Balanced, EInv
    <3>3. SumFunction(Brought') = SumFunction(Brought) + (- AmountOf[s])
      BY <2>2, OneMoreMovement, AccountIsNumbers DEF EInv
    <3>4. escrow'.balance = Opening + SumFunction(Brought')
      <4>1. /\ escrow.balance \in Int /\ Opening \in Int /\ AmountOf[s] \in Int
            /\ SumFunction(Brought) \in Int
        BY AccountIsNumbers DEF EInv, Account
      <4>2. escrow.balance = Opening + SumFunction(Brought)
        BY <2>4 DEF Balanced
      <4>3. \A a, b, c \in Int : (a + b) - c = a + (b + (- c))
        OBVIOUS
      <4>. QED BY <3>2, <3>3, <4>1, <4>2, <4>3
    <3>5. moved'[s] = 1 /\ \A r \in Settlements \ {s} : moved'[r] = moved[r]
      BY <2>2, <3>1, AccountIsNumbers DEF EInv
    <3>6. Balanced'
      BY <2>2, <2>4, <3>1, <3>2, <3>4, <3>5 DEF Balanced
    <3>7. UpToDate(w)'
      BY <2>1, <2>2, <2>4, <3>1 DEF UpToDate
    <3>. QED BY <3>6, <3>7
  <2>. QED BY <2>3, <2>4, EscrowTurn
<1>. QED BY <1>3, <1>4

LEMMA DepositKeepsBalance ==
    ASSUME EInv, IInv', NEW w \in Workers, DepositWrite(w)
    PROVE  EInv'
<1>1. task[w] \in Depositing
  BY OperationTells DEF EInv, IInv, DepositWrite, At
<1>2. PICK r \in Deposits : r = task[w].id
  BY <1>1 DEF Depositing
<1>3. ServiceStep(w, None, SettlementOps)
  BY <1>1 DEF DepositWrite, ServiceStep, Finish, Continue, At, SettlementOps, None
<1>4. None.op \notin SettlementOps
  BY DEF None, SettlementOps
<1>5. CASE Refused(EscrowKey(r), DepositAmount)
  <2>1. UNCHANGED settlementVars
    BY <1>2, <1>5 DEF DepositWrite, settlementVars
  <2>. QED BY <1>3, <1>4, <2>1, EscrowTurnAside
<1>6. CASE ~ Refused(EscrowKey(r), DepositAmount)
  <2>1. /\ escrow' = [escrow EXCEPT !.balance = task[w].seen.balance + DepositAmount]
        /\ moved' = [moved EXCEPT ![r] = @ + 1]
        /\ UNCHANGED settlement
    BY <1>2, <1>6 DEF DepositWrite
  <2>2. ASSUME Balanced, UpToDate(w), task'[w] = None
        PROVE  Balanced' /\ UpToDate(w)'
    <3>1. task[w].seen = escrow
      BY <1>1, <2>2 DEF UpToDate, Depositing
    <3>2. /\ escrow.balance \in Nat /\ escrow.locked \in Nat /\ Opening \in Int
          /\ DepositAmount \in Nat /\ SumFunction(Brought) \in Int
      BY AccountIsNumbers DEF EInv, Account
    <3>3. /\ escrow'.balance = escrow.balance + DepositAmount
          /\ escrow'.locked = escrow.locked
      BY <2>1, <3>1, AccountIsNumbers DEF EInv, Account
    <3>4. SumFunction(Brought') = SumFunction(Brought) + DepositAmount
      BY <2>1, OneMoreMovement DEF EInv
    <3>5. escrow'.balance = Opening + SumFunction(Brought')
      <4>1. escrow.balance = Opening + SumFunction(Brought)
        BY <2>2 DEF Balanced
      <4>2. \A a, b, c \in Int : (a + b) + c = a + (b + c)
        OBVIOUS
      <4>. QED BY <3>2, <3>3, <3>4, <4>1, <4>2
    <3>6. escrow'.locked <= escrow'.balance
      BY <2>2, <3>2, <3>3 DEF Balanced
    <3>7. \A s \in Settlements : moved'[s] = moved[s]
      BY <2>1, AccountIsNumbers DEF EInv
    <3>8. Balanced'
      BY <2>1, <2>2, <3>5, <3>6, <3>7 DEF Balanced
    <3>. QED BY <2>2, <3>8 DEF UpToDate, None
  <2>. QED BY <1>3, <2>2, EscrowTurn
<1>. QED BY <1>5, <1>6

LEMMA LockKeepsBalance ==
    ASSUME EInv, IInv', NEW w \in Workers, LockWrite(w)
    PROVE  EInv'
<1>1. task[w] \in Locking
  BY OperationTells DEF EInv, IInv, LockWrite, At
<1>2. ServiceStep(w, None, SettlementOps)
  BY <1>1 DEF LockWrite, ServiceStep, Finish, Continue, At, SettlementOps, None
<1>3. /\ escrow' = [escrow EXCEPT !.locked = task[w].seen.locked + LockAmount,
                                  !.status = "LOCKED"]
      /\ UNCHANGED <<settlement, moved>>
  BY DEF LockWrite
<1>4. ASSUME Balanced, UpToDate(w), task'[w] = None
      PROVE  Balanced' /\ UpToDate(w)'
  <2>1. task[w].seen = escrow /\ LockAmount <= Available(escrow)
    BY <1>1, <1>4 DEF UpToDate, Locking
  <2>2. escrow \in Account /\ LockAmount \in Nat
    BY AccountIsNumbers DEF EInv
  <2>3. escrow'.balance = escrow.balance /\ escrow'.locked = escrow.locked + LockAmount
    BY <1>3, <2>1, <2>2 DEF Account
  <2>4. escrow'.locked <= escrow'.balance
    BY <2>1, <2>2, <2>3 DEF Account, Available
  <2>5. Brought' = Brought
    BY <1>3 DEF Brought
  <2>6. Balanced'
    BY <1>3, <1>4, <2>3, <2>4, <2>5 DEF Balanced
  <2>. QED BY <1>4, <2>6 DEF UpToDate, None
<1>. QED BY <1>2, <1>4, EscrowTurn

LEMMA EscrowStep ==
    ASSUME EInv, IInv', [Next]_vars
    PROVE  EInv'
<1>1. CASE SettlementStep
  BY <1>1, CreateKeepsBalance, EscrowReadsKeep, StatusWritesKeep, ProcessStepsKeep,
     MoveKeepsBalance, DepositKeepsBalance, LockKeepsBalance
  DEF SettlementStep
<1>2. ASSUME WithdrawalStep \/ ProfitStep, UNCHANGED settlementVars PROVE EInv'
  BY <1>2, OthersLeaveEscrow
<1>3. ASSUME NEW w \in Workers, Die(w) PROVE EInv'
  BY <1>3, DieLeavesEscrow
<1>4. CASE UNCHANGED vars
  BY <1>4, EscrowUntouched DEF vars, requestVars
<1>. QED BY <1>1, <1>2, <1>3, <1>4 DEF Next

\* EscrowService: while requests are served one by one, whatever fails in
\* between, the escrow account holds what was opened and deposited and not paid
\* out, what is locked on it is there, and no settlement draws on it twice.
THEOREM EscrowAddsUp == Spec => []EscrowBooksOneByOne
<1>1. Init => EInv
  <2>. SUFFICES ASSUME Init PROVE EInv
    OBVIOUS
  <2>. USE DEF Init, RequestInit, SettlementInit
  <2>1. IInv
    BY InitIsInductive
  <2>2. OneByOne /\ \A w \in Workers : UpToDate(w)
    BY DEF OneByOne, Solo, UpToDate, None
  <2>3. SumFunction(Brought) = 0
    <3>1. \A r \in DOMAIN moved : Brought[r] = 0
      BY <2>1, AccountIsNumbers DEF Brought
    <3>2. SumFunction(Brought) = SumFunctionOnSet(Brought, DOMAIN moved)
          /\ IsFiniteSet(DOMAIN moved)
      BY <2>1, AccountIsNumbers, SumOfFunction
    <3>. QED BY <3>1, <3>2, SumOfZeros
  <2>4. Balanced
    BY <2>1, <2>3, AccountIsNumbers DEF Balanced
  <2>. QED BY <2>1, <2>2, <2>4 DEF EInv
<1>2. EInv /\ [Next]_vars => EInv'
  <2>1. EInv /\ [Next]_vars => IInv'
    BY NextPreserves DEF EInv
  <2>. QED BY <2>1, EscrowStep
<1>3. EInv => EscrowBooksOneByOne
  BY DEF EInv, Balanced, Brought, ExpectedBalance, EscrowBooksOneByOne
<1>. QED BY <1>1, <1>2, <1>3, PTL DEF Spec


----------------------------------------------------------------------------
(***************************************************************************)
(* The arithmetic of a calculation.                                        *)
(***************************************************************************)
\* What a division by a positive number leaves.
LEMMA Division ==
    ASSUME NEW m \in Nat, NEW n \in Nat \ {0}
    PROVE  /\ m \div n \in Nat
           /\ n * (m \div n) <= m
           /\ m < n * (m \div n) + n
OBVIOUS

\* A rounded quotient is off by at most one half.
LEMMA RoundedIsNear ==
    ASSUME NEW a \in Nat, NEW b \in Nat \ {0}
    PROVE  /\ RoundDiv(a, b) \in Nat
           /\ 2 * (b * RoundDiv(a, b)) <= 2 * a + b
           /\ 2 * a <= 2 * (b * RoundDiv(a, b)) + b
<1> DEFINE m == 2 * a + b
           n == 2 * b
           q == m \div n
<1>1. m \in Nat /\ n \in Nat \ {0}
  OBVIOUS
<1>2. q \in Nat /\ n * q <= m /\ m < n * q + n
  <2> HIDE DEF m, n
  <2> QED
    BY <1>1, Division
<1>3. n * q = 2 * (b * q)
  <2> HIDE DEF q
  <2> QED
    BY <1>2
<1>4. RoundDiv(a, b) = q
  BY DEF RoundDiv
<1> HIDE DEF q
<1>5. b * q \in Nat
  BY <1>2
<1> QED
  BY <1>2, <1>3, <1>4, <1>5

\* A positive factor can be cancelled from an inequality.
LEMMA Cancels ==
    ASSUME NEW a \in Int, NEW b \in Int, NEW c \in Nat \ {0}, c * a <= c * b
    PROVE  a <= b
OBVIOUS

\* The fee is no more than the gross profit, so that there is a part for the
\* investors, if only of nothing.
LEMMA PartIsAmount ==
    ASSUME NEW g \in Nat \ {0}
    PROVE  InvestorProfit(g) \in Nat
<1> DEFINE m == Multiply(g, FeePercent)
           fee == Fees(g)
<1>0. /\ Scale \in Nat \ {0} /\ FeePercent \in Nat /\ InvestorPercent \in Nat
      /\ FeePercent <= 50 * Scale /\ 100 * Scale \in Nat \ {0}
  BY ShareAssumption
<1>1. g * FeePercent \in Nat /\ g * FeePercent <= 50 * (Scale * g)
  <2>1. g * (50 * Scale - FeePercent) >= 0
    BY <1>0
  <2>2. g * (50 * Scale - FeePercent) = 50 * (Scale * g) - g * FeePercent
    BY <1>0
  <2>3. g * FeePercent \in Nat /\ Scale * g \in Nat
    BY <1>0
  <2> QED
    BY <2>1, <2>2, <2>3
<1>2. m \in Nat /\ 2 * (Scale * m) <= 2 * (g * FeePercent) + Scale
  BY <1>0, <1>1, RoundedIsNear DEF Multiply
<1> HIDE DEF m
<1>3. Scale * (2 * m) <= Scale * (100 * g + 1)
  <2>1. Scale * (2 * m) = 2 * (Scale * m) /\ Scale * (100 * g + 1) = 100 * (Scale * g) + Scale
    BY <1>0, <1>2
  <2>2. Scale * m \in Nat /\ Scale * g \in Nat
    BY <1>0, <1>2
  <2> QED
    BY <1>0, <1>1, <1>2, <2>1, <2>2
<1>4. 2 * m <= 100 * g + 1
  BY <1>0, <1>2, <1>3, Cancels
<1>5. m * Scale \in Nat
  BY <1>0, <1>2
<1>6. /\ fee = RoundDiv(m * Scale, 100 * Scale)
      /\ fee \in Nat /\ 2 * ((100 * Scale) * fee) <= 2 * (m * Scale) + 100 * Scale
  BY <1>0, <1>5, RoundedIsNear DEF m, Fees, PercentOf, Divide
<1> HIDE DEF fee
<1>7. Scale * (200 * fee) <= Scale * (2 * m + 100)
  BY <1>0, <1>2, <1>6
<1>8. 200 * fee <= 2 * m + 100
  BY <1>0, <1>2, <1>6, <1>7, Cancels
<1>9. fee <= g
  BY <1>2, <1>4, <1>6, <1>8
<1>10. Distributable(g) \in Nat
  BY <1>6, <1>9 DEF Distributable, fee
<1>11. Distributable(g) * InvestorPercent \in Nat
  BY <1>0, <1>10
<1>12. Multiply(Distributable(g), InvestorPercent) \in Nat
  BY <1>0, <1>11, RoundedIsNear DEF Multiply
<1>13. Multiply(Distributable(g), InvestorPercent) * Scale \in Nat
  BY <1>0, <1>12
<1> QED
  BY <1>0, <1>13, RoundedIsNear DEF InvestorProfit, PercentOf, Divide

\* What the investors are paid together, and their part of the profit.
LEMMA AllocationsAddUp ==
    ASSUME NEW g \in Nat \ {0}, DOMAIN Holding # {}
    PROVE  2 * Scale * Distance(Allocated(g, Holding), InvestorProfit(g))
              <= Cardinality(DOMAIN Holding) * (InvestorProfit(g) + Scale)
<1> DEFINE D == DOMAIN Holding
           n == Cardinality(D)
           part == InvestorProfit(g)
           all == Invested(Holding)
           f == [x \in D |-> ShareFactor(Holding, x)]
           a == [x \in D |-> Allocation(g, Holding, x)]
           F == SumFunctionOnSet(f, D)
           A == SumFunctionOnSet(a, D)
<1>0. Scale \in Nat \ {0}
  BY ShareAssumption
<1>1. IsFiniteSet(D) /\ n \in Nat /\ \A x \in D : Holding[x] \in Nat \ {0}
  BY ProfitAssumption, FS_CardinalityType
<1>2. part \in Nat
  BY PartIsAmount
<1>3. all = SumFunctionOnSet(Holding, D) /\ all \in Nat \ {0}
  <2>1. all = SumFunctionOnSet(Holding, D)
    BY DEF Invested, SumFunction
  <2>2. all \in Nat /\ \A x \in D : Holding[x] <= all
    <3> HIDE DEF D
    <3> QED
      BY <1>1, <2>1, SumOfNaturals
  <2> QED
    BY <1>1, <2>1, <2>2
<1>4. Allocated(g, Holding) = A
  BY DEF Allocated, SumFunction
<1> HIDE DEF D, n, part, all
<1>5. ASSUME NEW x \in D
      PROVE  /\ f[x] \in Nat /\ a[x] \in Nat
             /\ f[x] * (2 * all) - Holding[x] * (2 * Scale) <= all
             /\ Holding[x] * (2 * Scale) - f[x] * (2 * all) <= all
             /\ a[x] * (2 * Scale) - f[x] * (2 * part) <= Scale
             /\ f[x] * (2 * part) - a[x] * (2 * Scale) <= Scale
  <2> DEFINE k == f[x]
             l == a[x]
             h == Holding[x]
  <2>1. k = RoundDiv(h * Scale, all) /\ h \in Nat
    BY <1>1, <1>5 DEF ShareFactor, Divide, all
  <2>2. l = RoundDiv(part * k, Scale)
    BY <1>5 DEF Allocation, Multiply, part
  <2> HIDE DEF k, l, h
  <2>3. h * Scale \in Nat
    BY <1>0, <2>1
  <2>4. /\ k \in Nat
        /\ 2 * (all * k) <= 2 * (h * Scale) + all
        /\ 2 * (h * Scale) <= 2 * (all * k) + all
    BY <1>3, <2>1, <2>3, RoundedIsNear
  <2>5. part * k \in Nat
    BY <1>2, <2>4
  <2>6. /\ l \in Nat
        /\ 2 * (Scale * l) <= 2 * (part * k) + Scale
        /\ 2 * (part * k) <= 2 * (Scale * l) + Scale
    BY <1>0, <2>2, <2>5, RoundedIsNear
  <2>7. /\ 2 * (all * k) = k * (2 * all) /\ 2 * (h * Scale) = h * (2 * Scale)
        /\ 2 * (Scale * l) = l * (2 * Scale) /\ 2 * (part * k) = k * (2 * part)
    BY <1>0, <1>2, <1>3, <2>1, <2>4, <2>6
  <2>8. /\ k * (2 * all) \in Int /\ h * (2 * Scale) \in Int
        /\ l * (2 * Scale) \in Int /\ k * (2 * part) \in Int
    BY <1>0, <1>2, <1>3, <2>1, <2>4, <2>6
  <2>9. /\ k * (2 * all) - h * (2 * Scale) <= all
        /\ h * (2 * Scale) - k * (2 * all) <= all
    BY <1>0, <1>3, <2>4, <2>7, <2>8
  <2>10. /\ l * (2 * Scale) - k * (2 * part) <= Scale
         /\ k * (2 * part) - l * (2 * Scale) <= Scale
    BY <1>0, <1>2, <2>6, <2>7, <2>8
  <2> QED
    BY <2>4, <2>6, <2>9, <2>10 DEF k, l, h
<1> HIDE DEF f, a
<1>6. /\ F * (2 * all) - all * (2 * Scale) <= n * all
      /\ all * (2 * Scale) - F * (2 * all) <= n * all
  <2>1. 2 * all \in Int /\ 2 * Scale \in Int /\ all \in Int
    BY <1>0, <1>3
  <2>2. \A x \in D : f[x] \in Int /\ Holding[x] \in Int
    BY <1>1, <1>5
  <2> QED
    BY <1>1, <1>3, <1>5, <2>1, <2>2, SumClose DEF n
<1>7. /\ A * (2 * Scale) - F * (2 * part) <= n * Scale
      /\ F * (2 * part) - A * (2 * Scale) <= n * Scale
  <2>1. 2 * part \in Int /\ 2 * Scale \in Int /\ Scale \in Int
    BY <1>0, <1>2
  <2>2. \A x \in D : f[x] \in Int /\ a[x] \in Int
    BY <1>5
  <2> QED
    BY <1>1, <1>5, <2>1, <2>2, SumClose DEF n
<1>8. F \in Nat /\ A \in Nat
  BY <1>1, <1>5, SumOfNaturals
<1> HIDE DEF F, A
<1>9. 2 * F - 2 * Scale <= n /\ 2 * Scale - 2 * F <= n
  <2>1. /\ F * (2 * all) - all * (2 * Scale) = all * (2 * F - 2 * Scale)
        /\ all * (2 * Scale) - F * (2 * all) = all * (2 * Scale - 2 * F)
        /\ n * all = all * n
    BY <1>0, <1>1, <1>3, <1>8
  <2>2. 2 * F - 2 * Scale \in Int /\ 2 * Scale - 2 * F \in Int /\ n \in Int
    BY <1>0, <1>1, <1>8
  <2> QED
    BY <1>3, <1>6, <2>1, <2>2, Cancels
<1>10. /\ F * (2 * part) - part * (2 * Scale) <= n * part
       /\ part * (2 * Scale) - F * (2 * part) <= n * part
  <2>1. /\ part * (n - (2 * F - 2 * Scale)) >= 0
        /\ part * (n - (2 * Scale - 2 * F)) >= 0
    BY <1>0, <1>1, <1>2, <1>8, <1>9
  <2>2. /\ part * (n - (2 * F - 2 * Scale)) = n * part - (F * (2 * part) - part * (2 * Scale))
        /\ part * (n - (2 * Scale - 2 * F)) = n * part - (part * (2 * Scale) - F * (2 * part))
    BY <1>0, <1>1, <1>2, <1>8
  <2>3. n * part \in Int /\ F * (2 * part) \in Int /\ part * (2 * Scale) \in Int
    BY <1>0, <1>1, <1>2, <1>8
  <2> QED
    BY <2>1, <2>2, <2>3
<1>11. /\ A * (2 * Scale) - part * (2 * Scale) <= n * Scale + n * part
       /\ part * (2 * Scale) - A * (2 * Scale) <= n * Scale + n * part
  <2>1. /\ A * (2 * Scale) \in Int /\ part * (2 * Scale) \in Int /\ F * (2 * part) \in Int
        /\ n * Scale \in Int /\ n * part \in Int
    BY <1>0, <1>1, <1>2, <1>8
  <2> QED
    BY <1>7, <1>10, <2>1
<1>12. 2 * Scale * Distance(A, part) <= n * (part + Scale)
  <2>1. /\ 2 * Scale * (A - part) = A * (2 * Scale) - part * (2 * Scale)
        /\ 2 * Scale * (part - A) = part * (2 * Scale) - A * (2 * Scale)
        /\ n * (part + Scale) = n * Scale + n * part
    BY <1>0, <1>1, <1>2, <1>8
  <2>2. Distance(A, part) \in {A - part, part - A}
    BY DEF Distance
  <2> QED
    BY <1>11, <2>1, <2>2
<1> QED
  BY <1>4, <1>12 DEF D, n, part


(***************************************************************************)
(* Calculations.  One is only made of a statement that shows a profit and  *)
(* that the ledger takes.                                                  *)
(***************************************************************************)
Profitable(s) == Gross(s) > 0 /\ Postable(s.revenue, s.expenses)
MadeOfProfit == \A c \in Made : Profitable(calculation[c])

LEMMA StepMakesOfProfit ==
    ASSUME IInv, MadeOfProfit, [Next]_vars
    PROVE  MadeOfProfit'
<1>1. CASE UNCHANGED calculation
  BY <1>1 DEF MadeOfProfit, Made
<1>2. ASSUME NEW w \in Workers, CalculateWrite(w)
      PROVE  MadeOfProfit'
  <2> DEFINE s == task[w].from
             k == task[w].id
  <2>1. CASE calculation' = [calculation EXCEPT ![k] = s] /\ Postable(s.revenue, s.expenses)
    <3>1. Gross(s) > 0
      BY <1>2 DEF IInv, Knows, CalculateWrite, At
    <3>2. calculation \in [Calculations -> Statements \cup {NoCalculation}]
      BY DEF IInv, TypeOK, ProfitTypeOK
    <3>3. \A c \in Calculations : calculation'[c] = calculation[c] \/ calculation'[c] = s
      BY <2>1, <3>2
    <3> HIDE DEF s, k
    <3> QED
      BY <2>1, <3>1, <3>3 DEF MadeOfProfit, Made, Profitable
  <2>2. CASE UNCHANGED calculation
    BY <1>1, <2>2
  <2> QED
    BY <1>2, <2>1, <2>2 DEF CalculateWrite
<1>3. UNCHANGED calculation \/ \E w \in Workers : CalculateWrite(w)
  <2>1. CASE ProfitStep
    BY <2>1 DEF ProfitStep, ApproveCalculation, CalculateRead, DistributeRead, PayDistribution,
       PostDistribution, MarkDistribution, SettleDeal, CloseRead, CloseWrite, profitVars
  <2>2. CASE ~ProfitStep
    BY <2>2 DEF Next, Die, vars, profitVars
  <2> QED
    BY <2>1, <2>2
<1> QED
  BY <1>1, <1>2, <1>3

\* calculateProfit: whatever the statement, the percentages and the holdings,
\* the fee and the two parts are the gross profit, and the investors are paid
\* their part but for the rounding.
THEOREM ProfitAlwaysAddsUp == Spec => []ProfitAddsUp
<1>1. IInv /\ MadeOfProfit => ProfitAddsUp
  <2> SUFFICES ASSUME IInv, MadeOfProfit, NEW c \in Made
               PROVE  LET gross == Gross(calculation[c])
                          part == InvestorProfit(gross)
                      IN  /\ Fees(gross) + part + FarmerProfit(gross) = gross
                          /\ DOMAIN Holding # {} =>
                                2 * Scale * Distance(Allocated(gross, Holding), part)
                                   <= Cardinality(DOMAIN Holding) * (part + Scale)
    BY DEF ProfitAddsUp
  <2> DEFINE s == calculation[c]
             gross == Gross(s)
             parts == <<Fees(gross), InvestorProfit(gross), FarmerProfit(gross)>>
  <2>1. s \in Statements /\ Profitable(s)
    BY DEF IInv, TypeOK, ProfitTypeOK, Made, MadeOfProfit
  <2>2. gross \in Nat \ {0}
    <3>1. s.revenue \in Nat /\ s.expenses \in Nat
      BY <2>1, ProfitAssumption
    <3> QED
      BY <2>1, <3>1 DEF Profitable, Gross
  <2>3. parts[1] + parts[2] + parts[3] = gross
    BY <2>1 DEF Profitable, Postable, Gross
  <2>4. Fees(gross) + InvestorProfit(gross) + FarmerProfit(gross) = gross
    <3> HIDE DEF gross
    <3> QED
      BY <2>3
  <2> QED
    BY <2>2, <2>4, AllocationsAddUp
<1>2. Init => MadeOfProfit
  BY DEF Init, ProfitInit, MadeOfProfit, Made
<1>3. IInv /\ MadeOfProfit /\ [Next]_vars => MadeOfProfit'
  BY StepMakesOfProfit
<1> QED
  BY <1>1, <1>2, <1>3, Invariance, PTL DEF Spec

=============================================================================
