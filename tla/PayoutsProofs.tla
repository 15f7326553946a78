--------------------------- MODULE PayoutsProofs ---------------------------
(***************************************************************************)
(* What holds of Payouts for any settlements, withdrawals, calculations,   *)
(* amounts, number of requests and faults, however the requests overlap:   *)
(* nobody is paid before the escrow account was drawn on, and a deal that  *)
(* is SETTLED has paid everybody of some calculation.                      *)
(***************************************************************************)
EXTENDS Payouts, TLAPS

Account == [balance : Nat, locked : Nat,
            status : {"ACTIVE", "LOCKED", "PARTIALLY_RELEASED", "FULLY_RELEASED",
                      "REFUNDED"}]

\* What a worker has in hand, by operation and how far it is.
Approving == [op : {"approve"}, pc : {"write"}, id : Settlements]
Processing == [op : {"process"}, pc : {"mark", "check", "fail"}, id : Settlements]
Releasing == [op : {"process"}, pc : {"move", "pay", "complete", "fail"},
              id : Settlements, seen : Account]
Depositing == [op : {"deposit"}, pc : {"write"}, id : Deposits, seen : Account]
Locking == [op : {"lock"}, pc : {"write"}, seen : Account]
Reviewing == [op : {"review"}, pc : {"write"}, id : Withdrawals,
              as : {"APPROVED", "REJECTED"}]
Withdrawing == [op : {"withdraw"}, pc : {"check", "pay"}, id : Withdrawals]
Calculating == [op : {"calculate"}, pc : {"write"}, id : Calculations, from : Statements]
Distributing == [op : {"distribute"}, pc : {"next"}, id : Calculations,
                 todo : SUBSET Distributions]
Paying == [op : {"distribute"}, pc : {"post", "mark"}, id : Calculations,
           todo : SUBSET Distributions, now : Distributions]
Closing == [op : {"close"}, pc : {"write"}]

InHand == {None} \cup Approving \cup Processing \cup Releasing \cup Depositing
          \cup Locking \cup Reviewing \cup Withdrawing \cup Calculating
          \cup Distributing \cup Paying \cup Closing

\* What a request knows where it stands.
Knows(w) ==
    LET t == task[w] IN
    /\ t \in Releasing =>
          /\ t.pc = "move" => AmountOf[t.id] <= Available(t.seen)
          /\ t.pc \in {"pay", "complete"} => moved[t.id] > 0
    /\ t.op = "distribute" =>
          /\ t.id \in approved
          /\ Pending(t.id) \subseteq t.todo
    /\ t \in Paying =>
          /\ PaymentKey(t.now) \in payments
          /\ t.pc = "mark" => LedgerKey(t.now) \in posted
    /\ t.op = "calculate" => Gross(t.from) > 0
    /\ t.op = "close" => deal # "ACTIVE"

IInv ==
    /\ TypeOK
    /\ task \in [Workers -> InHand]
    /\ \A w \in Workers : Knows(w)
    /\ PayoutFollowsRelease
    /\ SettledDealIsDistributed

data == <<settlementVars, withdrawalVars, profitVars, books>>

\* What no step takes back.
Onward ==
    /\ \A s \in Settlements : moved[s] > 0 => moved'[s] > 0
    /\ posted \subseteq posted'
    /\ payments \subseteq payments'
    /\ approved \subseteq approved'
    /\ distributed \subseteq distributed'
    /\ deal # "ACTIVE" => deal' # "ACTIVE"

\* Only the worker w has moved.
Alone(w) ==
    /\ task' \in [Workers -> InHand]
    /\ \A v \in Workers \ {w} : task'[v] = task[v]

LEMMA OperationTells ==
    ASSUME NEW t \in InHand
    PROVE  /\ t.op = "none" => t = None
           /\ t.op = "approve" => t \in Approving
           /\ t.op = "process" => t \in Processing \/ t \in Releasing
           /\ t.op = "deposit" => t \in Depositing
           /\ t.op = "lock" => t \in Locking
           /\ t.op = "review" => t \in Reviewing
           /\ t.op = "withdraw" => t \in Withdrawing
           /\ t.op = "calculate" => t \in Calculating
           /\ t.op = "distribute" => t \in Distributing \/ t \in Paying
           /\ t.op = "close" => t \in Closing
  BY DEF InHand, None, Approving, Processing, Releasing, Depositing, Locking, Reviewing,
         Withdrawing, Calculating, Distributing, Paying, Closing

LEMMA OnlyOneMoves ==
    ASSUME task \in [Workers -> InHand], NEW w \in Workers, NEW t \in InHand,
           task' = [task EXCEPT ![w] = t]
    PROVE  Alone(w) /\ task'[w] = t
  BY DEF Alone

LEMMA NoneKnows ==
    ASSUME NEW w, task'[w] = None
    PROVE  Knows(w)'
  BY DEF Knows, None, Releasing, Paying

LEMMA OthersKnow ==
    ASSUME IInv, Onward, NEW w \in Workers, Alone(w), Knows(w)'
    PROVE  \A v \in Workers : Knows(v)'
<1>. SUFFICES ASSUME NEW v \in Workers \ {w} PROVE Knows(v)'
  OBVIOUS
<1>1. task'[v] = task[v] /\ task[v] \in InHand /\ Knows(v)
  BY DEF IInv, Alone
<1>2. task[v] \in Releasing => task[v].id \in Settlements
  BY DEF Releasing
<1>3. task[v].op = "distribute" => Pending(task[v].id)' \subseteq Pending(task[v].id)
  BY <1>1 DEF Pending, Onward
<1>. QED BY <1>1, <1>2, <1>3 DEF Knows, Onward

LEMMA StepPreserves ==
    ASSUME IInv, NEW w \in Workers, Alone(w), Onward, Knows(w)', TypeOK',
           PayoutFollowsRelease', SettledDealIsDistributed'
    PROVE  IInv'
  BY OthersKnow DEF IInv, Alone

\* A step that writes nothing but what the worker has in hand.
LEMMA QuietStep ==
    ASSUME IInv, NEW w \in Workers, Alone(w), UNCHANGED data, Knows(w)'
    PROVE  IInv'
<1>. USE DEF data, settlementVars, withdrawalVars, profitVars, books
<1>1. Onward
  BY DEF Onward
<1>2. TypeOK'
  BY DEF IInv, TypeOK, SettlementTypeOK, WithdrawalTypeOK, ProfitTypeOK
<1>3. PayoutFollowsRelease'
  BY DEF IInv, PayoutFollowsRelease
<1>4. SettledDealIsDistributed'
  BY DEF IInv, SettledDealIsDistributed, Pending
<1>. QED BY <1>1, <1>2, <1>3, <1>4, StepPreserves

\* The keys of one service are not those of another.
LEMMA KeysApart ==
    /\ \A s, r : EscrowKey(s) = EscrowKey(r) => s = r
    /\ \A s, r : PayoutKey(s) = PayoutKey(r) => s = r
    /\ \A d, e : LedgerKey(d) = LedgerKey(e) => d = e
    /\ \A s, d, x : /\ EscrowKey(s) # LedgerKey(d)
                    /\ EscrowKey(s) # WithdrawalKey(x)
                    /\ LedgerKey(d) # WithdrawalKey(x)
                    /\ PayoutKey(s) # PaymentKey(d)
                    /\ PayoutKey(s) # WithdrawalPayment(x)
  BY DEF EscrowKey, PayoutKey, LedgerKey, PaymentKey, WithdrawalKey, WithdrawalPayment

LEMMA DistributionsApart ==
    ASSUME SettledDealIsDistributed, UNCHANGED profitVars, payments \subseteq payments',
           \A d \in Distributions : LedgerKey(d) \in posted' <=> LedgerKey(d) \in posted,
           distributed \subseteq Distributions
    PROVE  SettledDealIsDistributed'
  BY DEF SettledDealIsDistributed, Pending, profitVars

LEMMA SettlementsApart ==
    ASSUME PayoutFollowsRelease, UNCHANGED settlementVars,
           \A s \in Settlements : PayoutKey(s) \in payments' <=> PayoutKey(s) \in payments,
           \A s \in Settlements : EscrowKey(s) \in posted' <=> EscrowKey(s) \in posted
    PROVE  PayoutFollowsRelease'
  BY DEF PayoutFollowsRelease, settlementVars

\* A request begins, with t in hand.
LEMMA BeginPreserves ==
    ASSUME IInv, NEW w \in Workers, NEW t \in InHand, Begin(w, t), UNCHANGED data,
           task'[w] = t => Knows(w)'
    PROVE  IInv'
<1>1. Alone(w) /\ task'[w] = t
  BY OnlyOneMoves DEF IInv, Begin
<1>. QED BY <1>1, QuietStep

LEMMA FinishPreserves ==
    ASSUME IInv, NEW w \in Workers, task' = [task EXCEPT ![w] = None], UNCHANGED data
    PROVE  IInv'
<1>1. Alone(w) /\ task'[w] = None
  BY OnlyOneMoves DEF IInv, InHand
<1>. QED BY <1>1, QuietStep, NoneKnows

----------------------------------------------------------------------------
(***************************************************************************)
(* SettlementsService and EscrowService.                                   *)
(***************************************************************************)
\* A status other than COMPLETED is written, and the request ends or goes on.
LEMMA StatusPreserves ==
    ASSUME IInv, NEW s \in Settlements, NEW status \in {"PENDING", "APPROVED", "PROCESSING", "FAILED"},
           SetStatus(s, status), UNCHANGED <<escrow, moved, books, withdrawalVars, profitVars>>
    PROVE  Onward /\ TypeOK' /\ PayoutFollowsRelease' /\ SettledDealIsDistributed'
<1>. USE DEF books, withdrawalVars, profitVars
<1>1. /\ Onward
      /\ \A r \in Settlements : settlement'[r] = "COMPLETED" => settlement[r] = "COMPLETED"
  BY DEF IInv, TypeOK, SettlementTypeOK, SetStatus, Onward
<1>2. TypeOK'
  BY DEF IInv, TypeOK, SettlementTypeOK, WithdrawalTypeOK, ProfitTypeOK, SetStatus
<1>3. PayoutFollowsRelease'
  BY <1>1 DEF IInv, PayoutFollowsRelease
<1>4. SettledDealIsDistributed'
  BY DEF IInv, SettledDealIsDistributed, Pending
<1>. QED BY <1>1, <1>2, <1>3, <1>4

LEMMA CreateSettlementPreserves ==
    ASSUME IInv, NEW s \in Settlements, CreateSettlement(s),
           UNCHANGED <<withdrawalVars, profitVars>>
    PROVE  IInv'
<1>1. Onward /\ TypeOK' /\ PayoutFollowsRelease' /\ SettledDealIsDistributed'
  BY StatusPreserves DEF CreateSettlement
<1>2. \A w \in Workers : Alone(w)
  BY DEF IInv, Alone, CreateSettlement, requestVars
<1>3. \A w \in Workers : Knows(w)'
  BY DEF IInv, Knows, CreateSettlement, requestVars, books, profitVars, Pending
<1>. QED BY <1>1, <1>3 DEF IInv, CreateSettlement, requestVars

LEMMA ApprovePreserves ==
    ASSUME IInv, NEW w \in Workers, UNCHANGED <<withdrawalVars, profitVars>>,
           (\E s \in Settlements : ApproveRead(w, s)) \/ ApproveWrite(w)
    PROVE  IInv'
<1>1. ASSUME NEW s \in Settlements, ApproveRead(w, s) PROVE IInv'
  <2>. DEFINE t == [op |-> "approve", pc |-> "write", id |-> s]
  <2>1. t \in InHand
    BY DEF InHand, Approving
  <2>2. task'[w] = t => Knows(w)'
    BY DEF Knows, Releasing, Paying
  <2>. QED BY <1>1, <2>1, <2>2, BeginPreserves DEF ApproveRead, data
<1>2. CASE ApproveWrite(w)
  <2>1. task[w].id \in Settlements
    BY <1>2, OperationTells DEF IInv, ApproveWrite, At, Approving
  <2>2. Onward /\ TypeOK' /\ PayoutFollowsRelease' /\ SettledDealIsDistributed'
    BY <1>2, <2>1, StatusPreserves DEF ApproveWrite
  <2>3. Alone(w) /\ task'[w] = None
    BY <1>2, OnlyOneMoves DEF IInv, InHand, ApproveWrite, Finish, Continue
  <2>. QED BY <2>2, <2>3, NoneKnows, StepPreserves
<1>. QED BY <1>1, <1>2

LEMMA ProcessReadPreserves ==
    ASSUME IInv, NEW w \in Workers, NEW s \in Settlements, ProcessRead(w, s),
           UNCHANGED <<withdrawalVars, profitVars>>
    PROVE  IInv'
<1>. DEFINE t == [op |-> "process", pc |-> "mark", id |-> s]
<1>1. t \in InHand
  BY DEF InHand, Processing
<1>2. task'[w] = t => Knows(w)'
  BY DEF Knows, Releasing, Paying
<1>. QED BY <1>1, <1>2, BeginPreserves DEF ProcessRead, data

LEMMA MarkProcessingPreserves ==
    ASSUME IInv, NEW w \in Workers, MarkProcessing(w),
           UNCHANGED <<withdrawalVars, profitVars>>
    PROVE  IInv'
<1>. DEFINE t == [task[w] EXCEPT !.pc = "check"]
<1>1. task[w] \in Processing
  BY OperationTells DEF IInv, MarkProcessing, At, Releasing
<1>2. t \in Processing /\ t \in InHand /\ t.op = "process" /\ t.pc = "check"
  BY <1>1 DEF Processing, InHand
<1>3. Alone(w) /\ task'[w] = t
  BY <1>2, OnlyOneMoves DEF IInv, MarkProcessing, Goto, Continue
<1>4. Knows(w)'
  <2>. HIDE DEF t
  <2>. QED BY <1>2, <1>3 DEF Knows, Releasing, Paying
<1>5. Onward /\ TypeOK' /\ PayoutFollowsRelease' /\ SettledDealIsDistributed'
  BY <1>1, StatusPreserves DEF MarkProcessing, Processing
<1>. QED BY <1>3, <1>4, <1>5, StepPreserves

LEMMA CheckEscrowPreserves ==
    ASSUME IInv, NEW w \in Workers, CheckEscrow(w),
           UNCHANGED <<withdrawalVars, profitVars>>
    PROVE  IInv'
<1>1. task[w] \in Processing
  BY OperationTells DEF IInv, CheckEscrow, At, Releasing
<1>2. PICK covered \in BOOLEAN :
        /\ covered => AmountOf[task[w].id] <= Available(escrow)
        /\ task' = [task EXCEPT ![w] =
              [op |-> "process", id |-> task[w].id, seen |-> escrow,
               pc |-> IF covered THEN "move" ELSE "fail"]]
  BY DEF CheckEscrow, Continue, Covered
<1>. DEFINE t == [op |-> "process", id |-> task[w].id, seen |-> escrow,
                  pc |-> IF covered THEN "move" ELSE "fail"]
<1>3. /\ t \in InHand
      /\ t.op = "process" /\ t.id = task[w].id /\ t.seen = escrow
      /\ t.pc = IF covered THEN "move" ELSE "fail"
  BY <1>1 DEF IInv, TypeOK, SettlementTypeOK, InHand, Processing, Releasing, Account
<1>4. Alone(w) /\ task'[w] = t
  BY <1>2, <1>3, OnlyOneMoves DEF IInv
<1>5. Knows(w)'
  <2>. HIDE DEF t
  <2>1. task'[w].op = "process" /\ task'[w] \notin Paying
    BY <1>3, <1>4 DEF Paying
  <2>2. CASE covered
    <3>1. /\ task'[w].pc = "move" /\ task'[w].id = task[w].id /\ task'[w].seen = escrow
          /\ AmountOf[task[w].id] <= Available(escrow)
      BY <1>2, <1>3, <1>4, <2>2
    <3>. QED BY <2>1, <3>1 DEF Knows, Available
  <2>3. CASE ~ covered
    BY <1>3, <1>4, <2>1, <2>3 DEF Knows
  <2>. QED BY <2>2, <2>3
<1>. QED BY <1>4, <1>5, QuietStep DEF CheckEscrow, data

\* What release, refund and deductFee write is an account, as they checked the
\* amount against what was available.
LEMMA DrawnIsAccount ==
    ASSUME escrow \in Account, NEW seen \in Account, NEW type, NEW amount \in Nat,
           amount <= Available(seen)
    PROVE  Drawn(seen, type, amount) \in Account
<1>1. /\ seen.balance - amount \in Nat
      /\ (IF seen.locked - amount > 0 THEN seen.locked - amount ELSE 0) \in Nat
  BY DEF Account, Available
<1>2. CASE type = "PLATFORM_FEE"
  BY <1>1, <1>2 DEF Drawn, Account
<1>3. CASE type # "PLATFORM_FEE"
  <2>. DEFINE balance == seen.balance - amount
              status == CASE balance # 0 -> "PARTIALLY_RELEASED"
                          [] balance = 0 /\ type = "REFUND" -> "REFUNDED"
                          [] balance = 0 /\ type # "REFUND" -> "FULLY_RELEASED"
  <2>1. status \in {"PARTIALLY_RELEASED", "FULLY_RELEASED", "REFUNDED"}
    OBVIOUS
  <2>2. Drawn(seen, type, amount) =
          [balance |-> balance,
           locked |-> IF seen.locked - amount > 0 THEN seen.locked - amount ELSE 0,
           status |-> status]
    BY <1>3 DEF Drawn
  <2>. HIDE DEF status
  <2>. QED BY <1>1, <2>1, <2>2 DEF Account
<1>. QED BY <1>2, <1>3

LEMMA MoveEscrowPreserves ==
    ASSUME IInv, NEW w \in Workers, MoveEscrow(w),
           UNCHANGED <<withdrawalVars, profitVars>>
    PROVE  IInv'
<1>1. PICK s \in Settlements : s = task[w].id
  BY OperationTells DEF IInv, MoveEscrow, At, Processing, Releasing
<1>2. /\ task[w] \in Releasing
      /\ AmountOf[s] <= Available(task[w].seen)
      /\ AmountOf[s] \in Nat
  BY <1>1, OperationTells, SettlementAssumption
  DEF IInv, MoveEscrow, At, Processing, Releasing, Knows
<1>3. CASE Refused(EscrowKey(s), AmountOf[s])
  <2>. DEFINE t == [task[w] EXCEPT !.pc = "fail"]
  <2>1. t \in InHand /\ t.pc = "fail" /\ t.op = "process"
    BY <1>2 DEF InHand, Releasing
  <2>2. Alone(w) /\ task'[w] = t
    BY <1>1, <1>3, <2>1, OnlyOneMoves DEF IInv, MoveEscrow, Goto, Continue
  <2>. HIDE DEF t
  <2>3. Knows(w)'
    BY <2>1, <2>2 DEF Knows, Paying
  <2>. QED BY <1>1, <1>3, <2>2, <2>3, QuietStep
       DEF MoveEscrow, data, settlementVars, books
<1>4. CASE ~ Refused(EscrowKey(s), AmountOf[s])
  <2>. DEFINE t == [task[w] EXCEPT !.pc = "pay"]
  <2>1. t \in InHand /\ t.pc = "pay" /\ t.op = "process" /\ t.id = s
    BY <1>1, <1>2 DEF InHand, Releasing
  <2>2. /\ escrow' = Drawn(task[w].seen, TypeOf[s], AmountOf[s])
        /\ moved' = [moved EXCEPT ![s] = @ + 1]
        /\ posted' = posted \cup {EscrowKey(s)}
        /\ UNCHANGED <<settlement, payments>>
        /\ task' = [task EXCEPT ![w] = t]
    BY <1>1, <1>4 DEF MoveEscrow, Post, Goto, Continue
  <2>3. Alone(w) /\ task'[w] = t
    BY <2>1, <2>2, OnlyOneMoves DEF IInv
  <2>4. /\ moved' \in [Settlements \cup Deposits -> Nat]
        /\ moved'[s] > 0
        /\ \A r \in Settlements \ {s} : moved'[r] = moved[r]
    BY <2>2 DEF IInv, TypeOK, SettlementTypeOK
  <2>5. escrow' \in Account
    <3>1. task[w].seen \in Account /\ escrow \in Account
      BY <1>2 DEF Releasing, IInv, TypeOK, SettlementTypeOK, Account
    <3>. QED BY <1>2, <2>2, <3>1, DrawnIsAccount
  <2>6. Onward
    BY <2>2, <2>4 DEF Onward, profitVars
  <2>7. TypeOK'
    BY <2>2, <2>4, <2>5 DEF IInv, TypeOK, SettlementTypeOK, WithdrawalTypeOK, ProfitTypeOK,
      Account, withdrawalVars, profitVars
  <2>8. Knows(w)'
    <3>. HIDE DEF t
    <3>. QED BY <2>1, <2>3, <2>4 DEF Knows, Paying
  <2>9. PayoutFollowsRelease'
    BY <2>2, <2>4, KeysApart DEF IInv, PayoutFollowsRelease
  <2>10. SettledDealIsDistributed'
    BY <2>2, KeysApart, DistributionsApart DEF IInv, TypeOK, ProfitTypeOK
  <2>. QED BY <2>3, <2>6, <2>7, <2>8, <2>9, <2>10, StepPreserves
<1>. QED BY <1>3, <1>4

LEMMA PayOutPreserves ==
    ASSUME IInv, NEW w \in Workers, PayOut(w), UNCHANGED <<withdrawalVars, profitVars>>
    PROVE  IInv'
<1>1. PICK s \in Settlements, pc \in {"fail", "complete"} :
        /\ s = task[w].id
        /\ task' = [task EXCEPT ![w] = [task[w] EXCEPT !.pc = pc]]
        /\ payments' \subseteq payments \cup {PayoutKey(s)}
        /\ payments \subseteq payments'
        /\ UNCHANGED <<settlementVars, posted>>
  <2>1. PICK s \in Settlements : s = task[w].id
    BY OperationTells DEF IInv, PayOut, At, Processing, Releasing
  <2>2. PICK pc \in {"fail", "complete"} :
          task' = [task EXCEPT ![w] = [task[w] EXCEPT !.pc = pc]]
    BY DEF PayOut, Goto, Continue
  <2>3. payments' \subseteq payments \cup {PayoutKey(s)} /\ payments \subseteq payments'
    BY <2>1 DEF PayOut
  <2>. QED BY <2>1, <2>2, <2>3 DEF PayOut
<1>2. task[w] \in Releasing /\ moved[s] > 0
  BY <1>1, OperationTells DEF IInv, PayOut, At, Processing, Releasing, Knows
<1>. DEFINE t == [task[w] EXCEPT !.pc = pc]
<1>3. t \in InHand /\ t.pc = pc /\ t.op = "process" /\ t.id = s
  BY <1>1, <1>2 DEF InHand, Releasing
<1>4. Alone(w) /\ task'[w] = t
  BY <1>1, <1>3, OnlyOneMoves DEF IInv
<1>5. Onward
  BY <1>1 DEF Onward, settlementVars, profitVars
<1>6. TypeOK'
  BY <1>1 DEF IInv, TypeOK, SettlementTypeOK, WithdrawalTypeOK, ProfitTypeOK,
    settlementVars, withdrawalVars, profitVars
<1>7. Knows(w)'
  <2>. HIDE DEF t
  <2>. QED BY <1>1, <1>2, <1>3, <1>4 DEF Knows, Paying, settlementVars
<1>8. PayoutFollowsRelease'
  BY <1>1, <1>2, KeysApart DEF IInv, PayoutFollowsRelease, settlementVars
<1>9. SettledDealIsDistributed'
  BY <1>1, DistributionsApart DEF IInv, TypeOK, ProfitTypeOK
<1>. QED BY <1>4, <1>5, <1>6, <1>7, <1>8, <1>9, StepPreserves

\* Only a settlement the escrow account was drawn on for gets COMPLETED.
LEMMA CompleteSettlementPreserves ==
    ASSUME IInv, NEW w \in Workers, CompleteSettlement(w),
           UNCHANGED <<withdrawalVars, profitVars>>
    PROVE  IInv'
<1>1. PICK s \in Settlements : s = task[w].id /\ moved[s] > 0
  BY OperationTells DEF IInv, CompleteSettlement, At, Processing, Releasing, Knows
<1>2. Alone(w) /\ task'[w] = None
  BY OnlyOneMoves DEF IInv, InHand, CompleteSettlement, Finish, Continue
<1>3. /\ settlement' = [settlement EXCEPT ![s] = "COMPLETED"]
      /\ UNCHANGED <<escrow, moved, books>>
  BY <1>1 DEF CompleteSettlement, SetStatus
<1>4. Onward
  BY <1>3 DEF Onward, books, profitVars
<1>5. TypeOK'
  BY <1>3 DEF IInv, TypeOK, SettlementTypeOK, WithdrawalTypeOK, ProfitTypeOK,
    withdrawalVars, profitVars
<1>6. PayoutFollowsRelease'
  BY <1>1, <1>3 DEF IInv, PayoutFollowsRelease, TypeOK, SettlementTypeOK, books
<1>7. SettledDealIsDistributed'
  BY <1>3, DistributionsApart DEF IInv, TypeOK, ProfitTypeOK, books
<1>. QED BY <1>2, <1>4, <1>5, <1>6, <1>7, NoneKnows, StepPreserves

LEMMA FailSettlementPreserves ==
    ASSUME IInv, NEW w \in Workers, FailSettlement(w),
           UNCHANGED <<withdrawalVars, profitVars>>
    PROVE  IInv'
<1>1. task[w].id \in Settlements
  BY OperationTells DEF IInv, FailSettlement, At, Processing, Releasing
<1>2. Alone(w) /\ task'[w] = None
  BY OnlyOneMoves DEF IInv, InHand, FailSettlement, Finish, Continue
<1>3. Onward /\ TypeOK' /\ PayoutFollowsRelease' /\ SettledDealIsDistributed'
  BY <1>1, StatusPreserves DEF FailSettlement
<1>. QED BY <1>2, <1>3, NoneKnows, StepPreserves

LEMMA ThrowIntoCatchPreserves ==
    ASSUME IInv, NEW w \in Workers, ThrowIntoCatch(w),
           UNCHANGED <<withdrawalVars, profitVars>>
    PROVE  IInv'
<1>. DEFINE t == [task[w] EXCEPT !.pc = "fail"]
<1>1. task[w] \in Processing \/ task[w] \in Releasing
  BY OperationTells DEF IInv, ThrowIntoCatch, At
<1>2. t \in InHand /\ t.pc = "fail" /\ t.op = "process"
  BY <1>1 DEF InHand, Processing, Releasing
<1>3. Alone(w) /\ task'[w] = t
  BY <1>2, OnlyOneMoves DEF IInv, ThrowIntoCatch
<1>. HIDE DEF t
<1>4. Knows(w)'
  BY <1>2, <1>3 DEF Knows, Paying
<1>. QED BY <1>3, <1>4, QuietStep DEF ThrowIntoCatch, data

LEMMA DepositPreserves ==
    ASSUME IInv, NEW w \in Workers, UNCHANGED <<withdrawalVars, profitVars>>,
           (\E r \in Deposits : DepositRead(w, r)) \/ DepositWrite(w)
    PROVE  IInv'
<1>1. ASSUME NEW r \in Deposits, DepositRead(w, r) PROVE IInv'
  <2>. DEFINE t == [op |-> "deposit", pc |-> "write", id |-> r, seen |-> escrow]
  <2>1. t \in InHand /\ t.op = "deposit"
    BY DEF InHand, Depositing, Account, IInv, TypeOK, SettlementTypeOK
  <2>2. Begin(w, t)
    BY <1>1 DEF DepositRead
  <2>. HIDE DEF t
  <2>3. task'[w] = t => Knows(w)'
    BY <2>1 DEF Knows, Releasing, Paying
  <2>. QED BY <1>1, <2>1, <2>2, <2>3, BeginPreserves DEF DepositRead, data
<1>2. CASE DepositWrite(w)
  <2>1. PICK r \in Deposits : r = task[w].id
    BY <1>2, OperationTells DEF IInv, DepositWrite, At, Depositing
  <2>2. task[w].seen.balance \in Nat /\ DepositAmount \in Nat
    BY <1>2, OperationTells, SettlementAssumption
    DEF IInv, DepositWrite, At, Depositing, Account
  <2>3. task' = [task EXCEPT ![w] = None] /\ UNCHANGED <<settlement, payments>>
    BY <1>2 DEF DepositWrite, Finish, Continue
  <2>4. CASE Refused(EscrowKey(r), DepositAmount)
    <3>1. UNCHANGED <<escrow, moved, posted>>
      BY <1>2, <2>1, <2>4 DEF DepositWrite
    <3>. QED BY <2>3, <3>1, FinishPreserves DEF data, settlementVars, books
  <2>5. CASE ~ Refused(EscrowKey(r), DepositAmount)
    <3>1. /\ escrow' = [escrow EXCEPT !.balance = task[w].seen.balance + DepositAmount]
          /\ moved' = [moved EXCEPT ![r] = @ + 1]
          /\ posted' = posted \cup {EscrowKey(r)}
      BY <1>2, <2>1, <2>5 DEF DepositWrite, Post
    <3>2. /\ moved' \in [Settlements \cup Deposits -> Nat]
          /\ moved'[r] > 0
          /\ \A s \in Settlements \ {r} : moved'[s] = moved[s]
      BY <3>1 DEF IInv, TypeOK, SettlementTypeOK
    <3>3. escrow' \in Account
      BY <2>2, <3>1 DEF IInv, TypeOK, SettlementTypeOK, Account
    <3>4. Alone(w) /\ task'[w] = None
      BY <2>3, OnlyOneMoves DEF IInv, InHand
    <3>5. Onward
      BY <2>3, <3>1, <3>2 DEF Onward, profitVars
    <3>6. TypeOK'
      BY <2>3, <3>2, <3>3 DEF IInv, TypeOK, SettlementTypeOK, WithdrawalTypeOK, ProfitTypeOK,
        Account, withdrawalVars, profitVars
    <3>7. PayoutFollowsRelease'
      BY <2>3, <3>1, <3>2, KeysApart DEF IInv, PayoutFollowsRelease
    <3>8. SettledDealIsDistributed'
      BY <2>3, <3>1, KeysApart, DistributionsApart DEF IInv, TypeOK, ProfitTypeOK
    <3>. QED BY <3>4, <3>5, <3>6, <3>7, <3>8, NoneKnows, StepPreserves
  <2>. QED BY <2>4, <2>5
<1>. QED BY <1>1, <1>2

LEMMA LockPreserves ==
    ASSUME IInv, NEW w \in Workers, UNCHANGED <<withdrawalVars, profitVars>>,
           LockRead(w) \/ LockWrite(w)
    PROVE  IInv'
<1>1. CASE LockRead(w)
  <2>. DEFINE t == [op |-> "lock", pc |-> "write", seen |-> escrow]
  <2>1. t \in InHand /\ t.op = "lock"
    BY DEF InHand, Locking, Account, IInv, TypeOK, SettlementTypeOK
  <2>2. Begin(w, t)
    BY <1>1 DEF LockRead
  <2>. HIDE DEF t
  <2>3. task'[w] = t => Knows(w)'
    BY <2>1 DEF Knows, Releasing, Paying
  <2>. QED BY <1>1, <2>1, <2>2, <2>3, BeginPreserves DEF LockRead, data
<1>2. CASE LockWrite(w)
  <2>1. task[w].seen.locked + LockAmount \in Nat
    BY <1>2, OperationTells, SettlementAssumption
    DEF IInv, LockWrite, At, Locking, Account
  <2>2. /\ task' = [task EXCEPT ![w] = None] /\ UNCHANGED <<settlement, moved, books>>
        /\ escrow' = [escrow EXCEPT !.locked = task[w].seen.locked + LockAmount,
                                    !.status = "LOCKED"]
    BY <1>2 DEF LockWrite, Finish, Continue
  <2>3. escrow' \in Account
    BY <2>1, <2>2 DEF IInv, TypeOK, SettlementTypeOK, Account
  <2>4. Alone(w) /\ task'[w] = None
    BY <2>2, OnlyOneMoves DEF IInv, InHand
  <2>5. Onward
    BY <2>2 DEF Onward, books, profitVars
  <2>6. TypeOK'
    BY <2>2, <2>3 DEF IInv, TypeOK, SettlementTypeOK, WithdrawalTypeOK, ProfitTypeOK,
      Account, withdrawalVars, profitVars
  <2>7. PayoutFollowsRelease'
    BY <2>2 DEF IInv, PayoutFollowsRelease, books
  <2>8. SettledDealIsDistributed'
    BY <2>2, DistributionsApart DEF IInv, TypeOK, ProfitTypeOK, books
  <2>. QED BY <2>4, <2>5, <2>6, <2>7, <2>8, NoneKnows, StepPreserves
<1>. QED BY <1>1, <1>2

LEMMA SettlementStepPreserves ==
    ASSUME IInv, SettlementStep, UNCHANGED <<withdrawalVars, profitVars>>
    PROVE  IInv'
  BY CreateSettlementPreserves, ApprovePreserves, ProcessReadPreserves,
     MarkProcessingPreserves, CheckEscrowPreserves, MoveEscrowPreserves, PayOutPreserves,
     CompleteSettlementPreserves, FailSettlementPreserves, ThrowIntoCatchPreserves,
     DepositPreserves, LockPreserves
  DEF SettlementStep

----------------------------------------------------------------------------
(***************************************************************************)
(* Withdrawals.                                                            *)
(***************************************************************************)
\* A withdrawal's row, the wallet and the keys of withdrawals are all that is
\* written.
LEMMA WithdrawalWritePreserves ==
    ASSUME IInv, NEW x \in Withdrawals, UNCHANGED <<settlementVars, profitVars>>,
           wallet' \in Int,
           withdrawal' \in [Withdrawals -> {"none", "PENDING", "APPROVED", "REJECTED", "COMPLETED"}],
           posted \subseteq posted', posted' \subseteq posted \cup {WithdrawalKey(x)},
           payments \subseteq payments',
           payments' \subseteq payments \cup {WithdrawalPayment(x)}
    PROVE  Onward /\ TypeOK' /\ PayoutFollowsRelease' /\ SettledDealIsDistributed'
<1>1. Onward
  BY DEF Onward, settlementVars, profitVars
<1>2. TypeOK'
  BY DEF IInv, TypeOK, SettlementTypeOK, WithdrawalTypeOK, ProfitTypeOK,
    settlementVars, profitVars
<1>3. PayoutFollowsRelease'
  BY KeysApart, SettlementsApart DEF IInv
<1>4. SettledDealIsDistributed'
  BY KeysApart, DistributionsApart DEF IInv, TypeOK, ProfitTypeOK
<1>. QED BY <1>1, <1>2, <1>3, <1>4

LEMMA RequestWithdrawalPreserves ==
    ASSUME IInv, NEW x \in Withdrawals, RequestWithdrawal(x),
           UNCHANGED <<settlementVars, profitVars>>
    PROVE  IInv'
<1>1. Onward /\ TypeOK' /\ PayoutFollowsRelease' /\ SettledDealIsDistributed'
  BY WithdrawalWritePreserves
  DEF IInv, TypeOK, WithdrawalTypeOK, RequestWithdrawal, SetWithdrawal, books
<1>2. \A w \in Workers : Knows(w)'
  BY DEF IInv, Knows, RequestWithdrawal, requestVars, books, settlementVars, profitVars,
    Pending
<1>. QED BY <1>1, <1>2 DEF IInv, RequestWithdrawal, requestVars

LEMMA ReviewPreserves ==
    ASSUME IInv, NEW w \in Workers, UNCHANGED <<settlementVars, profitVars>>,
           \/ \E x \in Withdrawals, d \in {"APPROVED", "REJECTED"} : ReviewRead(w, x, d)
           \/ ReviewWrite(w)
    PROVE  IInv'
<1>1. ASSUME NEW x \in Withdrawals, NEW d \in {"APPROVED", "REJECTED"}, ReviewRead(w, x, d)
      PROVE  IInv'
  <2>. DEFINE t == [op |-> "review", pc |-> "write", id |-> x, as |-> d]
  <2>1. t \in InHand /\ t.op = "review"
    BY DEF InHand, Reviewing
  <2>2. Begin(w, t)
    BY <1>1 DEF ReviewRead
  <2>. HIDE DEF t
  <2>3. task'[w] = t => Knows(w)'
    BY <2>1 DEF Knows, Releasing, Paying
  <2>. QED BY <1>1, <2>1, <2>2, <2>3, BeginPreserves DEF ReviewRead, data
<1>2. CASE ReviewWrite(w)
  <2>1. task[w].id \in Withdrawals /\ task[w].as \in {"APPROVED", "REJECTED"}
    BY <1>2, OperationTells DEF IInv, ReviewWrite, At, Reviewing
  <2>2. Onward /\ TypeOK' /\ PayoutFollowsRelease' /\ SettledDealIsDistributed'
    BY <1>2, <2>1, WithdrawalWritePreserves
    DEF IInv, TypeOK, WithdrawalTypeOK, ReviewWrite, SetWithdrawal, books
  <2>3. Alone(w) /\ task'[w] = None
    BY <1>2, OnlyOneMoves DEF IInv, InHand, ReviewWrite, Finish, Continue
  <2>. QED BY <2>2, <2>3, NoneKnows, StepPreserves
<1>. QED BY <1>1, <1>2

LEMMA WithdrawPreserves ==
    ASSUME IInv, NEW w \in Workers, UNCHANGED <<settlementVars, profitVars>>,
           \/ \E x \in Withdrawals : WithdrawRead(w, x)
           \/ CheckWallet(w)
           \/ PayWithdrawal(w)
    PROVE  IInv'
<1>1. ASSUME NEW x \in Withdrawals, WithdrawRead(w, x) PROVE IInv'
  <2>. DEFINE t == [op |-> "withdraw", pc |-> "check", id |-> x]
  <2>1. t \in InHand /\ t.op = "withdraw"
    BY DEF InHand, Withdrawing
  <2>2. Begin(w, t)
    BY <1>1 DEF WithdrawRead
  <2>. HIDE DEF t
  <2>3. task'[w] = t => Knows(w)'
    BY <2>1 DEF Knows, Releasing, Paying
  <2>. QED BY <1>1, <2>1, <2>2, <2>3, BeginPreserves DEF WithdrawRead, data
<1>2. CASE CheckWallet(w)
  <2>1. UNCHANGED data
    BY <1>2 DEF CheckWallet, data
  <2>2. CASE Sufficient(task[w].id)
    <3>. DEFINE t == [task[w] EXCEPT !.pc = "pay"]
    <3>1. t \in InHand /\ t.op = "withdraw"
      BY <1>2, OperationTells DEF IInv, CheckWallet, At, Withdrawing, InHand
    <3>2. Alone(w) /\ task'[w] = t
      BY <1>2, <2>2, <3>1, OnlyOneMoves DEF IInv, CheckWallet, Goto, Continue
    <3>. HIDE DEF t
    <3>3. Knows(w)'
      BY <3>1, <3>2 DEF Knows, Releasing, Paying
    <3>. QED BY <2>1, <3>2, <3>3, QuietStep
  <2>3. CASE ~ Sufficient(task[w].id)
    BY <1>2, <2>1, <2>3, FinishPreserves DEF CheckWallet, Finish, Continue
  <2>. QED BY <2>2, <2>3
<1>3. CASE PayWithdrawal(w)
  <2>1. PICK x \in Withdrawals : x = task[w].id
    BY <1>3, OperationTells DEF IInv, PayWithdrawal, At, Withdrawing
  <2>2. Alone(w) /\ task'[w] = None
    BY <1>3, OnlyOneMoves DEF IInv, InHand, PayWithdrawal, Finish, Continue
  <2>3. CASE Payable(x)
    <3>1. /\ posted' = posted \cup {WithdrawalKey(x)}
          /\ wallet' = IF WithdrawalKey(x) \in posted THEN wallet
                       ELSE wallet - WithdrawalOf[x]
          /\ payments' = payments \cup {WithdrawalPayment(x)}
          /\ withdrawal' = [withdrawal EXCEPT ![x] = "COMPLETED"]
      BY <1>3, <2>1, <2>3 DEF PayWithdrawal, Post, SetWithdrawal
    <3>2. wallet' \in Int
      BY <3>1, WithdrawalAssumption DEF IInv, TypeOK, WithdrawalTypeOK
    <3>3. withdrawal' \in
            [Withdrawals -> {"none", "PENDING", "APPROVED", "REJECTED", "COMPLETED"}]
      BY <3>1 DEF IInv, TypeOK, WithdrawalTypeOK
    <3>4. Onward /\ TypeOK' /\ PayoutFollowsRelease' /\ SettledDealIsDistributed'
      BY <3>1, <3>2, <3>3, WithdrawalWritePreserves
    <3>. QED BY <2>2, <3>4, NoneKnows, StepPreserves
  <2>4. CASE ~ Payable(x)
    BY <1>3, <2>1, <2>4, FinishPreserves DEF PayWithdrawal, data, Finish, Continue
  <2>. QED BY <2>3, <2>4
<1>. QED BY <1>1, <1>2, <1>3

LEMMA WithdrawalStepPreserves ==
    ASSUME IInv, WithdrawalStep, UNCHANGED <<settlementVars, profitVars>>
    PROVE  IInv'
  BY RequestWithdrawalPreserves, ReviewPreserves, WithdrawPreserves DEF WithdrawalStep

----------------------------------------------------------------------------
(***************************************************************************)
(* ProfitsService and DealsService.close.                                  *)
(***************************************************************************)
\* Settlements do not notice what is written for a distribution.
LEMMA ProfitWritePreserves ==
    ASSUME IInv, UNCHANGED <<settlementVars, withdrawalVars>>,
           ProfitTypeOK',
           \E d : /\ posted' \subseteq posted \cup {LedgerKey(d)}
                  /\ payments' \subseteq payments \cup {PaymentKey(d)},
           posted \subseteq posted', payments \subseteq payments'
    PROVE  TypeOK' /\ PayoutFollowsRelease'
<1>1. TypeOK'
  BY DEF IInv, TypeOK, SettlementTypeOK, WithdrawalTypeOK, settlementVars, withdrawalVars
<1>2. PayoutFollowsRelease'
  BY KeysApart, SettlementsApart DEF IInv
<1>. QED BY <1>1, <1>2

LEMMA ApproveCalculationPreserves ==
    ASSUME IInv, NEW c \in Calculations, ApproveCalculation(c),
           UNCHANGED <<settlementVars, withdrawalVars>>
    PROVE  IInv'
<1>. USE DEF books, requestVars
<1>1. ProfitTypeOK'
  BY DEF IInv, TypeOK, ProfitTypeOK, ApproveCalculation
<1>2. TypeOK' /\ PayoutFollowsRelease'
  BY <1>1, ProfitWritePreserves DEF ApproveCalculation
<1>3. SettledDealIsDistributed'
  BY DEF IInv, SettledDealIsDistributed, Pending, ApproveCalculation
<1>4. \A w \in Workers : Knows(w)'
  BY DEF IInv, Knows, ApproveCalculation, Pending, settlementVars
<1>. QED BY <1>2, <1>3, <1>4 DEF IInv, ApproveCalculation

LEMMA CalculatePreserves ==
    ASSUME IInv, NEW w \in Workers, UNCHANGED <<settlementVars, withdrawalVars>>,
           \/ \E c \in Calculations, s \in Statements : CalculateRead(w, c, s)
           \/ CalculateWrite(w)
    PROVE  IInv'
<1>1. ASSUME NEW c \in Calculations, NEW s \in Statements, CalculateRead(w, c, s)
      PROVE  IInv'
  <2>. DEFINE t == [op |-> "calculate", pc |-> "write", id |-> c, from |-> s]
  <2>1. t \in InHand /\ t.op = "calculate" /\ Gross(t.from) > 0
    BY <1>1 DEF InHand, Calculating, CalculateRead
  <2>2. Begin(w, t)
    BY <1>1 DEF CalculateRead
  <2>. HIDE DEF t
  <2>3. task'[w] = t => Knows(w)'
    BY <2>1 DEF Knows, Releasing, Paying
  <2>. QED BY <1>1, <2>1, <2>2, <2>3, BeginPreserves DEF CalculateRead, data
<1>2. CASE CalculateWrite(w)
  <2>. USE DEF books
  <2>1. task[w].id \in Calculations /\ task[w].from \in Statements
    BY <1>2, OperationTells DEF IInv, CalculateWrite, At, Calculating
  <2>2. ProfitTypeOK'
    BY <1>2, <2>1 DEF IInv, TypeOK, ProfitTypeOK, CalculateWrite
  <2>3. TypeOK' /\ PayoutFollowsRelease'
    BY <1>2, <2>2, ProfitWritePreserves DEF CalculateWrite
  <2>4. SettledDealIsDistributed'
    BY <1>2 DEF IInv, SettledDealIsDistributed, Pending, CalculateWrite
  <2>5. Alone(w) /\ task'[w] = None
    BY <1>2, OnlyOneMoves DEF IInv, InHand, CalculateWrite, Finish, Continue
  <2>6. Onward
    BY <1>2 DEF Onward, CalculateWrite, settlementVars
  <2>. QED BY <2>3, <2>4, <2>5, <2>6, NoneKnows, StepPreserves
<1>. QED BY <1>1, <1>2

LEMMA DistributeReadPreserves ==
    ASSUME IInv, NEW w \in Workers, NEW c \in Calculations, DistributeRead(w, c),
           UNCHANGED <<settlementVars, withdrawalVars>>
    PROVE  IInv'
<1>. DEFINE t == [op |-> "distribute", pc |-> "next", id |-> c, todo |-> Pending(c)]
<1>1. /\ t \in InHand /\ t.op = "distribute" /\ t.id = c /\ t.todo = Pending(c)
      /\ t \notin Paying /\ t \notin Releasing
  BY DEF InHand, Distributing, Pending, Distributions, Paying, Releasing
<1>2. Begin(w, t) /\ c \in approved /\ UNCHANGED <<profitVars, books>>
  BY DEF DistributeRead
<1>3. Pending(c)' = Pending(c)
  BY <1>2 DEF Pending, profitVars
<1>. HIDE DEF t
<1>4. task'[w] = t => Knows(w)'
  BY <1>1, <1>2, <1>3 DEF Knows, profitVars
<1>. QED BY <1>1, <1>2, <1>4, BeginPreserves DEF data

LEMMA PayDistributionPreserves ==
    ASSUME IInv, NEW w \in Workers, NEW d \in Distributions, PayDistribution(w, d),
           UNCHANGED <<settlementVars, withdrawalVars>>
    PROVE  IInv'
<1>1. task[w] \in Distributing /\ Knows(w)
  BY OperationTells DEF IInv, PayDistribution, At, Paying
<1>2. CASE PaymentKey(d) \in payments
  BY <1>2, FinishPreserves DEF PayDistribution, Duplicate, Finish, Continue, data, books
<1>3. CASE PaymentKey(d) \notin payments
  <2>. DEFINE t == [op |-> "distribute", pc |-> "post", id |-> task[w].id,
                    todo |-> task[w].todo, now |-> d]
  <2>1. /\ t \in InHand /\ t.op = "distribute" /\ t.pc = "post" /\ t.now = d
        /\ t.id = task[w].id /\ t.todo = task[w].todo /\ t \notin Releasing
    BY <1>1 DEF InHand, Distributing, Paying, Releasing
  <2>2. /\ payments' = payments \cup {PaymentKey(d)}
        /\ UNCHANGED <<profitVars, posted>>
        /\ task' = [task EXCEPT ![w] = t]
    BY <1>3 DEF PayDistribution, Continue
  <2>. HIDE DEF t
  <2>3. Alone(w) /\ task'[w] = t
    BY <2>1, <2>2, OnlyOneMoves DEF IInv
  <2>4. ProfitTypeOK'
    BY <2>2 DEF IInv, TypeOK, ProfitTypeOK, profitVars
  <2>5. TypeOK' /\ PayoutFollowsRelease'
    BY <2>2, <2>4, ProfitWritePreserves
  <2>6. SettledDealIsDistributed'
    BY <2>2, DistributionsApart DEF IInv, TypeOK, ProfitTypeOK
  <2>7. Onward
    BY <2>2 DEF Onward, profitVars, settlementVars
  <2>8. Knows(w)'
    <3>1. /\ task[w].id \in approved /\ Pending(task[w].id) \subseteq task[w].todo
      BY <1>1 DEF Knows, Distributing
    <3>2. PICK c : c = task[w].id
      OBVIOUS
    <3>3. Pending(c)' = Pending(c)
      BY <2>2 DEF Pending, profitVars
    <3>. QED BY <2>1, <2>2, <2>3, <3>1, <3>2, <3>3 DEF Knows, profitVars
  <2>. QED BY <2>3, <2>5, <2>6, <2>7, <2>8, StepPreserves
<1>. QED BY <1>2, <1>3

LEMMA PostDistributionPreserves ==
    ASSUME IInv, NEW w \in Workers, PostDistribution(w),
           UNCHANGED <<settlementVars, withdrawalVars>>
    PROVE  IInv'
<1>1. task[w] \in Paying /\ Knows(w) /\ UNCHANGED <<profitVars, payments>>
  BY OperationTells DEF IInv, PostDistribution, At, Distributing
<1>2. PICK d \in Distributions : d = task[w].now /\ PaymentKey(d) \in payments
  BY <1>1 DEF Knows, Paying
<1>3. CASE task' = [task EXCEPT ![w] = None] /\ UNCHANGED posted
  BY <1>1, <1>3, FinishPreserves DEF data, books
<1>4. CASE /\ posted' = posted \cup {LedgerKey(d)}
           /\ task' = [task EXCEPT ![w] = [task[w] EXCEPT !.pc = "mark"]]
  <2>. DEFINE t == [task[w] EXCEPT !.pc = "mark"]
  <2>1. /\ t \in InHand /\ t.op = "distribute" /\ t.pc = "mark" /\ t.now = d
        /\ t.id = task[w].id /\ t.todo = task[w].todo /\ t \notin Releasing
    BY <1>1, <1>2 DEF InHand, Paying, Releasing
  <2>2. task' = [task EXCEPT ![w] = t]
    BY <1>4
  <2>. HIDE DEF t
  <2>3. Alone(w) /\ task'[w] = t
    BY <2>1, <2>2, OnlyOneMoves DEF IInv
  <2>4. ProfitTypeOK'
    BY <1>1 DEF IInv, TypeOK, ProfitTypeOK, profitVars
  <2>5. TypeOK' /\ PayoutFollowsRelease'
    BY <1>1, <1>4, <2>4, ProfitWritePreserves
  <2>6. SettledDealIsDistributed'
    BY <1>1, <1>2, <1>4, KeysApart DEF IInv, SettledDealIsDistributed, Pending, profitVars
  <2>7. Onward
    BY <1>1, <1>4 DEF Onward, profitVars, settlementVars
  <2>8. Knows(w)'
    <3>1. /\ task[w].id \in approved /\ Pending(task[w].id) \subseteq task[w].todo
      BY <1>1 DEF Knows, Paying
    <3>2. PICK c : c = task[w].id
      OBVIOUS
    <3>3. Pending(c)' = Pending(c)
      BY <1>1 DEF Pending, profitVars
    <3>. QED BY <1>1, <1>2, <1>4, <2>1, <2>3, <3>1, <3>2, <3>3 DEF Knows, profitVars
  <2>. QED BY <2>3, <2>5, <2>6, <2>7, <2>8, StepPreserves
<1>. QED BY <1>2, <1>3, <1>4 DEF PostDistribution, Finish, Goto, Continue, Post

LEMMA MarkDistributionPreserves ==
    ASSUME IInv, NEW w \in Workers, MarkDistribution(w),
           UNCHANGED <<settlementVars, withdrawalVars>>
    PROVE  IInv'
<1>1. task[w] \in Paying /\ Knows(w) /\ task[w].pc = "mark"
  BY OperationTells DEF IInv, MarkDistribution, At, Distributing
<1>2. PICK d \in Distributions : d = task[w].now /\ LedgerKey(d) \in posted
  BY <1>1 DEF Knows, Paying
<1>. DEFINE t == [op |-> "distribute", pc |-> "next", id |-> task[w].id,
                  todo |-> task[w].todo \ {d}]
<1>3. /\ t \in InHand /\ t.op = "distribute" /\ t.id = task[w].id
      /\ t.todo = task[w].todo \ {d} /\ t \notin Paying /\ t \notin Releasing
  BY <1>1 DEF InHand, Distributing, Paying, Releasing
<1>4. /\ distributed' = distributed \cup {d}
      /\ UNCHANGED <<deal, calculation, approved, books>>
      /\ task' = [task EXCEPT ![w] = t]
  BY <1>2 DEF MarkDistribution, Continue
<1>. HIDE DEF t
<1>5. Alone(w) /\ task'[w] = t
  BY <1>3, <1>4, OnlyOneMoves DEF IInv
<1>6. ProfitTypeOK'
  BY <1>4 DEF IInv, TypeOK, ProfitTypeOK
<1>7. TypeOK' /\ PayoutFollowsRelease'
  BY <1>4, <1>6, ProfitWritePreserves DEF books
<1>8. SettledDealIsDistributed'
  BY <1>2, <1>4 DEF IInv, SettledDealIsDistributed, Pending, books
<1>9. Onward
  BY <1>4 DEF Onward, settlementVars, books
<1>10. Knows(w)'
  <2>1. /\ task[w].id \in approved /\ Pending(task[w].id) \subseteq task[w].todo
    BY <1>1 DEF Knows, Paying
  <2>2. PICK c : c = task[w].id
    OBVIOUS
  <2>3. Pending(c)' = Pending(c) \ {d}
    BY <1>4 DEF Pending
  <2>. QED BY <1>3, <1>4, <1>5, <2>1, <2>2, <2>3 DEF Knows
<1>. QED BY <1>5, <1>7, <1>8, <1>9, <1>10, StepPreserves

\* The deal is settled by a request that found nothing left to pay.
LEMMA SettleDealPreserves ==
    ASSUME IInv, NEW w \in Workers, SettleDeal(w),
           UNCHANGED <<settlementVars, withdrawalVars>>
    PROVE  IInv'
<1>1. /\ task[w] \in Distributing /\ task[w].id \in approved
      /\ Pending(task[w].id) = {}
  BY OperationTells DEF IInv, SettleDeal, At, Paying, Knows
<1>2. /\ deal' = "SETTLED"
      /\ UNCHANGED <<calculation, approved, distributed, books>>
  BY DEF SettleDeal
<1>3. Alone(w) /\ task'[w] = None
  BY OnlyOneMoves DEF IInv, InHand, SettleDeal, Finish, Continue
<1>4. ProfitTypeOK'
  BY <1>2 DEF IInv, TypeOK, ProfitTypeOK
<1>5. TypeOK' /\ PayoutFollowsRelease'
  BY <1>2, <1>4, ProfitWritePreserves DEF books
<1>6. SettledDealIsDistributed'
  BY <1>1, <1>2 DEF IInv, SettledDealIsDistributed, Pending, books
<1>7. Onward
  BY <1>2 DEF Onward, settlementVars, books
<1>. QED BY <1>3, <1>5, <1>6, <1>7, NoneKnows, StepPreserves

LEMMA ClosePreserves ==
    ASSUME IInv, NEW w \in Workers, CloseRead(w) \/ CloseWrite(w),
           UNCHANGED <<settlementVars, withdrawalVars>>
    PROVE  IInv'
<1>1. CASE CloseRead(w)
  <2>. DEFINE t == [op |-> "close", pc |-> "write"]
  <2>1. t \in InHand /\ t.op = "close"
    BY DEF InHand, Closing
  <2>2. Begin(w, t) /\ deal' = "SETTLED" /\ UNCHANGED data
    BY <1>1 DEF CloseRead, profitVars, data
  <2>. HIDE DEF t
  <2>3. task'[w] = t => Knows(w)'
    BY <2>1, <2>2 DEF Knows, Releasing, Paying
  <2>. QED BY <2>1, <2>2, <2>3, BeginPreserves
<1>2. CASE CloseWrite(w)
  <2>1. deal # "ACTIVE"
    BY <1>2, OperationTells DEF IInv, CloseWrite, At, Knows
  <2>2. /\ deal' = "CLOSED"
        /\ UNCHANGED <<calculation, approved, distributed, books>>
    BY <1>2 DEF CloseWrite
  <2>3. Alone(w) /\ task'[w] = None
    BY <1>2, OnlyOneMoves DEF IInv, InHand, CloseWrite, Finish, Continue
  <2>4. ProfitTypeOK'
    BY <2>2 DEF IInv, TypeOK, ProfitTypeOK
  <2>5. TypeOK' /\ PayoutFollowsRelease'
    BY <2>2, <2>4, ProfitWritePreserves DEF books
  <2>6. SettledDealIsDistributed'
    BY <2>1, <2>2 DEF IInv, SettledDealIsDistributed, Pending, books
  <2>7. Onward
    BY <2>2 DEF Onward, settlementVars, books
  <2>. QED BY <2>3, <2>5, <2>6, <2>7, NoneKnows, StepPreserves
<1>. QED BY <1>1, <1>2

LEMMA ProfitStepPreserves ==
    ASSUME IInv, ProfitStep, UNCHANGED <<settlementVars, withdrawalVars>>
    PROVE  IInv'
  BY ApproveCalculationPreserves, CalculatePreserves, DistributeReadPreserves,
     PayDistributionPreserves, PostDistributionPreserves, MarkDistributionPreserves,
     SettleDealPreserves, ClosePreserves
  DEF ProfitStep

----------------------------------------------------------------------------
(***************************************************************************)
(* The invariant and what follows from it.                                 *)
(***************************************************************************)
LEMMA InitIsInductive == Init => IInv
<1>. SUFFICES ASSUME Init PROVE IInv
  OBVIOUS
<1>. USE DEF Init, RequestInit, SettlementInit, WithdrawalInit, ProfitInit
<1>1. TypeOK
  BY SettlementAssumption, WithdrawalAssumption
  DEF TypeOK, SettlementTypeOK, WithdrawalTypeOK, ProfitTypeOK
<1>2. task \in [Workers -> InHand]
  BY DEF InHand
<1>3. \A w \in Workers : Knows(w)
  BY DEF Knows, None, Releasing, Paying
<1>4. PayoutFollowsRelease /\ SettledDealIsDistributed
  BY DEF PayoutFollowsRelease, SettledDealIsDistributed
<1>. QED BY <1>1, <1>2, <1>3, <1>4 DEF IInv

LEMMA NextPreserves == IInv /\ [Next]_vars => IInv'
<1>. SUFFICES ASSUME IInv, [Next]_vars PROVE IInv'
  OBVIOUS
<1>1. ASSUME NEW w \in Workers, Die(w) PROVE IInv'
  BY <1>1, FinishPreserves DEF Die, Abort, data
<1>2. CASE UNCHANGED vars
  <2>. USE <1>2 DEF vars, settlementVars, withdrawalVars, profitVars, books, requestVars
  <2>1. TypeOK'
    BY DEF IInv, TypeOK, SettlementTypeOK, WithdrawalTypeOK, ProfitTypeOK
  <2>2. \A w \in Workers : Knows(w)'
    BY DEF IInv, Knows, Pending
  <2>3. PayoutFollowsRelease' /\ SettledDealIsDistributed'
    BY DEF IInv, PayoutFollowsRelease, SettledDealIsDistributed, Pending
  <2>. QED BY <2>1, <2>2, <2>3 DEF IInv
<1>. QED BY <1>1, <1>2, SettlementStepPreserves, WithdrawalStepPreserves, ProfitStepPreserves
     DEF Next

THEOREM Invariance == Spec => []IInv
  BY InitIsInductive, NextPreserves, PTL DEF Spec

\* EscrowService: neither the balance nor the locked part of an escrow account
\* goes below zero, however requests overlap, and each status is one the
\* services write.
THEOREM TypeCorrect == Spec => []TypeOK
<1>1. IInv => TypeOK
  BY DEF IInv
<1>. QED BY <1>1, Invariance, PTL

\* processSettlement: nobody is paid and no settlement COMPLETED before the
\* escrow account was drawn on for it, and the ledger has booked every draw.
THEOREM ReleasedBeforePaid == Spec => []PayoutFollowsRelease
<1>1. IInv => PayoutFollowsRelease
  BY DEF IInv
<1>. QED BY <1>1, Invariance, PTL

\* distributeProfit: a SETTLED deal has a calculation of which everybody is
\* paid, and what is marked is posted, what is posted is paid.
THEOREM SettledMeansDistributed == Spec => []SettledDealIsDistributed
<1>1. IInv => SettledDealIsDistributed
  BY DEF IInv
<1>. QED BY <1>1, Invariance, PTL

=============================================================================
