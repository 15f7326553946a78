------------------------- MODULE SettlementPayouts -------------------------
(***************************************************************************)
(* SettlementsService.createSettlement, approve and processSettlement,     *)
(* and the EscrowService they move the money with (deposit, lock, release, *)
(* refund, deductFee), for the escrow account of one deal.                 *)
(*                                                                         *)
(* EscrowService reads the account, checks the amount against it and then  *)
(* opens a transaction that writes balance and lockedBalance from that     *)
(* read.  The posting of the transaction is idempotent on a key made of    *)
(* the account, the reference and the amount; the balance is not.          *)
(***************************************************************************)
EXTENDS PayoutRequests, Functions

CONSTANTS
    Settlements,    \* settlement ids
    TypeOf,         \* settlement.type of each
    AmountOf,       \* settlement.amount of each
    HasRecipient,   \* the settlements with a toUserId
    Deposits,       \* the references money is deposited under, each one amount
    DepositAmount,  \* what a deposit brings
    LockAmount,     \* what a lock reserves
    Opening         \* the balance of the escrow account at the start

ASSUME SettlementAssumption ==
    /\ IsFiniteSet(Settlements)
    /\ IsFiniteSet(Deposits)
    /\ TypeOf \in [Settlements ->
          {"FARMER_PAYOUT", "INVESTOR_RETURN", "REFUND", "PLATFORM_FEE"}]
    /\ AmountOf \in [Settlements -> Nat]
    /\ HasRecipient \subseteq Settlements
    /\ {DepositAmount, LockAmount, Opening} \subseteq Nat
    /\ Deposits \cap Settlements = {}

VARIABLES
    escrow,     \* the escrowAccount row: balance, lockedBalance and status
    settlement, \* the status of each settlement
    moved       \* how often each deposit and settlement has moved the balance

settlementVars == <<escrow, settlement, moved>>

\* Mutant: the key leaves the reference out.
EscrowKey_NoReference(r) == <<"escrow">>

EscrowKey(r) == <<"escrow", r>>
PayoutKey(s) == <<"settlement-payment", s>>

Available(account) == account.balance - account.locked

SettlementInit ==
    /\ escrow = [balance |-> Opening, locked |-> 0, status |-> "ACTIVE"]
    /\ settlement = [s \in Settlements |-> "none"]
    /\ moved = [r \in Settlements \cup Deposits |-> 0]

\* A settlement's status is written whatever it is now.
SetStatus(s, status) == settlement' = [settlement EXCEPT ![s] = status]

----------------------------------------------------------------------------
(***************************************************************************)
(* createSettlement and approve.                                           *)
(***************************************************************************)
CreateSettlement(s) ==
    /\ settlement[s] = "none"
    /\ SetStatus(s, "PENDING")
    /\ UNCHANGED <<escrow, moved, books, requestVars>>

Approvable(status) == status = "PENDING"

ApproveRead(w, s) ==
    /\ Approvable(settlement[s])
    /\ Begin(w, [op |-> "approve", pc |-> "write", id |-> s])
    /\ UNCHANGED <<settlementVars, books>>

ApproveWrite(w) ==
    /\ At(w, "approve", "write")
    /\ SetStatus(task[w].id, "APPROVED")
    /\ Finish(w)
    /\ UNCHANGED <<escrow, moved, books>>

(***************************************************************************)
(* processSettlement.                                                      *)
(***************************************************************************)
ProcessRead(w, s) ==
    /\ settlement[s] = "APPROVED"
    /\ Begin(w, [op |-> "process", pc |-> "mark", id |-> s])
    /\ UNCHANGED <<settlementVars, books>>

MarkProcessing(w) ==
    /\ At(w, "process", "mark")
    /\ SetStatus(task[w].id, "PROCESSING")
    /\ Goto(w, "check")
    /\ UNCHANGED <<escrow, moved, books>>

\* Mutant: locked money is released as well.
Covered_Locked(account, amount) == amount <= account.balance

\* Not more than is available on the account as it was read.
Covered(account, amount) == amount <= Available(account)

\* The escrow account is read; too little on it throws into the catch block.
CheckEscrow(w) ==
    LET covered == Covered(escrow, AmountOf[task[w].id]) IN
    /\ At(w, "process", "check")
    /\ Continue(w, [op |-> "process", id |-> task[w].id, seen |-> escrow,
                    pc |-> IF covered THEN "move" ELSE "fail"])
    /\ UNCHANGED <<settlementVars, books>>

\* Mutant: the balance of the row as it is now is decremented in the database.
Drawn_Increment(seen, type, amount) ==
    [balance |-> escrow.balance - amount, locked |-> escrow.locked,
     status |-> escrow.status]

\* What release, refund and deductFee write: a fee leaves the lock and the
\* status alone, the others reduce the lock too, down to nothing.
Drawn(seen, type, amount) ==
    LET balance == seen.balance - amount
        unlocked == seen.locked - amount
    IN  IF type = "PLATFORM_FEE"
        THEN [escrow EXCEPT !.balance = balance]
        ELSE [balance |-> balance,
              locked |-> IF unlocked > 0 THEN unlocked ELSE 0,
              status |-> CASE balance # 0 -> "PARTIALLY_RELEASED"
                           [] balance = 0 /\ type = "REFUND" -> "REFUNDED"
                           [] balance = 0 /\ type # "REFUND" -> "FULLY_RELEASED"]

\* The ledger refuses a posting of nothing, unless the key is there already.
Refused(key, amount) == amount = 0 /\ key \notin posted

\* The transaction of release, refund or deductFee.
MoveEscrow(w) ==
    LET s == task[w].id IN
    /\ At(w, "process", "move")
    /\ IF Refused(EscrowKey(s), AmountOf[s])
       THEN /\ Goto(w, "fail")
            /\ UNCHANGED <<escrow, moved, posted>>
       ELSE /\ escrow' = Drawn(task[w].seen, TypeOf[s], AmountOf[s])
            /\ moved' = [moved EXCEPT ![s] = @ + 1]
            /\ Post(EscrowKey(s))
            /\ Goto(w, "pay")
    /\ UNCHANGED <<settlement, payments>>

\* Mutant: a payment needs a recipient.
PaymentThrows_NoRecipient(s) == s \notin HasRecipient \/ PayoutKey(s) \in payments

\* The unique key throws on a second payment.
PaymentThrows(s) == s \in HasRecipient /\ PayoutKey(s) \in payments

\* createPayoutPaymentRecord: without a recipient there is nothing to record.
PayOut(w) ==
    LET s == task[w].id
    IN  /\ At(w, "process", "pay")
        /\ Goto(w, IF PaymentThrows(s) THEN "fail" ELSE "complete")
        /\ payments' = IF s \in HasRecipient THEN payments \cup {PayoutKey(s)}
                       ELSE payments
        /\ UNCHANGED <<settlementVars, posted>>

\* The blockchain record, which nothing here reads, and the status.
CompleteSettlement(w) ==
    /\ At(w, "process", "complete")
    /\ SetStatus(task[w].id, "COMPLETED")
    /\ Finish(w)
    /\ UNCHANGED <<escrow, moved, books>>

\* The catch block.
FailSettlement(w) ==
    /\ At(w, "process", "fail")
    /\ SetStatus(task[w].id, "FAILED")
    /\ Finish(w)
    /\ UNCHANGED <<escrow, moved, books>>

\* A statement of the try block throws.
ThrowIntoCatch(w) ==
    /\ Fault
    /\ \E pc \in {"check", "move", "pay", "complete"} : At(w, "process", pc)
    /\ task' = [task EXCEPT ![w].pc = "fail"]
    /\ UNCHANGED <<requests, overlapped, settlementVars, books>>

(***************************************************************************)
(* deposit and lock, which other services may call.                        *)
(***************************************************************************)
DepositRead(w, r) ==
    /\ escrow.status \notin {"REFUNDED", "CLOSED"}
    /\ Begin(w, [op |-> "deposit", pc |-> "write", id |-> r, seen |-> escrow])
    /\ UNCHANGED <<settlementVars, books>>

DepositWrite(w) ==
    LET r == task[w].id IN
    /\ At(w, "deposit", "write")
    /\ IF Refused(EscrowKey(r), DepositAmount)
       THEN UNCHANGED <<escrow, moved, posted>>
       ELSE /\ escrow' = [escrow EXCEPT !.balance =
                             task[w].seen.balance + DepositAmount]
            /\ moved' = [moved EXCEPT ![r] = @ + 1]
            /\ Post(EscrowKey(r))
    /\ Finish(w)
    /\ UNCHANGED <<settlement, payments>>

LockRead(w) ==
    /\ Covered(escrow, LockAmount)
    /\ Begin(w, [op |-> "lock", pc |-> "write", seen |-> escrow])
    /\ UNCHANGED <<settlementVars, books>>

LockWrite(w) ==
    /\ At(w, "lock", "write")
    /\ escrow' = [escrow EXCEPT !.locked = task[w].seen.locked + LockAmount,
                                !.status = "LOCKED"]
    /\ Finish(w)
    /\ UNCHANGED <<settlement, moved, books>>

SettlementStep ==
    \/ \E s \in Settlements : CreateSettlement(s)
    \/ \E w \in Workers :
          \/ \E s \in Settlements : ApproveRead(w, s) \/ ProcessRead(w, s)
          \/ ApproveWrite(w)
          \/ MarkProcessing(w)
          \/ CheckEscrow(w)
          \/ MoveEscrow(w)
          \/ PayOut(w)
          \/ CompleteSettlement(w)
          \/ FailSettlement(w)
          \/ ThrowIntoCatch(w)
          \/ \E r \in Deposits : DepositRead(w, r)
          \/ DepositWrite(w)
          \/ LockRead(w)
          \/ LockWrite(w)

----------------------------------------------------------------------------
(***************************************************************************)
(* Properties.                                                             *)
(***************************************************************************)
SettlementTypeOK ==
    /\ escrow \in [balance : Nat, locked : Nat,
                   status : {"ACTIVE", "LOCKED", "PARTIALLY_RELEASED",
                             "FULLY_RELEASED", "REFUNDED"}]
    /\ settlement \in [Settlements ->
          {"none", "PENDING", "APPROVED", "PROCESSING", "COMPLETED", "FAILED"}]
    /\ moved \in [Settlements \cup Deposits -> Nat]

\* The balance that the deposits and the payouts made so far should have left.
ExpectedBalance ==
    Opening + SumFunction(
        [r \in DOMAIN moved |->
            IF r \in Deposits THEN moved[r] * DepositAmount
            ELSE - moved[r] * AmountOf[r]])

(***************************************************************************)
(* While requests are served one by one, whatever fails in between: no     *)
(* settlement draws on the escrow account twice, the account holds what    *)
(* was not drawn, and what is locked on it is there.                       *)
(***************************************************************************)
EscrowBooksOneByOne ==
    overlapped \/
      /\ escrow.balance = ExpectedBalance
      /\ escrow.locked <= escrow.balance
      /\ \A s \in Settlements : moved[s] <= 1

(***************************************************************************)
(* However requests overlap, throw or die, nobody is paid out of an escrow *)
(* account that was not drawn on for the settlement, a settlement is not   *)
(* COMPLETED before, and the ledger has booked every draw.                 *)
(***************************************************************************)
PayoutFollowsRelease ==
    \A s \in Settlements :
        /\ PayoutKey(s) \in payments \/ settlement[s] = "COMPLETED" =>
              moved[s] > 0
        /\ EscrowKey(s) \in posted <=> moved[s] > 0

(***************************************************************************)
(* Unless requests overlap or something throws, the status tells whether   *)
(* the money is gone: a FAILED settlement has drawn nothing (so that one   *)
(* made again in its place pays once), a COMPLETED one has.                *)
(***************************************************************************)
FailedDrewNothing ==
    overlapped \/ faults > 0 \/
      \A s \in Settlements :
        /\ settlement[s] \in {"none", "PENDING", "APPROVED", "FAILED"} =>
              moved[s] = 0
        /\ settlement[s] = "COMPLETED" /\ s \in HasRecipient =>
              PayoutKey(s) \in payments
=============================================================================
