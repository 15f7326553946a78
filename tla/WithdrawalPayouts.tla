------------------------- MODULE WithdrawalPayouts -------------------------
(***************************************************************************)
(* The withdrawals of SettlementsService: requestWithdrawal,               *)
(* approveWithdrawal and processWithdrawal, and the rejection of           *)
(* WithdrawalReviewService.  All of them draw on one ledger account, the   *)
(* payable account of 'wallet'.                                            *)
(*                                                                         *)
(* processWithdrawal does its work in one database transaction, which      *)
(* first writes the withdrawal's row and so keeps every other write of     *)
(* that row waiting; what the wallet holds is read outside of it.          *)
(***************************************************************************)
EXTENDS PayoutRequests, Functions

CONSTANTS
    Withdrawals,    \* withdrawal ids
    WithdrawalOf,   \* the amount of each
    WalletOpening   \* balance of the wallet account at the start

ASSUME WithdrawalAssumption ==
    /\ IsFiniteSet(Withdrawals)
    /\ WithdrawalOf \in [Withdrawals -> Nat]
    /\ WalletOpening \in Nat

VARIABLES
    wallet,     \* balance of the wallet account
    withdrawal  \* the status of each withdrawal

withdrawalVars == <<wallet, withdrawal>>

WithdrawalKey(x) == <<"withdrawal-payout", x>>
WithdrawalPayment(x) == <<"withdrawal-payment", x>>

WithdrawalInit ==
    /\ wallet = WalletOpening
    /\ withdrawal = [x \in Withdrawals |-> "none"]

\* A worker's transaction has written the withdrawal's row.
RowHeld(x) ==
    \E w \in Workers : At(w, "withdraw", "pay") /\ task[w].id = x

SetWithdrawal(x, status) == withdrawal' = [withdrawal EXCEPT ![x] = status]

\* Mutant: nobody looks what the wallet holds.
Sufficient_Any(x) == TRUE

Sufficient(x) == WithdrawalOf[x] <= wallet

\* What is requested stays in the wallet until it is paid.
RequestWithdrawal(x) ==
    /\ withdrawal[x] = "none"
    /\ Sufficient(x)
    /\ SetWithdrawal(x, "PENDING")
    /\ UNCHANGED <<wallet, books, requestVars>>

\* Mutant: a withdrawal can be reviewed until it is rejected.
Reviewable_Any(x) == withdrawal[x] \notin {"none", "REJECTED"}

Reviewable(x) == withdrawal[x] = "PENDING"

\* An administrator's decision, made on the status read and written later.
ReviewRead(w, x, decision) ==
    /\ Reviewable(x)
    /\ Begin(w, [op |-> "review", pc |-> "write", id |-> x, as |-> decision])
    /\ UNCHANGED <<withdrawalVars, books>>

ReviewWrite(w) ==
    /\ At(w, "review", "write")
    /\ ~ RowHeld(task[w].id)
    /\ SetWithdrawal(task[w].id, task[w].as)
    /\ Finish(w)
    /\ UNCHANGED <<wallet, books>>

(***************************************************************************)
(* processWithdrawal.                                                      *)
(***************************************************************************)
WithdrawRead(w, x) ==
    /\ withdrawal[x] = "APPROVED"
    /\ Begin(w, [op |-> "withdraw", pc |-> "check", id |-> x])
    /\ UNCHANGED <<withdrawalVars, books>>

\* The transaction writes the row, so that it is held, and looks what the
\* wallet holds; too little rolls it back.
CheckWallet(w) ==
    /\ At(w, "withdraw", "check")
    /\ ~ RowHeld(task[w].id)
    /\ IF Sufficient(task[w].id) THEN Goto(w, "pay") ELSE Finish(w)
    /\ UNCHANGED <<withdrawalVars, books>>

\* The ledger refuses a posting of nothing, the payments table a second payment.
Payable(x) ==
    /\ WithdrawalOf[x] > 0 \/ WithdrawalKey(x) \in posted
    /\ WithdrawalPayment(x) \notin payments

PayWithdrawal(w) ==
    LET x == task[w].id IN
    /\ At(w, "withdraw", "pay")
    /\ IF Payable(x)
       THEN /\ Post(WithdrawalKey(x))
            /\ wallet' = IF WithdrawalKey(x) \in posted THEN wallet
                          ELSE wallet - WithdrawalOf[x]
            /\ payments' = payments \cup {WithdrawalPayment(x)}
            /\ SetWithdrawal(x, "COMPLETED")
       ELSE UNCHANGED <<withdrawalVars, books>>
    /\ Finish(w)

WithdrawalStep ==
    \/ \E x \in Withdrawals : RequestWithdrawal(x)
    \/ \E w \in Workers :
          \/ \E x \in Withdrawals :
                \/ \E decision \in {"APPROVED", "REJECTED"} :
                      ReviewRead(w, x, decision)
                \/ WithdrawRead(w, x)
          \/ ReviewWrite(w)
          \/ CheckWallet(w)
          \/ PayWithdrawal(w)

----------------------------------------------------------------------------
(***************************************************************************)
(* Properties.                                                             *)
(***************************************************************************)
WithdrawalTypeOK ==
    /\ wallet \in Int
    /\ withdrawal \in [Withdrawals ->
          {"none", "PENDING", "APPROVED", "REJECTED", "COMPLETED"}]

(***************************************************************************)
(* The ledger has booked a withdrawal if and only if it is in the payments *)
(* table, and the wallet has been debited once for each; while requests    *)
(* are served one by one the status tells which those are.                 *)
(***************************************************************************)
WithdrawnOnce ==
    /\ \A x \in Withdrawals :
          LET paid == WithdrawalPayment(x) \in payments IN
          /\ paid <=> WithdrawalKey(x) \in posted
          /\ withdrawal[x] = "COMPLETED" => paid
          /\ paid => overlapped \/ withdrawal[x] = "COMPLETED"
    /\ wallet = WalletOpening - SumFunction(
          [x \in Withdrawals |->
              IF WithdrawalPayment(x) \in payments THEN WithdrawalOf[x] ELSE 0])

(***************************************************************************)
(* The wallet is overdrawn only by requests that overlap, each of which    *)
(* found enough in it, and then by no more than the others took.           *)
(***************************************************************************)
WalletOverdrawnByOverlapOnly ==
    wallet < 0 =>
        /\ overlapped
        /\ \E x \in Withdrawals :
              wallet >= - (Cardinality(Workers) - 1) * WithdrawalOf[x]
=============================================================================
