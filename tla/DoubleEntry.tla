---------------------------- MODULE DoubleEntry ----------------------------
(***************************************************************************)
(* The arithmetic of ledger.service.ts: what a line of a posting is, when  *)
(* createTransaction accepts the lines it is given, and how a line moves   *)
(* the balance of its account.  Amounts are whole numbers of the smallest  *)
(* unit: decimal.util.ts keeps every amount at a fixed number of places.   *)
(***************************************************************************)
EXTENDS Integers, Sequences, SequencesExt

CONSTANTS
    Accounts,   \* the rows of the accounts table
    DebitSide   \* the accounts of type ASSET or EXPENSE

ASSUME DebitSideAssumption == DebitSide \subseteq Accounts

Entry == [account : Accounts, debit : Int, credit : Int]

\* The amounts on one side of a posting, added up.
TotalDebit(entries)  == FoldSeq(LAMBDA e, sum : e.debit + sum, 0, entries)
TotalCredit(entries) == FoldSeq(LAMBDA e, sum : e.credit + sum, 0, entries)

\* Exactly one side of a line carries an amount.
OneSided(e) == (e.debit = 0) # (e.credit = 0)

Balanced(entries) == TotalDebit(entries) = TotalCredit(entries)

\* Mutant: the check that debits equal credits is dropped.
Acceptable_AnySum(entries) ==
    /\ Len(entries) >= 2
    /\ \A i \in DOMAIN entries : OneSided(entries[i])

\* The three BadRequestException checks made before the database transaction.
Acceptable(entries) ==
    /\ Len(entries) >= 2
    /\ \A i \in DOMAIN entries : OneSided(entries[i])
    /\ Balanced(entries)

\* The movement of an account's balance, on its natural side.
SignedDelta(e) ==
    IF e.account \in DebitSide THEN e.debit - e.credit ELSE e.credit - e.debit
=============================================================================
