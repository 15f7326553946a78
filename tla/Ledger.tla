------------------------------- MODULE Ledger -------------------------------
(***************************************************************************)
(* LedgerService.createTransaction, run by several callers at once on one  *)
(* PostgreSQL database at READ COMMITTED.  A step is one statement the     *)
(* service sends: the lookup of the idempotency key, the row lock of each  *)
(* line's account, the insert of the ledger transaction, the read of the   *)
(* latest line of an account with the insert of the next one (the account  *)
(* is locked, so nobody comes between the two), and the commit.            *)
(*                                                                         *)
(* An account's latest line is found by ordering on createdAt, a timestamp *)
(* of millisecond precision.  createdAt is therefore modelled as a rank    *)
(* per account that a new line may share with the line before it.          *)
(***************************************************************************)
EXTENDS DoubleEntry

CONSTANTS
    ActiveAccounts, \* the accounts whose isActive flag is set
    Procs,          \* concurrent callers of createTransaction
    Keys,           \* idempotency keys
    Requests,       \* the [key, entries] records they submit
    NoProc,         \* no caller
    NoRequest       \* the request of a caller that has made none

ASSUME ActiveAssumption == ActiveAccounts \subseteq Accounts

ASSUME RequestAssumption ==
    Requests \subseteq [key : Keys, entries : Seq(Entry)]

ASSUME NoneAssumption == NoProc \notin Procs /\ NoRequest \notin Requests

VARIABLES
    pc,     \* where each caller stands
    req,    \* the request each caller last submitted
    next,   \* the line a caller's loop is at, 1 outside the loops
    lock,   \* the caller that holds each account's row lock
    draft,  \* the lines a caller has inserted and not yet committed
    book    \* the committed ledger transactions, in commit order

vars == <<pc, req, next, lock, draft, book>>

\* A stored line: the entry, its running balance and the rank of its createdAt.
Row == [entry : Entry, running : Int, at : Nat]

\* A committed ledger transaction with its lines.
Transaction == [key : Keys, rows : Seq(Row)]

Ended == {"idle", "done", "failed"}
Inserted == {"post", "commit"}
States == Ended \cup {"lock", "insert"} \cup Inserted

Entries(p) == req[p].entries

----------------------------------------------------------------------------
(***************************************************************************)
(* What a statement sees.                                                  *)
(***************************************************************************)
\* The ledger transactions committed under a key.
Committed(k) == {i \in DOMAIN book : book[i].key = k}

\* Mutant: a key counts as taken as soon as some caller has inserted it.
Existing_Uncommitted(k) ==
    \/ Committed(k) # {}
    \/ \E q \in Procs : pc[q] \in Inserted /\ req[q].key = k

\* findUnique on idempotencyKey.
Existing(k) == Committed(k) # {}

\* Mutant: idempotencyKey without its unique constraint.
KeyTaken_NotUnique(p) == FALSE

\* The unique index on idempotencyKey refuses the insert.
KeyTaken(p) == Committed(req[p].key) # {}

\* Callers whose uncommitted insert of the same key the insert has to wait for.
KeyHolders(p) == {q \in Procs \ {p} : /\ pc[q] \in Inserted
                                      /\ req[q].key = req[p].key}

\* The committed lines of account a, and those caller p sees in addition.
CommittedRows(a) ==
    {row \in UNION {Range(book[i].rows) : i \in DOMAIN book} :
        row.entry.account = a}
VisibleRows(p, a) ==
    CommittedRows(a) \cup {row \in Range(draft[p]) : row.entry.account = a}

\* createdAt of a line inserted now: that of the newest line, or a later one.
Timestamps(a) ==
    LET rows == CommittedRows(a) \cup UNION {VisibleRows(p, a) : p \in Procs}
    IN  UNION {{at, at + 1} \ {0} :
               at \in {t \in {0} \cup {row.at : row \in rows} :
                         \A row \in rows : row.at <= t}}

\* findFirst orderBy createdAt desc: any of the lines that share the last rank.
Latest(rows) == {row \in rows : \A other \in rows : other.at <= row.at}

----------------------------------------------------------------------------
(***************************************************************************)
(* The row locks.                                                          *)
(***************************************************************************)
\* Mutant: the account is read without FOR UPDATE.
Lockable_NoForUpdate(p, a) == TRUE

\* Mutant: a second line on an account waits for the lock of the first one.
Lockable_NotOwn(p, a) == lock[a] = NoProc

\* FOR UPDATE returns: nobody else holds the row.
Lockable(p, a) == lock[a] \in {p, NoProc}

\* The caller p waits for, as the database's lock manager sees it.
WaitsFor(p) ==
    CASE pc[p] = "lock" -> {lock[Entries(p)[next[p]].account]} \ {p, NoProc}
      [] pc[p] = "insert" -> KeyHolders(p)
      [] OTHER -> {}

\* p is on a cycle of callers each waiting for the next.
Deadlocked(p) ==
    \E S \in SUBSET Procs :
        /\ p \in S
        /\ \A q \in S : WaitsFor(q) # {}
        /\ UNION {WaitsFor(q) : q \in S} = S

\* The locks that are left when the transaction of p ends.
Unlocked(p) == [a \in Accounts |-> IF lock[a] = p THEN NoProc ELSE lock[a]]

----------------------------------------------------------------------------
Init ==
    /\ pc = [p \in Procs |-> "idle"]
    /\ req = [p \in Procs |-> NoRequest]
    /\ next = [p \in Procs |-> 1]
    /\ lock = [a \in Accounts |-> NoProc]
    /\ draft = [p \in Procs |-> <<>>]
    /\ book = <<>>

\* What createTransaction does before it opens its transaction: an existing
\* key is answered with the existing transaction, whatever the entries are;
\* unacceptable entries are refused; then the loops start.
Answer(r) ==
    CASE Existing(r.key) -> "done"
      [] ~Existing(r.key) /\ ~Acceptable(r.entries) -> "failed"
      [] OTHER -> "lock"

Call(p, r) ==
    /\ pc[p] \in Ended
    /\ req' = [req EXCEPT ![p] = r]
    /\ pc' = [pc EXCEPT ![p] = Answer(r)]
    /\ UNCHANGED <<next, lock, draft, book>>

\* Mutant: a failed call leaves its lines behind, as without a transaction.
Abandoned_KeepsRows(p) == draft

\* The uncommitted lines that are left when p's transaction rolls back.
Abandoned(p) == [draft EXCEPT ![p] = <<>>]

\* The transaction of p rolls back and its caller gets an exception.
RollBack(p) ==
    /\ pc' = [pc EXCEPT ![p] = "failed"]
    /\ lock' = Unlocked(p)
    /\ draft' = Abandoned(p)
    /\ next' = [next EXCEPT ![p] = 1]
    /\ UNCHANGED <<req, book>>

\* One turn of the first loop on a line whose account may be used.
LockAccount(p) ==
    LET a == Entries(p)[next[p]].account
        last == next[p] = Len(Entries(p))
    IN  /\ pc[p] = "lock"
        /\ a \in ActiveAccounts
        /\ Lockable(p, a)
        /\ lock' = [lock EXCEPT ![a] = p]
        /\ next' = [next EXCEPT ![p] = IF last THEN 1 ELSE next[p] + 1]
        /\ pc' = [pc EXCEPT ![p] = IF last THEN "insert" ELSE "lock"]
        /\ UNCHANGED <<req, draft, book>>

\* The account is inactive: the exception rolls the transaction back.
RefuseInactive(p) ==
    /\ pc[p] = "lock"
    /\ Entries(p)[next[p]].account \notin ActiveAccounts
    /\ RollBack(p)

\* ledgerTransaction.create, once no other insert of the key is in doubt.
InsertTransaction(p) ==
    /\ pc[p] = "insert"
    /\ KeyHolders(p) = {}
    /\ ~KeyTaken(p)
    /\ pc' = [pc EXCEPT ![p] = "post"]
    /\ UNCHANGED <<req, next, lock, draft, book>>

\* The key was committed since the lookup: P2002 is thrown to the caller.
RefuseDuplicate(p) ==
    /\ pc[p] = "insert"
    /\ KeyHolders(p) = {}
    /\ KeyTaken(p)
    /\ RollBack(p)

\* Mutant: the second loop stops one line early.
LastLine_OffByOne(p) == next[p] >= Len(Entries(p)) - 1

LastLine(p) == next[p] = Len(Entries(p))

\* One turn of the second loop: read the latest line, insert the next one.
PostLine(p) ==
    LET e == Entries(p)[next[p]]
        latest == Latest(VisibleRows(p, e.account))
        balances == IF latest = {} THEN {0} ELSE {r.running : r \in latest}
    IN  /\ pc[p] = "post"
        /\ \E previous \in balances, at \in Timestamps(e.account) :
             draft' = [draft EXCEPT ![p] =
                 Append(@, [entry |-> e,
                            running |-> previous + SignedDelta(e),
                            at |-> at])]
        /\ next' = [next EXCEPT ![p] = IF LastLine(p) THEN 1 ELSE next[p] + 1]
        /\ pc' = [pc EXCEPT ![p] = IF LastLine(p) THEN "commit" ELSE "post"]
        /\ UNCHANGED <<req, lock, book>>

Commit(p) ==
    /\ pc[p] = "commit"
    /\ book' = Append(book, [key |-> req[p].key, rows |-> draft[p]])
    /\ draft' = [draft EXCEPT ![p] = <<>>]
    /\ lock' = Unlocked(p)
    /\ pc' = [pc EXCEPT ![p] = "done"]
    /\ UNCHANGED <<req, next>>

\* The process dies, the connection is lost, or the caller's own transaction
\* that this posting is part of fails: everything uncommitted is undone.
Fail(p) == pc[p] \notin Ended /\ RollBack(p)

\* The database breaks a cycle of waiting callers by failing one of them.
BreakDeadlock(p) == pc[p] \notin Ended /\ Deadlocked(p) /\ RollBack(p)

----------------------------------------------------------------------------
Step(p) ==
    \/ LockAccount(p)
    \/ RefuseInactive(p)
    \/ InsertTransaction(p)
    \/ RefuseDuplicate(p)
    \/ PostLine(p)
    \/ Commit(p)
    \/ BreakDeadlock(p)

Next ==
    \E p \in Procs :
        \/ \E r \in Requests : Call(p, r)
        \/ Step(p)
        \/ Fail(p)

\* A caller that can go on does, the row locks are granted in the order they
\* were asked for (hence strong fairness), and the database looks for cycles.
Fairness == \A p \in Procs : WF_vars(Step(p)) /\ SF_vars(LockAccount(p))

Spec == Init /\ [][Next]_vars

FairSpec == Spec /\ Fairness

----------------------------------------------------------------------------
(***************************************************************************)
(* Properties.                                                             *)
(***************************************************************************)
\* Every variable has the shape the code gives it, and lines that are not
\* committed belong to a caller that is still inside its transaction.
TypeOK ==
    /\ pc \in [Procs -> States]
    /\ req \in [Procs -> Requests \cup {NoRequest}]
    /\ next \in [Procs -> Nat \ {0}]
    /\ lock \in [Accounts -> Procs \cup {NoProc}]
    /\ draft \in [Procs -> Seq(Row)]
    /\ \A p \in Procs : pc[p] \notin Inserted => draft[p] = <<>>
    /\ \A p \in Procs : pc[p] # "idle" => req[p] \in Requests
    /\ book \in Seq(Transaction)

Lines(rows) == [i \in DOMAIN rows |-> rows[i].entry]

\* The ledger as a whole is in balance: every committed transaction has equal
\* debits and credits, whatever was retried, refused or rolled back around it.
TrialBalance == \A i \in DOMAIN book : Balanced(Lines(book[i].rows))

\* createTransaction is idempotent on idempotencyKey: no two committed
\* transactions carry the same key, also when the callers' lookups overlap.
AtMostOncePerKey ==
    \A i, j \in DOMAIN book : book[i].key = book[j].key => i = j

\* A caller that got an answer, its own transaction or the existing one, finds
\* that key in the committed book: nothing uncommitted is ever answered.
AnsweredIsCommitted ==
    \A p \in Procs : pc[p] = "done" => Committed(req[p].key) # {}

\* The lock manager's view of the second loop: lines are only written to
\* accounts whose row the writer holds, so nobody else can be writing there.
PostsUnderLock ==
    \A p \in Procs :
        /\ pc[p] \in {"insert", "post", "commit"} =>
              \A i \in DOMAIN Entries(p) : lock[Entries(p)[i].account] = p
        /\ \A i \in DOMAIN draft[p] : lock[draft[p][i].entry.account] = p

\* All lines of an account, and whether their createdAt tell them apart.
Occurrences(a) ==
    UNION {{<<i, j>> : j \in {k \in DOMAIN book[i].rows :
                                  book[i].rows[k].entry.account = a}} :
           i \in DOMAIN book}
RowAt(o) == book[o[1]].rows[o[2]]
TieFree(a) ==
    \A o1, o2 \in Occurrences(a) : RowAt(o1).at = RowAt(o2).at => o1 = o2
Balance(rows) == SumFunction([o \in rows |-> SignedDelta(RowAt(o).entry)])

\* validateBalance and reconcile find nothing to report on an account whose
\* lines have distinct timestamps: each stored running balance is the sum of
\* the movements up to it, in spite of concurrent postings and rollbacks.
DistinctTimesAddUp ==
    \A a \in Accounts : TieFree(a) =>
        \A o \in Occurrences(a) : RowAt(o).running =
            Balance({x \in Occurrences(a) : RowAt(x).at <= RowAt(o).at})

\* "balance_after = previous_balance + debit - credit"
\* (docs/architecture/06-financial-ledger-model.md:215), so that the line that
\* was posted last, whichever it is, stores the balance of the account.
SomeLineHoldsBalance ==
    \A a \in Accounts : Occurrences(a) # {} =>
        \E o \in Occurrences(a) : RowAt(o).running = Balance(Occurrences(a))

\* Every call ends: with an answer or with an exception, never waiting on
\* another caller for ever, although the locks are taken in line order.
EveryCallEnds == \A p \in Procs : pc[p] \notin Ended ~> pc[p] \in Ended

\* The abstract journal that the committed book stands for.
Journal == INSTANCE IdempotentJournal WITH
    Bookable <- {r \in Requests : Balanced(r.entries)},
    journal <- {[key |-> book[i].key, entries |-> Lines(book[i].rows)] :
                    i \in DOMAIN book}

\* The committed book is an idempotent journal of the callers' balanced
\* requests: createTransaction adds them whole, once per key, and no
\* interleaving, roll-back or retry takes one away or changes it.
ImplementsJournal == Journal!Spec
=============================================================================
