---------------------------- MODULE LedgerProofs ----------------------------
(***************************************************************************)
(* Proofs about Ledger, for any accounts, callers and requests.  IInv is   *)
(* the inductive invariant: what the safety properties rest on, namely     *)
(* where a caller's loops stand, that its locks cover its lines, and that  *)
(* the keys of uncommitted transactions are unlike all others.  RunningInv *)
(* adds that the lines of an account add up, both the committed ones and   *)
(* those each caller sees.                                                 *)
(***************************************************************************)
EXTENDS Ledger, SumLemmas, TLAPS

\* A caller inside its transaction works on acceptable lines, its loop index
\* is at one of them, and its draft is the part of them it has been through.
Looping(p) ==
    /\ pc[p] \notin Ended => req[p] \in Requests /\ Acceptable(Entries(p))
    /\ pc[p] \in {"lock", "post"} => next[p] \in DOMAIN Entries(p)
    /\ pc[p] \notin {"lock", "post"} => next[p] = 1
    /\ pc[p] = "post" => Len(draft[p]) = next[p] - 1
    /\ pc[p] = "commit" => Len(draft[p]) = Len(Entries(p))
    /\ \A i \in DOMAIN draft[p] : draft[p][i].entry = Entries(p)[i]

LoopInv == \A p \in Procs : Looping(p)

\* The accounts of the lines a caller has been through, or of all its lines
\* once it is past the first loop, are locked by it.
Covered(p) ==
    /\ pc[p] = "lock" =>
          \A i \in 1 .. (next[p] - 1) : lock[Entries(p)[i].account] = p
    /\ pc[p] \in {"insert", "post", "commit"} =>
          \A i \in DOMAIN Entries(p) : lock[Entries(p)[i].account] = p

LockInv == \A p \in Procs : Covered(p)

\* A key is in the committed book or in one uncommitted insert, never twice.
KeyInv ==
    /\ AtMostOncePerKey
    /\ \A p \in Procs : pc[p] \in Inserted => Committed(req[p].key) = {}
    /\ \A p, q \in Procs :
          /\ pc[p] \in Inserted
          /\ pc[q] \in Inserted
          /\ req[p].key = req[q].key
          => p = q

IInv ==
    /\ TypeOK
    /\ LoopInv
    /\ LockInv
    /\ KeyInv
    /\ TrialBalance
    /\ AnsweredIsCommitted

USE DEF Ended, Inserted, States, Entries, Looping, Covered, vars

\* What the work of a caller inside its transaction looks like.
LEMMA InsideFacts ==
    ASSUME TypeOK, LoopInv, NEW p \in Procs, pc[p] \notin Ended
    PROVE  /\ req[p] \in Requests
           /\ req[p] = [key |-> req[p].key, entries |-> req[p].entries]
           /\ req[p].key \in Keys
           /\ req[p].entries \in Seq(Entry)
           /\ Len(req[p].entries) \in Nat
           /\ Len(req[p].entries) >= 2
           /\ DOMAIN req[p].entries = 1 .. Len(req[p].entries)
           /\ \A i \in DOMAIN req[p].entries :
                 /\ req[p].entries[i] \in Entry
                 /\ req[p].entries[i].account \in Accounts
           /\ Balanced(req[p].entries)
<1>1. req[p] \in Requests /\ Acceptable(req[p].entries)
  BY DEF LoopInv
<1>2. req[p] \in [key : Keys, entries : Seq(Entry)]
  BY <1>1, RequestAssumption
<1>3. req[p].entries \in Seq(Entry)
  BY <1>2
<1>4. \A i \in DOMAIN req[p].entries : req[p].entries[i] \in Entry
  BY <1>3
<1>5. \A e \in Entry : e.account \in Accounts
  BY DEF Entry
<1> QED
  BY <1>1, <1>2, <1>3, <1>4, <1>5 DEF Acceptable

\* A caller that keeps its place keeps what it has locked, when no lock is
\* taken from it.
LEMMA OthersStayCovered ==
    ASSUME TypeOK, LoopInv, LockInv, NEW q \in Procs,
           pc'[q] = pc[q], req'[q] = req[q], next'[q] = next[q],
           \A a \in Accounts : lock[a] = q => lock'[a] = q
    PROVE  Covered(q)'
<1>1. CASE pc[q] \in Ended
  BY <1>1
<1>2. CASE pc[q] \notin Ended
  <2>1. /\ DOMAIN req[q].entries = 1 .. Len(req[q].entries)
        /\ Len(req[q].entries) \in Nat
        /\ \A i \in DOMAIN req[q].entries :
              req[q].entries[i].account \in Accounts
    BY <1>2, InsideFacts
  <2>2. pc[q] = "lock" => next[q] \in 1 .. Len(req[q].entries)
    BY <1>2, <2>1 DEF LoopInv
  <2> QED
    BY <1>2, <2>1, <2>2 DEF LockInv
<1> QED
  BY <1>1, <1>2

\* Initially nothing is booked and nobody is inside a transaction.
LEMMA InitEstablishes == Init => IInv
<1> SUFFICES ASSUME Init PROVE IInv
  OBVIOUS
<1>1. TypeOK
  BY DEF Init, TypeOK
<1>2. LoopInv /\ LockInv
  BY DEF Init, LoopInv, LockInv
<1>3. KeyInv /\ TrialBalance /\ AnsweredIsCommitted
  BY DEF Init, KeyInv, TrialBalance, AnsweredIsCommitted, AtMostOncePerKey
<1> QED
  BY <1>1, <1>2, <1>3 DEF IInv

\* A new call touches only its caller's place and request.
LEMMA CallPreserves ==
    ASSUME IInv, NEW p \in Procs, NEW r \in Requests, Call(p, r)
    PROVE  IInv'
<1> USE DEF IInv, Call
<1>1. Answer(r) \in {"done", "failed", "lock"}
  BY DEF Answer
<1>2. TypeOK'
  BY <1>1 DEF TypeOK
<1>3. Answer(r) = "lock" => Acceptable(r.entries) /\ DOMAIN r.entries = 1 .. Len(r.entries)
                            /\ Len(r.entries) \in Nat
  BY RequestAssumption DEF Answer, Acceptable
<1>4. LoopInv'
  <2> SUFFICES ASSUME NEW q \in Procs
               PROVE  Looping(q)'
    BY DEF LoopInv
  <2>1. CASE q = p
    <3>1. draft[p] = <<>> /\ next[p] = 1
      BY DEF TypeOK, LoopInv
    <3>2. req'[p] = r /\ pc'[p] = Answer(r) /\ draft'[p] = <<>> /\ next'[p] = 1
      BY <3>1 DEF TypeOK
    <3> QED
      BY <1>1, <1>3, <2>1, <3>2 DEF Acceptable
  <2>2. CASE q # p
    BY <2>2 DEF LoopInv, TypeOK
  <2> QED
    BY <2>1, <2>2
<1>5. LockInv'
  BY <1>1 DEF LockInv, LoopInv, TypeOK
<1>6. KeyInv'
  BY <1>1 DEF KeyInv, AtMostOncePerKey, Committed, TypeOK
<1>7. TrialBalance'
  BY DEF TrialBalance, Lines
<1>8. AnsweredIsCommitted'
  <2>1. Answer(r) = "done" => Committed(r.key) # {}
    BY DEF Answer, Existing
  <2> QED
    BY <2>1 DEF AnsweredIsCommitted, Committed, TypeOK
<1> QED
  BY <1>2, <1>4, <1>5, <1>6, <1>7, <1>8

\* Whatever makes a transaction roll back, the others keep what they rely on.
LEMMA RollBackPreserves ==
    ASSUME IInv, NEW p \in Procs, pc[p] \notin Ended, RollBack(p)
    PROVE  IInv'
<1> USE DEF IInv, RollBack, Abandoned, Unlocked
<1>1. TypeOK'
  BY DEF TypeOK
<1>2. LoopInv'
  BY DEF LoopInv, TypeOK
<1>3. LockInv'
  <2>1. pc'[p] = "failed"
    BY DEF TypeOK
  <2>2. ASSUME NEW q \in Procs, q # p
        PROVE  Covered(q)'
    <3>1. \A a \in Accounts : lock[a] = q => lock'[a] = q
      BY <2>2
    <3>2. pc'[q] = pc[q] /\ req'[q] = req[q] /\ next'[q] = next[q]
      BY <2>2 DEF TypeOK
    <3> QED
      BY <3>1, <3>2, OthersStayCovered
  <2> QED
    BY <2>1, <2>2 DEF LockInv
<1>4. KeyInv'
  BY DEF KeyInv, AtMostOncePerKey, Committed, TypeOK
<1>5. TrialBalance'
  BY DEF TrialBalance, Lines
<1>6. AnsweredIsCommitted'
  BY DEF AnsweredIsCommitted, Committed, TypeOK
<1> QED
  BY <1>1, <1>2, <1>3, <1>4, <1>5, <1>6

\* Taking a row lock extends the caller's own locks and takes nobody else's.
LEMMA LockAccountPreserves ==
    ASSUME IInv, NEW p \in Procs, LockAccount(p)
    PROVE  IInv'
<1> USE DEF IInv
<1> DEFINE a == Entries(p)[next[p]].account
           n == Len(Entries(p))
<1>1. /\ pc[p] = "lock"
      /\ lock[a] \in {p, NoProc}
      /\ lock' = [lock EXCEPT ![a] = p]
      /\ next' = [next EXCEPT ![p] = IF next[p] = n THEN 1 ELSE next[p] + 1]
      /\ pc' = [pc EXCEPT ![p] = IF next[p] = n THEN "insert" ELSE "lock"]
      /\ UNCHANGED <<req, draft, book>>
  BY DEF LockAccount, Lockable
<1>2. /\ n \in Nat /\ n >= 2 /\ DOMAIN Entries(p) = 1 .. n
      /\ next[p] \in 1 .. n
      /\ \A i \in 1 .. n : Entries(p)[i].account \in Accounts
  BY <1>1, InsideFacts DEF LoopInv
<1>3. TypeOK'
  BY <1>1, <1>2 DEF TypeOK
<1>4. LoopInv'
  BY <1>1, <1>2 DEF LoopInv, TypeOK
<1>5. LockInv'
  <2>1. Covered(p)'
    <3>1. \A i \in 1 .. next[p] : lock'[Entries(p)[i].account] = p
      <4> SUFFICES ASSUME NEW i \in 1 .. next[p]
                   PROVE  lock'[Entries(p)[i].account] = p
        OBVIOUS
      <4>1. CASE i = next[p]
        BY <1>1, <1>2, <4>1 DEF TypeOK
      <4>2. CASE i # next[p]
        <5>1. i \in 1 .. (next[p] - 1) /\ i \in 1 .. n
          BY <1>2, <4>2
        <5>2. lock[Entries(p)[i].account] = p
          BY <1>1, <5>1 DEF LockInv
        <5> QED
          BY <1>1, <1>2, <5>1, <5>2 DEF TypeOK
      <4> QED
        BY <4>1, <4>2
    <3>2. req'[p] = req[p] /\ pc'[p] \in {"lock", "insert"}
      BY <1>1 DEF TypeOK
    <3>3. CASE next[p] = n
      <4>1. pc'[p] = "insert"
        BY <1>1, <3>3 DEF TypeOK
      <4> QED
        BY <1>2, <3>1, <3>2, <3>3, <4>1
    <3>4. CASE next[p] # n
      <4>1. pc'[p] = "lock" /\ next'[p] = next[p] + 1
        BY <1>1, <3>4 DEF TypeOK
      <4> QED
        BY <1>2, <3>1, <3>2, <4>1
    <3> QED
      BY <3>3, <3>4
  <2>2. ASSUME NEW q \in Procs, q # p
        PROVE  Covered(q)'
    <3>1. \A x \in Accounts : lock[x] = q => lock'[x] = q
      BY <1>1, <2>2, NoneAssumption DEF TypeOK
    <3>2. pc'[q] = pc[q] /\ req'[q] = req[q] /\ next'[q] = next[q]
      BY <1>1, <2>2 DEF TypeOK
    <3> QED
      BY <3>1, <3>2, OthersStayCovered
  <2> QED
    BY <2>1, <2>2 DEF LockInv
<1>6. KeyInv'
  BY <1>1 DEF KeyInv, AtMostOncePerKey, Committed, TypeOK
<1>7. TrialBalance'
  BY <1>1 DEF TrialBalance, Lines
<1>8. AnsweredIsCommitted'
  BY <1>1 DEF AnsweredIsCommitted, Committed, TypeOK
<1> QED
  BY <1>3, <1>4, <1>5, <1>6, <1>7, <1>8

\* The unique index lets a key in only when nobody else has it.
LEMMA InsertPreserves ==
    ASSUME IInv, NEW p \in Procs, InsertTransaction(p)
    PROVE  IInv'
<1> USE DEF IInv, InsertTransaction
<1>1. TypeOK'
  BY DEF TypeOK
<1>2. LoopInv'
  <2>1. 1 \in DOMAIN Entries(p)
    <3>1. pc[p] \notin Ended
      OBVIOUS
    <3>2. /\ DOMAIN req[p].entries = 1 .. Len(req[p].entries)
          /\ Len(req[p].entries) \in Nat
          /\ Len(req[p].entries) >= 2
      BY <3>1, InsideFacts
    <3> QED
      BY <3>2
  <2>2. next[p] = 1 /\ draft[p] = <<>>
    BY DEF LoopInv, TypeOK
  <2> QED
    BY <2>1, <2>2 DEF LoopInv, TypeOK
<1>3. LockInv'
  BY DEF LockInv, TypeOK
<1>4. KeyInv'
  <2>1. Committed(req[p].key) = {}
    BY DEF KeyTaken
  <2>2. \A q \in Procs \ {p} : pc[q] \in Inserted => req[q].key # req[p].key
    BY DEF KeyHolders
  <2> QED
    BY <2>1, <2>2 DEF KeyInv, AtMostOncePerKey, Committed, TypeOK
<1>5. TrialBalance'
  BY DEF TrialBalance, Lines
<1>6. AnsweredIsCommitted'
  BY DEF AnsweredIsCommitted, Committed, TypeOK
<1> QED
  BY <1>1, <1>2, <1>3, <1>4, <1>5, <1>6

\* What a statement reads are stored lines.
LEMMA RowsAreRows ==
    ASSUME TypeOK, NEW a
    PROVE  /\ CommittedRows(a) \subseteq Row
           /\ \A p \in Procs : VisibleRows(p, a) \subseteq Row
<1>1. \A i \in DOMAIN book : book[i].rows \in Seq(Row)
  <2>1. \A i \in DOMAIN book : book[i] \in Transaction
    BY DEF TypeOK
  <2> QED
    BY <2>1 DEF Transaction
<1>2. \A rows \in Seq(Row) : Range(rows) \subseteq Row
  BY DEF Range
<1>3. CommittedRows(a) \subseteq Row
  BY <1>1, <1>2 DEF CommittedRows
<1>4. \A p \in Procs : Range(draft[p]) \subseteq Row
  BY <1>2 DEF TypeOK
<1> QED
  BY <1>3, <1>4 DEF VisibleRows

\* A createdAt the model offers a new line is a rank.
LEMMA TimestampsAreNat ==
    ASSUME TypeOK, NEW a
    PROVE  Timestamps(a) \subseteq Nat
<1> DEFINE rows == CommittedRows(a) \cup UNION {VisibleRows(p, a) : p \in Procs}
<1>1. rows \subseteq Row
  BY RowsAreRows
<1>2. \A row \in rows : row.at \in Nat
  BY <1>1 DEF Row
<1>3. {0} \cup {row.at : row \in rows} \subseteq Nat
  BY <1>2
<1>4. \A t \in Nat : {t, t + 1} \ {0} \subseteq Nat
  OBVIOUS
<1> QED
  BY <1>3, <1>4 DEF Timestamps

\* A new line is a stored line, and the draft stays a part of the request.
LEMMA PostLinePreserves ==
    ASSUME IInv, NEW p \in Procs, PostLine(p)
    PROVE  IInv'
<1> USE DEF IInv
<1> DEFINE e == Entries(p)[next[p]]
           n == Len(Entries(p))
           latest == Latest(VisibleRows(p, e.account))
           balances == IF latest = {} THEN {0} ELSE {r.running : r \in latest}
<1>1. /\ pc[p] = "post"
      /\ next' = [next EXCEPT ![p] = IF next[p] = n THEN 1 ELSE next[p] + 1]
      /\ pc' = [pc EXCEPT ![p] = IF next[p] = n THEN "commit" ELSE "post"]
      /\ UNCHANGED <<req, lock, book>>
  BY DEF PostLine, LastLine
<1>2. PICK previous \in balances, at \in Timestamps(e.account) :
        draft' = [draft EXCEPT ![p] =
            Append(@, [entry |-> e, running |-> previous + SignedDelta(e),
                       at |-> at])]
  BY DEF PostLine
<1>3. /\ n \in Nat /\ DOMAIN Entries(p) = 1 .. n
      /\ next[p] \in 1 .. n
      /\ e \in Entry
  BY <1>1, InsideFacts DEF LoopInv
<1> DEFINE row == [entry |-> e, running |-> previous + SignedDelta(e), at |-> at]
<1>4. row \in Row
  <2>1. previous \in Int
    <3>1. latest \subseteq Row
      BY RowsAreRows DEF Latest
    <3> QED
      BY <3>1 DEF Row
  <2>2. SignedDelta(e) \in Int
    BY <1>3 DEF SignedDelta, Entry
  <2>3. at \in Nat
    BY TimestampsAreNat
  <2> QED
    BY <1>3, <2>1, <2>2, <2>3 DEF Row
<1>5. /\ draft[p] \in Seq(Row) /\ Len(draft[p]) = next[p] - 1
      /\ draft'[p] = Append(draft[p], row)
      /\ \A q \in Procs \ {p} : draft'[q] = draft[q]
  BY <1>1, <1>2 DEF TypeOK, LoopInv
<1> HIDE DEF row
<1>6. /\ draft'[p] \in Seq(Row) /\ Len(draft'[p]) = next[p]
      /\ \A i \in 1 .. (next[p] - 1) : draft'[p][i] = draft[p][i]
      /\ draft'[p][next[p]] = row
  BY <1>3, <1>4, <1>5
<1>7. TypeOK'
  <2>1. draft' \in [Procs -> Seq(Row)]
    BY <1>2, <1>4 DEF TypeOK, row
  <2>2. next' \in [Procs -> Nat \ {0}]
    BY <1>1, <1>3 DEF TypeOK
  <2>3. pc' \in [Procs -> States] /\ pc'[p] \in Inserted
    BY <1>1 DEF TypeOK
  <2>4. \A q \in Procs : pc'[q] \notin Inserted => draft'[q] = <<>>
    BY <1>1, <1>5, <2>3 DEF TypeOK
  <2>5. \A q \in Procs : pc'[q] # "idle" => req'[q] \in Requests
    BY <1>1 DEF TypeOK
  <2> QED
    BY <1>1, <2>1, <2>2, <2>3, <2>4, <2>5 DEF TypeOK
<1>8. LoopInv'
  <2>1. Looping(p)'
    <3>1. \A i \in DOMAIN draft'[p] : draft'[p][i].entry = Entries(p)[i]
      <4> SUFFICES ASSUME NEW i \in 1 .. next[p]
                   PROVE  draft'[p][i].entry = Entries(p)[i]
        BY <1>3, <1>6
      <4>1. CASE i = next[p]
        BY <1>6, <4>1 DEF row
      <4>2. CASE i # next[p]
        BY <1>3, <1>5, <1>6, <4>2 DEF LoopInv
      <4> QED
        BY <4>1, <4>2
    <3>2. req'[p] = req[p] /\ req[p] \in Requests /\ Acceptable(Entries(p))
      BY <1>1 DEF LoopInv
    <3>3. CASE next[p] = n
      <4>1. pc'[p] = "commit" /\ next'[p] = 1
        BY <1>1, <3>3 DEF TypeOK
      <4> QED
        BY <1>6, <3>1, <3>2, <3>3, <4>1
    <3>4. CASE next[p] # n
      <4>1. pc'[p] = "post" /\ next'[p] = next[p] + 1
        BY <1>1, <3>4 DEF TypeOK
      <4> QED
        BY <1>3, <1>6, <3>1, <3>2, <3>4, <4>1
    <3> QED
      BY <3>3, <3>4
  <2>2. ASSUME NEW q \in Procs, q # p
        PROVE  Looping(q)'
    BY <1>1, <1>5, <2>2 DEF LoopInv, TypeOK
  <2> QED
    BY <2>1, <2>2 DEF LoopInv
<1>9. LockInv'
  BY <1>1 DEF LockInv, TypeOK
<1>10. KeyInv'
  BY <1>1 DEF KeyInv, AtMostOncePerKey, Committed, TypeOK
<1>11. TrialBalance'
  BY <1>1 DEF TrialBalance, Lines
<1>12. AnsweredIsCommitted'
  BY <1>1 DEF AnsweredIsCommitted, Committed, TypeOK
<1> QED
  BY <1>7, <1>8, <1>9, <1>10, <1>11, <1>12

\* The lines of a finished draft are the lines of its request.
LEMMA DraftIsRequest ==
    ASSUME IInv, NEW p \in Procs, pc[p] = "commit"
    PROVE  Lines(draft[p]) = Entries(p)
<1>1. /\ req[p].entries \in Seq(Entry)
      /\ DOMAIN req[p].entries = 1 .. Len(req[p].entries)
  BY InsideFacts DEF IInv
<1>2. draft[p] \in Seq(Row) /\ Len(draft[p]) = Len(req[p].entries)
  BY DEF IInv, TypeOK, LoopInv
<1>3. \A i \in DOMAIN draft[p] : draft[p][i].entry = req[p].entries[i]
  BY DEF IInv, LoopInv
<1> QED
  BY <1>1, <1>2, <1>3 DEF Lines

\* A commit adds the caller's own lines under a key nobody else has booked.
LEMMA CommitPreserves ==
    ASSUME IInv, NEW p \in Procs, Commit(p)
    PROVE  IInv'
<1> USE DEF IInv
<1> DEFINE t == [key |-> req[p].key, rows |-> draft[p]]
<1>1. /\ pc[p] = "commit"
      /\ book' = Append(book, t)
      /\ draft' = [draft EXCEPT ![p] = <<>>]
      /\ lock' = Unlocked(p)
      /\ pc' = [pc EXCEPT ![p] = "done"]
      /\ UNCHANGED <<req, next>>
  BY DEF Commit
<1>2. req[p] \in Requests /\ req[p].key \in Keys /\ Balanced(Entries(p))
  BY <1>1, InsideFacts
<1>3. t \in Transaction
  BY <1>2 DEF TypeOK, Transaction
<1>4. TypeOK'
  BY <1>1, <1>3 DEF TypeOK, Unlocked
<1>5. /\ Len(book) \in Nat /\ DOMAIN book = 1 .. Len(book)
      /\ DOMAIN book' = 1 .. (Len(book) + 1)
      /\ \A i \in DOMAIN book : book'[i] = book[i]
      /\ book'[Len(book) + 1] = t
  BY <1>1, <1>3 DEF TypeOK
<1>6. LoopInv'
  BY <1>1 DEF LoopInv, TypeOK
<1>7. LockInv'
  <2>1. ASSUME NEW q \in Procs, q # p
        PROVE  Covered(q)'
    <3>1. \A a \in Accounts : lock[a] = q => lock'[a] = q
      BY <1>1, <2>1 DEF Unlocked
    <3>2. pc'[q] = pc[q] /\ req'[q] = req[q] /\ next'[q] = next[q]
      BY <1>1, <2>1 DEF TypeOK
    <3> QED
      BY <3>1, <3>2, OthersStayCovered
  <2> QED
    BY <1>1, <2>1 DEF LockInv, TypeOK
<1>8. KeyInv'
  <2>1. \A i \in DOMAIN book : book[i].key # req[p].key
    BY <1>1 DEF KeyInv, Committed
  <2>2. AtMostOncePerKey'
    BY <1>5, <2>1 DEF KeyInv, AtMostOncePerKey
  <2>3. \A q \in Procs : pc'[q] \in Inserted =>
            /\ q # p /\ pc[q] \in Inserted /\ req'[q] = req[q]
            /\ req[q].key # req[p].key
    BY <1>1 DEF KeyInv, TypeOK
  <2>4. \A q \in Procs : pc'[q] \in Inserted => (Committed(req[q].key) = {})'
    BY <1>5, <2>3 DEF KeyInv, Committed
  <2> QED
    BY <1>1, <2>2, <2>3, <2>4 DEF KeyInv
<1>9. TrialBalance'
  <2>1. Lines(draft[p]) = Entries(p)
    BY <1>1, DraftIsRequest
  <2>2. Balanced(Lines(t.rows))
    BY <1>2, <2>1
  <2> QED
    BY <1>5, <2>2 DEF TrialBalance, Lines
<1>10. AnsweredIsCommitted'
  <2>1. book'[Len(book) + 1].key = req'[p].key
    BY <1>1, <1>5
  <2>2. \A q \in Procs \ {p} : pc'[q] = pc[q] /\ req'[q] = req[q]
    BY <1>1 DEF TypeOK
  <2>3. \A q \in Procs \ {p} : pc[q] = "done" =>
            \E i \in DOMAIN book : book'[i].key = req[q].key
    BY <1>5 DEF AnsweredIsCommitted, Committed
  <2>4. DOMAIN book \subseteq DOMAIN book' /\ Len(book) + 1 \in DOMAIN book'
    BY <1>5
  <2> QED
    BY <2>1, <2>2, <2>3, <2>4 DEF AnsweredIsCommitted, Committed
<1> QED
  BY <1>4, <1>6, <1>7, <1>8, <1>9, <1>10

\* The invariant is kept by every step of every caller.
LEMMA NextPreserves == IInv /\ [Next]_vars => IInv'
<1> SUFFICES ASSUME IInv, [Next]_vars PROVE IInv'
  OBVIOUS
<1>1. CASE Next
  <2>1. PICK p \in Procs : (\E r \in Requests : Call(p, r)) \/ Step(p) \/ Fail(p)
    BY <1>1 DEF Next
  <2>2. CASE \E r \in Requests : Call(p, r)
    BY <2>2, CallPreserves
  <2>3. CASE LockAccount(p)
    BY <2>3, LockAccountPreserves
  <2>4. CASE RefuseInactive(p)
    BY <2>4, RollBackPreserves DEF RefuseInactive
  <2>5. CASE InsertTransaction(p)
    BY <2>5, InsertPreserves
  <2>6. CASE RefuseDuplicate(p)
    BY <2>6, RollBackPreserves DEF RefuseDuplicate
  <2>7. CASE PostLine(p)
    BY <2>7, PostLinePreserves
  <2>8. CASE Commit(p)
    BY <2>8, CommitPreserves
  <2>9. CASE BreakDeadlock(p)
    BY <2>9, RollBackPreserves DEF BreakDeadlock
  <2>10. CASE Fail(p)
    BY <2>10, RollBackPreserves DEF Fail
  <2> QED
    BY <2>1, <2>2, <2>3, <2>4, <2>5, <2>6, <2>7, <2>8, <2>9, <2>10 DEF Step
<1>2. CASE UNCHANGED vars
  <2>1. TypeOK'
    BY <1>2 DEF IInv, TypeOK
  <2>2. LoopInv' /\ LockInv'
    BY <1>2 DEF IInv, LoopInv, LockInv
  <2>3. KeyInv'
    BY <1>2 DEF IInv, KeyInv, AtMostOncePerKey, Committed
  <2>4. TrialBalance' /\ AnsweredIsCommitted'
    BY <1>2 DEF IInv, TrialBalance, Lines, AnsweredIsCommitted, Committed
  <2> QED
    BY <2>1, <2>2, <2>3, <2>4 DEF IInv
<1> QED
  BY <1>1, <1>2

\* What createTransaction's callers rely on holds in every reachable state.
LEMMA Invariance == Spec => []IInv
<1>1. Init => IInv
  BY InitEstablishes
<1>2. IInv /\ [Next]_vars => IInv'
  BY NextPreserves
<1> QED
  BY <1>1, <1>2, PTL DEF Spec

\* The state of createTransaction always has its type (ledger.service.ts).
THEOREM TypeCorrect == Spec => []TypeOK
<1>1. IInv => TypeOK
  BY DEF IInv
<1> QED
  BY <1>1, Invariance, PTL

\* For any callers and requests, the committed ledger is in balance.
THEOREM LedgerBalances == Spec => []TrialBalance
<1>1. IInv => TrialBalance
  BY DEF IInv
<1> QED
  BY <1>1, Invariance, PTL

\* For any callers and requests, a key is committed at most once.
THEOREM LedgerIsIdempotent == Spec => []AtMostOncePerKey
<1>1. IInv => AtMostOncePerKey
  BY DEF IInv, KeyInv
<1> QED
  BY <1>1, Invariance, PTL

\* An answer is only ever given for a key that is committed.
THEOREM AnswersAreDurable == Spec => []AnsweredIsCommitted
<1>1. IInv => AnsweredIsCommitted
  BY DEF IInv
<1> QED
  BY <1>1, Invariance, PTL

\* Whoever has uncommitted lines on an account holds its row lock.
LEMMA PostersHoldLocks == IInv => PostsUnderLock
<1> SUFFICES ASSUME IInv, NEW p \in Procs
             PROVE  PostsUnderLock!(p)
  BY DEF PostsUnderLock
<1>1. pc[p] \in {"insert", "post", "commit"} =>
          \A i \in DOMAIN Entries(p) : lock[Entries(p)[i].account] = p
  BY DEF IInv, LockInv
<1>2. ASSUME NEW i \in DOMAIN draft[p]
      PROVE  lock[draft[p][i].entry.account] = p
  <2>1. pc[p] \in Inserted
    BY <1>2 DEF IInv, TypeOK
  <2>2. /\ DOMAIN req[p].entries = 1 .. Len(req[p].entries)
        /\ Len(req[p].entries) \in Nat
    BY <2>1, InsideFacts DEF IInv
  <2>3. draft[p] \in Seq(Row) /\ Len(draft[p]) <= Len(Entries(p))
    BY <2>1, <2>2 DEF IInv, TypeOK, LoopInv
  <2>4. i \in DOMAIN Entries(p) /\ draft[p][i].entry = Entries(p)[i]
    BY <2>2, <2>3 DEF IInv, LoopInv
  <2> QED
    BY <1>1, <2>1, <2>4
<1> QED
  BY <1>1, <1>2

\* Lines are only written to accounts whose row lock the writer holds.
THEOREM LinesAreLocked == Spec => []PostsUnderLock
BY PostersHoldLocks, Invariance, PTL

\* The book that createTransaction keeps is an idempotent journal of whole,
\* balanced transactions: every step adds one of them or adds nothing.
THEOREM LedgerImplementsJournal == Spec => ImplementsJournal
<1> DEFINE view == {[key |-> book[i].key, entries |-> Lines(book[i].rows)] :
                        i \in DOMAIN book}
<1>1. Init => Journal!Init
  BY DEF Init, Journal!Init
<1>2. IInv /\ [Next]_vars => [Journal!Next]_view
  <2> SUFFICES ASSUME IInv, [Next]_vars
               PROVE  Journal!Next \/ view' = view
    OBVIOUS
  <2>1. CASE UNCHANGED book
    BY <2>1 DEF Lines
  <2>2. ASSUME NEW p \in Procs, Commit(p)
        PROVE  Journal!Next
    <3> DEFINE t == [key |-> req[p].key, rows |-> draft[p]]
    <3>1. pc[p] = "commit" /\ book' = Append(book, t)
      BY <2>2 DEF Commit
    <3>2. /\ req[p] \in Requests
          /\ req[p] = [key |-> req[p].key, entries |-> Entries(p)]
          /\ Balanced(req[p].entries)
      BY <3>1, InsideFacts DEF IInv
    <3>3. \A i \in DOMAIN book : book[i].key # req[p].key
      BY <3>1 DEF IInv, KeyInv, Committed
    <3>4. Lines(draft[p]) = Entries(p)
      BY <3>1, DraftIsRequest
    <3>5. book \in Seq(Transaction) /\ t \in Transaction
      BY <2>2, <3>2, RequestAssumption DEF IInv, TypeOK, Transaction
    <3>6. /\ DOMAIN book' = DOMAIN book \cup {Len(book) + 1}
          /\ \A i \in DOMAIN book : book'[i] = book[i]
          /\ book'[Len(book) + 1] = t
      BY <3>1, <3>5
    <3>7. view' = view \cup {[key |-> t.key, entries |-> Lines(t.rows)]}
      BY <3>6 DEF Lines
    <3>8. view' = view \cup {req[p]}
      BY <3>2, <3>4, <3>7
    <3>9. \A u \in view : u.key # req[p].key
      BY <3>3
    <3> QED
      BY <3>2, <3>8, <3>9 DEF Journal!Next, Journal!Book
  <2>3. UNCHANGED book \/ \E p \in Procs : Commit(p)
    BY DEF Next, Step, Call, LockAccount, RefuseInactive, InsertTransaction,
       RefuseDuplicate, PostLine, BreakDeadlock, Fail, RollBack
  <2> QED
    BY <2>1, <2>2, <2>3
<1> QED
  BY <1>1, <1>2, Invariance, PTL DEF Spec, ImplementsJournal, Journal!Spec


(***************************************************************************)
(* Running balances.  A family of stored lines is a function from places   *)
(* to lines: the committed lines of an account, or the lines a caller sees *)
(* on it, where a line of its own draft has transaction number 0.          *)
(***************************************************************************)
Moves(line) == [x \in DOMAIN line |-> SignedDelta(line[x].entry)]
Until(line, o) == {x \in DOMAIN line : line[x].at <= line[o].at}
Apart(line) == \A x, y \in DOMAIN line : line[x].at = line[y].at => x = y

\* Each line of the family stores the sum of the movements up to it, if no
\* two of them share a createdAt.
AddsUp(line) ==
    /\ IsFiniteSet(DOMAIN line)
    /\ Apart(line) =>
          \A o \in DOMAIN line :
              line[o].running = SumFunctionOnSet(Moves(line), Until(line, o))

Drafted(p, a) == {<<0, j>> : j \in {k \in DOMAIN draft[p] :
                                        draft[p][k].entry.account = a}}
StoredLines(a) == [o \in Occurrences(a) |-> RowAt(o)]
SeenLines(p, a) ==
    [o \in Occurrences(a) \cup Drafted(p, a) |->
        IF o[1] = 0 THEN draft[p][o[2]] ELSE RowAt(o)]

RunningInv ==
    \A a \in Accounts :
        /\ AddsUp(StoredLines(a))
        /\ \A p \in Procs : AddsUp(SeenLines(p, a))

\* A line moves the balance by a whole amount.
LEMMA MoveType ==
    ASSUME NEW r \in Row
    PROVE  SignedDelta(r.entry) \in Int /\ r.running \in Int /\ r.at \in Int
BY DEF Row, Entry, SignedDelta

\* The family more is the family line, which adds up, and one line n after all
\* of its lines, whose running balance starts from that of one of the last.
Continues(O, line, n, previous, more) ==
    /\ line \in [O -> Row] /\ AddsUp(line)
    /\ n \notin O /\ previous \in Int
    /\ more \in [O \cup {n} -> Row]
    /\ \A x \in O : more[x] = line[x]
    /\ \A x \in O : line[x].at <= more[n].at
    /\ more[n].running = previous + SignedDelta(more[n].entry)
    /\ O = {} => previous = 0
    /\ O # {} => \E m \in O : /\ previous = line[m].running
                             /\ \A x \in O : line[x].at <= line[m].at

\* Such a family adds up in its turn.
LEMMA OneMoreAddsUp ==
    ASSUME NEW O, NEW line, NEW n, NEW previous, NEW more,
           Continues(O, line, n, previous, more)
    PROVE  AddsUp(more)
<1> USE DEF Continues
<1> DEFINE f == Moves(line)
           g == Moves(more)
           N == O \cup {n}
<1>1. DOMAIN line = O /\ DOMAIN more = N /\ IsFiniteSet(O)
  BY DEF AddsUp
<1>2. IsFiniteSet(N)
  BY <1>1, FS_AddElement
<1>3. /\ \A x \in O : f[x] = SignedDelta(line[x].entry)
      /\ \A x \in N : g[x] = SignedDelta(more[x].entry)
  BY <1>1 DEF Moves
<1>4. /\ \A x \in O : line[x].at \in Int /\ line[x].running \in Int
      /\ \A x \in N : more[x].at \in Int /\ more[x].running \in Int
      /\ \A x \in N : g[x] \in Int
      /\ \A x \in O : f[x] \in Int /\ f[x] = g[x]
  BY <1>3, MoveType
<1>5. ASSUME Apart(more), NEW o \in N
      PROVE  more[o].running = SumFunctionOnSet(g, Until(more, o))
  <2>1. \A x, y \in N : more[x].at = more[y].at => x = y
    BY <1>1, <1>5 DEF Apart
  <2>2. Apart(line)
    BY <1>1, <2>1 DEF Apart
  <2>3. \A x \in O : line[x].running = SumFunctionOnSet(f, Until(line, x))
    BY <1>1, <2>2 DEF AddsUp
  <2>4. \A x \in O : ~(more[n].at <= more[x].at)
    <3> SUFFICES ASSUME NEW x \in O, more[n].at <= more[x].at PROVE FALSE
      OBVIOUS
    <3>1. more[x].at = more[n].at
      BY <1>4
    <3> QED
      BY <2>1, <3>1
  <2>5. CASE o = n
    <3>1. Until(more, n) = N
      BY <1>1, <1>4 DEF Until
    <3>2. SumFunctionOnSet(g, N) = g[n] + SumFunctionOnSet(g, O)
      BY <1>1, <1>4, SumWith
    <3>3. SumFunctionOnSet(g, O) = SumFunctionOnSet(f, O)
      BY <1>1, <1>4, SumAgree
    <3>4. SumFunctionOnSet(f, O) = previous
      <4>1. CASE O = {}
        BY <4>1, SumOfNone
      <4>2. CASE O # {}
        <5>1. PICK m \in O : /\ previous = line[m].running
                             /\ \A x \in O : line[x].at <= line[m].at
          BY <4>2
        <5>2. Until(line, m) = O
          BY <1>1, <5>1 DEF Until
        <5> QED
          BY <2>3, <5>1, <5>2
      <4> QED
        BY <4>1, <4>2
    <3>5. g[n] \in Int /\ g[n] = SignedDelta(more[n].entry)
      BY <1>3, <1>4
    <3>6. SumFunctionOnSet(g, N) = g[n] + previous
      BY <3>2, <3>3, <3>4
    <3>7. more[n].running = previous + g[n]
      BY <3>5
    <3> HIDE DEF g
    <3> QED
      BY <2>5, <3>1, <3>5, <3>6, <3>7
  <2>6. CASE o # n
    <3>1. o \in O
      BY <2>6
    <3>2. Until(more, o) = Until(line, o)
      BY <1>1, <2>4, <3>1 DEF Until
    <3>3. Until(line, o) \in SUBSET O /\ IsFiniteSet(Until(line, o))
      BY <1>1, FS_Subset DEF Until
    <3>4. SumFunctionOnSet(f, Until(line, o)) = SumFunctionOnSet(g, Until(line, o))
      BY <1>4, <3>3, SumAgree
    <3>5. line[o].running = SumFunctionOnSet(f, Until(line, o))
      BY <2>3, <3>1
    <3> QED
      BY <3>1, <3>2, <3>4, <3>5
  <2> QED
    BY <2>5, <2>6
<1> QED
  BY <1>1, <1>2, <1>5 DEF AddsUp

\* A family that adds up still does when its lines are found at new places.
LEMMA MovedAddsUp ==
    ASSUME NEW O, NEW line \in [O -> Row], AddsUp(line),
           NEW P, NEW moved \in [P -> Row], NEW h \in [O -> P],
           \A x, y \in O : h[x] = h[y] => x = y, \A y \in P : \E x \in O : y = h[x],
           \A x \in O : moved[h[x]] = line[x]
    PROVE  AddsUp(moved)
<1> DEFINE f == Moves(line)
           g == Moves(moved)
<1>1. DOMAIN line = O /\ DOMAIN moved = P /\ IsFiniteSet(O)
  BY DEF AddsUp
<1>2. IsFiniteSet(P)
  <2>1. h \in Surjection(O, P)
    BY DEF Surjection
  <2> QED
    BY <1>1, <2>1, FS_Surjection
<1>3. /\ \A x \in O : f[x] = SignedDelta(line[x].entry)
      /\ \A y \in P : g[y] = SignedDelta(moved[y].entry)
  BY <1>1 DEF Moves
<1>4. \A x \in O : f[x] \in Int /\ g[h[x]] = f[x]
  BY <1>3, MoveType
<1>5. ASSUME Apart(moved), NEW o \in P
      PROVE  moved[o].running = SumFunctionOnSet(g, Until(moved, o))
  <2>1. Apart(line)
    <3> SUFFICES ASSUME NEW x \in O, NEW y \in O, line[x].at = line[y].at
                 PROVE  x = y
      BY <1>1 DEF Apart
    <3>1. moved[h[x]].at = moved[h[y]].at /\ h[x] \in P /\ h[y] \in P
      OBVIOUS
    <3>2. h[x] = h[y]
      BY <1>1, <1>5, <3>1 DEF Apart
    <3> QED
      BY <3>2
  <2>2. PICK u \in O : o = h[u]
    OBVIOUS
  <2>3. line[u].running = SumFunctionOnSet(f, Until(line, u))
    BY <1>1, <2>1, <2>2 DEF AddsUp
  <2> DEFINE S == Until(line, u)
             T == Until(moved, o)
             k == [x \in S |-> h[x]]
  <2>4. /\ S = {x \in O : line[x].at <= line[u].at}
        /\ T = {y \in P : moved[y].at <= line[u].at}
    BY <1>1, <2>2 DEF Until
  <2>5. IsFiniteSet(S) /\ IsFiniteSet(T)
    BY <1>1, <1>2, <2>4, FS_Subset
  <2>6. k \in [S -> T] /\ \A x \in S : k[x] = h[x] /\ x \in O
    BY <2>4
  <2>7. \A y \in T : \E x \in S : y = k[x]
    <3> SUFFICES ASSUME NEW y \in T PROVE \E x \in S : y = h[x]
      BY <2>6
    <3>1. PICK x \in O : y = h[x]
      BY <2>4
    <3>2. x \in S
      BY <2>4, <3>1
    <3> QED
      BY <3>1, <3>2
  <2>8. /\ \A x, y \in S : k[x] = k[y] => x = y
        /\ \A x \in S : f[x] \in Int /\ g[k[x]] = f[x]
    BY <1>4, <2>6
  <2> HIDE DEF S, T, k, f, g
  <2>9. SumFunctionOnSet(g, T) = SumFunctionOnSet(f, S)
    BY <2>5, <2>6, <2>7, <2>8, SumRenamed
  <2> QED
    BY <2>2, <2>3, <2>9 DEF S, T
<1> QED
  BY <1>1, <1>2, <1>5 DEF AddsUp


\* The places of an account's committed lines, and of the lines seen on it.
LEMMA Places ==
    ASSUME TypeOK, NEW a \in Accounts
    PROVE  /\ StoredLines(a) \in [Occurrences(a) -> Row]
           /\ \A p \in Procs : SeenLines(p, a) \in [Occurrences(a) \cup Drafted(p, a) -> Row]
           /\ \A o \in Occurrences(a) : /\ o = <<o[1], o[2]>>
                                        /\ o[1] \in DOMAIN book
                                        /\ o[1] # 0
                                        /\ o[2] \in DOMAIN book[o[1]].rows
                                        /\ RowAt(o).entry.account = a
           /\ \A i \in DOMAIN book : \A j \in DOMAIN book[i].rows :
                 book[i].rows[j].entry.account = a => <<i, j>> \in Occurrences(a)
           /\ \A p \in Procs : \A j \in DOMAIN draft[p] :
                 draft[p][j].entry.account = a => <<0, j>> \in Drafted(p, a)
           /\ \A p \in Procs : \A o \in Drafted(p, a) :
                 /\ o = <<0, o[2]>> /\ o[1] = 0 /\ o[2] \in DOMAIN draft[p]
                 /\ draft[p][o[2]].entry.account = a
<1>1. \A i \in DOMAIN book : i # 0 /\ book[i].rows \in Seq(Row)
  <2>1. \A i \in DOMAIN book : i # 0 /\ book[i] \in Transaction
    BY DEF TypeOK
  <2> QED
    BY <2>1 DEF Transaction
<1>2. \A o \in Occurrences(a) : /\ o = <<o[1], o[2]>>
                                /\ o[1] \in DOMAIN book
                                /\ o[2] \in DOMAIN book[o[1]].rows
                                /\ book[o[1]].rows[o[2]].entry.account = a
  BY DEF Occurrences
<1>3. \A i \in DOMAIN book : \A j \in DOMAIN book[i].rows :
         book[i].rows[j].entry.account = a => <<i, j>> \in Occurrences(a)
  BY DEF Occurrences
<1>4. \A i \in DOMAIN book : \A j \in DOMAIN book[i].rows : book[i].rows[j] \in Row
  BY <1>1
<1>5. \A o \in Occurrences(a) : RowAt(o) \in Row /\ RowAt(o).entry.account = a /\ o[1] # 0
  BY <1>1, <1>2, <1>4 DEF RowAt
<1>6. \A p \in Procs : \A o \in Drafted(p, a) :
         /\ o = <<0, o[2]>> /\ o[1] = 0 /\ o[2] \in DOMAIN draft[p]
         /\ draft[p][o[2]].entry.account = a
  BY DEF Drafted
<1>7. \A p \in Procs : \A j \in DOMAIN draft[p] : draft[p][j] \in Row
  BY DEF TypeOK
<1>8. \A p \in Procs : \A j \in DOMAIN draft[p] :
         draft[p][j].entry.account = a => <<0, j>> \in Drafted(p, a)
  BY DEF Drafted
<1>9. StoredLines(a) \in [Occurrences(a) -> Row]
  BY <1>5 DEF StoredLines
<1>10. \A p \in Procs : SeenLines(p, a) \in [Occurrences(a) \cup Drafted(p, a) -> Row]
  BY <1>5, <1>6, <1>7 DEF SeenLines
<1> QED
  BY <1>2, <1>3, <1>5, <1>6, <1>8, <1>9, <1>10

\* A caller without uncommitted lines on an account sees the committed ones.
LEMMA NothingDrafted ==
    ASSUME TypeOK, NEW a \in Accounts, NEW p \in Procs,
           \A i \in DOMAIN draft[p] : draft[p][i].entry.account # a
    PROVE  SeenLines(p, a) = StoredLines(a)
<1>1. Drafted(p, a) = {}
  BY DEF Drafted
<1>2. \A o \in Occurrences(a) : o[1] # 0
  BY Places
<1> QED
  BY <1>1, <1>2 DEF SeenLines, StoredLines

\* Rows are seen by a statement exactly as the family holds them.
LEMMA VisibleAreSeen ==
    ASSUME TypeOK, NEW a \in Accounts, NEW p \in Procs
    PROVE  VisibleRows(p, a) =
              {SeenLines(p, a)[o] : o \in Occurrences(a) \cup Drafted(p, a)}
<1> DEFINE O == Occurrences(a)
           D == Drafted(p, a)
           line == SeenLines(p, a)
<1>1. /\ \A o \in O : line[o] = book[o[1]].rows[o[2]]
      /\ \A o \in D : line[o] = draft[p][o[2]]
  BY Places DEF SeenLines, RowAt
<1>2. ASSUME NEW row \in VisibleRows(p, a)
      PROVE  \E o \in O \cup D : row = line[o]
  <2>1. CASE row \in CommittedRows(a)
    <3>1. row.entry.account = a /\ \E i \in DOMAIN book : row \in Range(book[i].rows)
      BY <2>1 DEF CommittedRows
    <3>2. PICK i \in DOMAIN book : \E j \in DOMAIN book[i].rows : row = book[i].rows[j]
      BY <3>1 DEF Range
    <3>3. PICK j \in DOMAIN book[i].rows : row = book[i].rows[j]
      BY <3>2
    <3>4. <<i, j>> \in O
      BY <3>1, <3>3, Places
    <3> HIDE DEF O, D, line
    <3>5. line[<<i, j>>] = book[i].rows[j]
      BY <1>1, <3>4
    <3> QED
      BY <3>3, <3>4, <3>5
  <2>2. CASE row \notin CommittedRows(a)
    <3>1. row.entry.account = a /\ row \in Range(draft[p])
      BY <2>2 DEF VisibleRows
    <3>2. PICK j \in DOMAIN draft[p] : row = draft[p][j]
      BY <3>1 DEF Range
    <3>3. <<0, j>> \in D
      BY <3>1, <3>2, Places
    <3> HIDE DEF O, D, line
    <3>4. line[<<0, j>>] = draft[p][j]
      BY <1>1, <3>3
    <3> QED
      BY <3>2, <3>3, <3>4
  <2> QED
    BY <2>1, <2>2
<1>3. ASSUME NEW o \in O PROVE line[o] \in VisibleRows(p, a)
  <2>1. /\ o[1] \in DOMAIN book /\ o[2] \in DOMAIN book[o[1]].rows
        /\ book[o[1]].rows[o[2]].entry.account = a
    BY <1>3, Places DEF RowAt
  <2>2. book[o[1]].rows[o[2]] \in Range(book[o[1]].rows)
    BY <2>1 DEF Range
  <2>3. book[o[1]].rows[o[2]] \in CommittedRows(a)
    BY <2>1, <2>2 DEF CommittedRows
  <2> QED
    BY <1>1, <2>3 DEF VisibleRows
<1>4. ASSUME NEW o \in D PROVE line[o] \in VisibleRows(p, a)
  <2>1. o[2] \in DOMAIN draft[p] /\ draft[p][o[2]].entry.account = a
    BY <1>4, Places
  <2> QED
    BY <1>1, <2>1 DEF VisibleRows, Range
<1> QED
  BY <1>2, <1>3, <1>4


LEMMA RunningInit == Init => RunningInv
<1> SUFFICES ASSUME Init, NEW a \in Accounts
             PROVE  /\ AddsUp(StoredLines(a))
                    /\ \A p \in Procs : AddsUp(SeenLines(p, a))
  BY DEF RunningInv
<1>1. Occurrences(a) = {} /\ \A p \in Procs : Drafted(p, a) = {}
  BY DEF Init, Occurrences, Drafted
<1>2. DOMAIN StoredLines(a) = {} /\ \A p \in Procs : DOMAIN SeenLines(p, a) = {}
  BY <1>1 DEF StoredLines, SeenLines
<1> QED
  BY <1>2, FS_EmptySet DEF AddsUp

\* Lines that nobody touches keep adding up.
LEMMA RunningSame ==
    ASSUME RunningInv, UNCHANGED <<draft, book>>
    PROVE  RunningInv'
<1>1. \A a \in Accounts : /\ StoredLines(a)' = StoredLines(a)
                          /\ \A p \in Procs : SeenLines(p, a)' = SeenLines(p, a)
  BY DEF StoredLines, SeenLines, Occurrences, Drafted, RowAt
<1> QED
  BY <1>1 DEF RunningInv, AddsUp, Apart, Moves, Until

\* A transaction that rolls back takes its own lines away, and no others.
LEMMA RunningAbandoned ==
    ASSUME TypeOK, RunningInv, NEW p \in Procs,
           book' = book, draft' = [draft EXCEPT ![p] = <<>>]
    PROVE  RunningInv'
<1> SUFFICES ASSUME NEW a \in Accounts
             PROVE  /\ AddsUp(StoredLines(a)')
                    /\ \A q \in Procs : AddsUp(SeenLines(q, a)')
  BY DEF RunningInv, AddsUp, Apart, Moves, Until
<1>1. Occurrences(a)' = Occurrences(a) /\ \A o : RowAt(o)' = RowAt(o)
  BY DEF Occurrences, RowAt
<1>2. StoredLines(a)' = StoredLines(a)
  BY <1>1 DEF StoredLines
<1>3. \A q \in Procs \ {p} : SeenLines(q, a)' = SeenLines(q, a)
  BY <1>1 DEF SeenLines, Drafted, TypeOK
<1>4. SeenLines(p, a)' = StoredLines(a)
  <2>1. Drafted(p, a)' = {}
    BY DEF Drafted, TypeOK
  <2>2. \A o \in Occurrences(a) : o[1] # 0
    BY Places
  <2> QED
    BY <1>1, <2>1, <2>2 DEF SeenLines, StoredLines
<1> QED
  BY <1>2, <1>3, <1>4 DEF RunningInv

\* No line that a caller sees on an account is later than its next line there.
LEMMA NewLineIsLast ==
    ASSUME TypeOK, NEW a \in Accounts, NEW p \in Procs, NEW at \in Timestamps(a)
    PROVE  \A row \in VisibleRows(p, a) : row.at <= at
<1> DEFINE rows == CommittedRows(a) \cup UNION {VisibleRows(q, a) : q \in Procs}
<1>1. PICK t \in {0} \cup {row.at : row \in rows} :
         (\A row \in rows : row.at <= t) /\ at \in {t, t + 1}
  BY DEF Timestamps
<1>2. \A row \in rows : row.at \in Nat
  BY RowsAreRows DEF Row
<1>3. t \in Nat /\ at \in Nat /\ t <= at
  BY <1>1, <1>2
<1> QED
  BY <1>1, <1>2, <1>3

\* A caller posts on top of the last line it sees.
LEMMA RunningPost ==
    ASSUME IInv, RunningInv, NEW p \in Procs, PostLine(p)
    PROVE  RunningInv'
<1> USE DEF IInv
<1> DEFINE e == Entries(p)[next[p]]
           latest == Latest(VisibleRows(p, e.account))
           balances == IF latest = {} THEN {0} ELSE {r.running : r \in latest}
<1>1. pc[p] = "post" /\ book' = book
  BY DEF PostLine
<1>2. PICK previous \in balances, at \in Timestamps(e.account) :
        draft' = [draft EXCEPT ![p] =
            Append(@, [entry |-> e, running |-> previous + SignedDelta(e),
                       at |-> at])]
  BY DEF PostLine
<1>3. e \in Entry /\ e.account \in Accounts
  BY <1>1, InsideFacts DEF LoopInv
<1> DEFINE row == [entry |-> e, running |-> previous + SignedDelta(e), at |-> at]
           b == e.account
           n == <<0, next[p]>>
<1>4. previous \in Int /\ row \in Row
  <2>1. previous \in Int
    <3>1. latest \subseteq Row
      BY RowsAreRows DEF Latest
    <3> QED
      BY <3>1 DEF Row
  <2>2. SignedDelta(e) \in Int
    BY <1>3 DEF SignedDelta, Entry
  <2>3. at \in Nat
    BY TimestampsAreNat
  <2> QED
    BY <1>3, <2>1, <2>2, <2>3 DEF Row
<1>5. /\ draft[p] \in Seq(Row) /\ Len(draft[p]) = next[p] - 1 /\ next[p] \in Nat
      /\ draft'[p] = Append(draft[p], row)
      /\ \A q \in Procs \ {p} : draft'[q] = draft[q]
  BY <1>1, <1>2 DEF TypeOK, LoopInv
<1>6. /\ row.entry = e /\ row.running = previous + SignedDelta(row.entry) /\ row.at = at
  OBVIOUS
<1> HIDE DEF row
<1>7. /\ DOMAIN draft[p] = 1 .. (next[p] - 1)
      /\ DOMAIN draft'[p] = DOMAIN draft[p] \cup {next[p]}
      /\ next[p] \notin DOMAIN draft[p]
      /\ \A i \in DOMAIN draft[p] : draft'[p][i] = draft[p][i]
      /\ draft'[p][next[p]] = row
  BY <1>4, <1>5
<1>8. \A a \in Accounts : /\ Occurrences(a)' = Occurrences(a)
                          /\ StoredLines(a)' = StoredLines(a)
  BY <1>1 DEF Occurrences, StoredLines, RowAt
<1>9. \A a \in Accounts : \A q \in Procs \ {p} : SeenLines(q, a)' = SeenLines(q, a)
  BY <1>1, <1>5, <1>8 DEF SeenLines, Drafted, RowAt
<1>10. ASSUME NEW a \in Accounts, a # b
       PROVE  SeenLines(p, a)' = SeenLines(p, a)
  <2>1. Drafted(p, a)' = Drafted(p, a)
    BY <1>6, <1>7, <1>10 DEF Drafted
  <2>2. \A o \in Drafted(p, a) : o[2] \in DOMAIN draft[p]
    BY Places
  <2>3. \A o \in Occurrences(a) : o[1] # 0
    BY Places
  <2> QED
    BY <1>1, <1>7, <1>8, <2>1, <2>2, <2>3 DEF SeenLines, RowAt
<1>11. ASSUME NEW a \in Accounts, a = b
       PROVE  AddsUp(SeenLines(p, a)')
  <2> DEFINE O == Occurrences(a) \cup Drafted(p, a)
             line == SeenLines(p, a)
             more == SeenLines(p, a)'
  <2>1. /\ line \in [O -> Row] /\ AddsUp(line)
        /\ \A o \in Occurrences(a) : o[1] # 0
        /\ \A o \in Drafted(p, a) : o[1] = 0 /\ o[2] \in DOMAIN draft[p]
    BY Places DEF RunningInv
  <2>2. n \notin O /\ n[1] = 0 /\ n[2] = next[p]
    BY <1>7, <2>1
  <2>3. Drafted(p, a)' = Drafted(p, a) \cup {n}
    BY <1>6, <1>7, <1>11 DEF Drafted
  <2>4. more = [o \in O \cup {n} |-> IF o[1] = 0 THEN draft'[p][o[2]] ELSE RowAt(o)]
    BY <1>1, <1>8, <2>3 DEF SeenLines, RowAt
  <2>5. /\ \A x \in Occurrences(a) : more[x] = RowAt(x) /\ line[x] = RowAt(x)
        /\ \A x \in Drafted(p, a) : more[x] = draft[p][x[2]] /\ line[x] = draft[p][x[2]]
        /\ more[n] = row
    BY <1>7, <2>1, <2>2, <2>4 DEF SeenLines
  <2>6. more \in [O \cup {n} -> Row] /\ \A x \in O : more[x] = line[x]
    BY <1>4, <2>1, <2>4, <2>5
  <2>7. VisibleRows(p, a) = {line[o] : o \in O}
    BY VisibleAreSeen
  <2> HIDE DEF O, line, more
  <2>8. \A x \in O : line[x].at <= more[n].at
    BY <1>6, <1>11, <2>5, <2>7, NewLineIsLast
  <2>9. O = {} => previous = 0
    BY <1>11, <2>7 DEF Latest
  <2>10. ASSUME O # {}
         PROVE  \E m \in O : /\ previous = line[m].running
                             /\ \A x \in O : line[x].at <= line[m].at
    <3> DEFINE f == [x \in O |-> line[x].at]
    <3>1. IsFiniteSet(O) /\ \A x \in O : f[x] \in Int
      BY <2>1, MoveType DEF AddsUp
    <3>2. PICK m \in O : \A x \in O : f[x] <= f[m]
      <4> HIDE DEF f
      <4> QED
        BY <2>10, <3>1, LargestValue
    <3>3. line[m] \in latest
      BY <1>11, <2>7, <3>2 DEF Latest
    <3>4. PICK r \in latest : previous = r.running
      BY <3>3
    <3>5. r \in VisibleRows(p, a) /\ \A other \in VisibleRows(p, a) : other.at <= r.at
      BY <1>11, <3>4 DEF Latest
    <3>6. PICK o \in O : r = line[o]
      BY <2>7, <3>5
    <3> QED
      BY <2>7, <3>4, <3>5, <3>6
  <2>11. more[n].running = previous + SignedDelta(more[n].entry)
    BY <1>6, <2>5
  <2>12. /\ line \in [O -> Row] /\ AddsUp(line) /\ n \notin O /\ previous \in Int
         /\ more \in [O \cup {n} -> Row] /\ \A x \in O : more[x] = line[x]
    BY <1>4, <2>1, <2>2, <2>6
  <2> HIDE DEF n
  <2>13. Continues(O, line, n, previous, more)
    BY <2>8, <2>9, <2>10, <2>11, <2>12 DEF Continues
  <2>14. AddsUp(more)
    BY <2>13, OneMoreAddsUp
  <2> QED
    BY <2>14 DEF more
<1>12. \A a \in Accounts : /\ AddsUp(StoredLines(a)')
                           /\ \A q \in Procs : AddsUp(SeenLines(q, a)')
  BY <1>8, <1>9, <1>10, <1>11 DEF RunningInv
<1> QED
  BY <1>12 DEF RunningInv, AddsUp, Apart, Moves, Until


\* A commit gives a caller's lines their places among the committed ones.  The
\* other callers have no lines on the accounts concerned.
LEMMA RunningCommit ==
    ASSUME IInv, RunningInv, NEW p \in Procs, Commit(p)
    PROVE  RunningInv'
<1> USE DEF IInv
<1> DEFINE N == Len(book) + 1
<1>1. /\ pc[p] = "commit"
      /\ book' = Append(book, [key |-> req[p].key, rows |-> draft[p]])
      /\ draft' = [draft EXCEPT ![p] = <<>>]
  BY DEF Commit
<1>2. [key |-> req[p].key, rows |-> draft[p]] \in Transaction
  BY <1>1, InsideFacts DEF TypeOK, Transaction
<1>3. /\ N \notin DOMAIN book /\ N # 0
      /\ DOMAIN book' = DOMAIN book \cup {N}
      /\ \A i \in DOMAIN book : book'[i] = book[i]
      /\ book'[N].rows = draft[p]
  BY <1>1, <1>2 DEF TypeOK
<1>4. draft'[p] = <<>> /\ \A q \in Procs \ {p} : draft'[q] = draft[q]
  BY <1>1 DEF TypeOK
<1> HIDE DEF N
<1>5. ASSUME NEW a \in Accounts
      PROVE  /\ AddsUp(StoredLines(a)')
             /\ \A q \in Procs : AddsUp(SeenLines(q, a)')
  <2> DEFINE new == {<<N, j>> : j \in {k \in DOMAIN draft[p] :
                                          draft[p][k].entry.account = a}}
             old == Occurrences(a)
             O == old \cup Drafted(p, a)
             line == SeenLines(p, a)
             stored == StoredLines(a)'
             h == [o \in O |-> IF o[1] = 0 THEN <<N, o[2]>> ELSE o]
  <2>1. /\ line \in [O -> Row] /\ AddsUp(line)
        /\ \A o \in old : o = <<o[1], o[2]>> /\ o[1] \in DOMAIN book /\ o[1] # 0
        /\ \A o \in Drafted(p, a) : o = <<0, o[2]>> /\ o[1] = 0
    BY Places DEF RunningInv
  <2>2. Occurrences(a)' = old \cup new
    BY <1>3 DEF Occurrences
  <2>3. /\ \A o \in old : book'[o[1]] = book[o[1]]
        /\ \A o \in new : /\ o = <<N, o[2]>> /\ o[1] = N
                          /\ <<0, o[2]>> \in Drafted(p, a)
                          /\ book'[o[1]].rows[o[2]] = draft[p][o[2]]
        /\ \A o \in Drafted(p, a) : <<N, o[2]>> \in new
    BY <1>3, <2>1 DEF Drafted
  <2>4. /\ DOMAIN stored = old \cup new
        /\ stored = [o \in old \cup new |-> book'[o[1]].rows[o[2]]]
    BY <2>2 DEF StoredLines, RowAt
  <2>5. /\ \A o \in old : stored[o] = RowAt(o) /\ line[o] = RowAt(o)
        /\ \A o \in Drafted(p, a) : line[o] = draft[p][o[2]]
        /\ \A o \in Drafted(p, a) : stored[<<N, o[2]>>] = draft[p][o[2]]
    <3>1. \A o \in old : stored[o] = RowAt(o)
      BY <2>3, <2>4 DEF RowAt
    <3>2. /\ \A o \in old : line[o] = RowAt(o)
          /\ \A o \in Drafted(p, a) : line[o] = draft[p][o[2]]
      BY <2>1 DEF SeenLines
    <3>3. \A o \in new : stored[o] = draft[p][o[2]]
      BY <2>3, <2>4
    <3>4. ASSUME NEW o \in Drafted(p, a)
          PROVE  stored[<<N, o[2]>>] = draft[p][o[2]]
      <4>1. <<N, o[2]>> \in new
        BY <2>3
      <4> HIDE DEF new, stored
      <4>2. stored[<<N, o[2]>>] = draft[p][<<N, o[2]>>[2]]
        BY <3>3, <4>1
      <4> QED
        BY <4>2
    <3> QED
      BY <3>1, <3>2, <3>4
  <2> HIDE DEF new, old, line, stored, N
  <2>6. h \in [O -> old \cup new]
    BY <2>1, <2>3
  <2>7. \A x, y \in O : h[x] = h[y] => x = y
    <3>1. \A x \in old : h[x] = x /\ x[1] \in DOMAIN book
      BY <2>1
    <3>2. \A x \in Drafted(p, a) : h[x] = <<N, x[2]>> /\ h[x][1] = N /\ h[x][2] = x[2]
      BY <2>1
    <3>3. ASSUME NEW x \in old, NEW y \in Drafted(p, a) PROVE h[x] # h[y]
      <4>1. h[x][1] \in DOMAIN book /\ h[y][1] = N
        BY <3>1, <3>2
      <4> QED
        BY <1>3, <4>1
    <3>4. ASSUME NEW x \in Drafted(p, a), NEW y \in Drafted(p, a), h[x] = h[y] PROVE x = y
      <4>1. x[2] = y[2]
        BY <3>2, <3>4
      <4> QED
        BY <2>1, <4>1
    <3> QED
      BY <3>1, <3>3, <3>4
  <2>8. \A y \in old \cup new : \E x \in O : y = h[x]
    <3>1. ASSUME NEW y \in old PROVE \E x \in O : y = h[x]
      BY <2>1
    <3>2. ASSUME NEW y \in new PROVE \E x \in O : y = h[x]
      <4>1. <<0, y[2]>> \in O /\ y = <<N, y[2]>>
        BY <2>3
      <4>2. h[<<0, y[2]>>] = <<N, y[2]>>
        BY <4>1
      <4> QED
        BY <4>1, <4>2
    <3> QED
      BY <3>1, <3>2
  <2>9. \A x \in O : stored[h[x]] = line[x]
    BY <2>1, <2>5
  <2>10. stored \in [old \cup new -> Row]
    <3> HIDE DEF h, O
    <3>1. \A y \in old \cup new : stored[y] \in Row
      BY <2>1, <2>8, <2>9
    <3> QED
      BY <2>4, <3>1
  <2>11. AddsUp(stored)
    <3> HIDE DEF h, O
    <3> QED
      BY <2>1, <2>6, <2>7, <2>8, <2>9, <2>10, MovedAddsUp
  <2>12. ASSUME NEW q \in Procs, Drafted(q, a)' = {} PROVE SeenLines(q, a)' = stored
    <3>1. \A o \in old \cup new : o[1] # 0
      BY <1>3, <2>1, <2>3
    <3>2. Occurrences(a)' \cup Drafted(q, a)' = Occurrences(a)' /\ Occurrences(a)' = old \cup new
      BY <2>2, <2>12
    <3> QED
      BY <3>1, <3>2 DEF SeenLines, StoredLines, stored
  <2>13. ASSUME NEW q \in Procs PROVE AddsUp(SeenLines(q, a)')
    <3>1. CASE \E j \in DOMAIN draft'[q] : draft'[q][j].entry.account = a
      <4>1. q # p
        BY <1>4, <3>1
      <4>2. draft'[q] = draft[q]
        BY <1>4, <4>1
      <4>3. lock[a] = q
        BY <3>1, <4>2, PostersHoldLocks DEF PostsUnderLock
      <4>4. \A j \in DOMAIN draft[p] : draft[p][j].entry.account # a
        BY <4>1, <4>3, PostersHoldLocks DEF PostsUnderLock
      <4>5. new = {}
        BY <4>4 DEF new
      <4>6. Drafted(q, a)' = Drafted(q, a)
        BY <4>2 DEF Drafted
      <4>7. SeenLines(q, a)' = SeenLines(q, a)
        <5>1. Occurrences(a)' = Occurrences(a)
          BY <2>2, <4>5 DEF old
        <5>2. \A o \in Occurrences(a) : RowAt(o)' = RowAt(o)
          BY <2>3 DEF RowAt, old
        <5>3. \A o \in Drafted(q, a) : o[1] = 0
          BY Places
        <5> QED
          BY <4>2, <4>6, <5>1, <5>2, <5>3 DEF SeenLines
      <4> QED
        BY <4>7 DEF RunningInv
    <3>2. CASE \A j \in DOMAIN draft'[q] : draft'[q][j].entry.account # a
      <4>1. Drafted(q, a)' = {}
        BY <3>2 DEF Drafted
      <4> QED
        BY <2>11, <2>12, <4>1
    <3> QED
      BY <3>1, <3>2
  <2> QED
    BY <2>11, <2>13 DEF stored
<1> QED
  BY <1>5 DEF RunningInv, AddsUp, Apart, Moves, Until

\* Every step of every caller leaves the lines of each account adding up.
LEMMA NextKeepsRunning == IInv /\ RunningInv /\ [Next]_vars => RunningInv'
<1> SUFFICES ASSUME IInv, RunningInv, [Next]_vars PROVE RunningInv'
  OBVIOUS
<1>1. CASE UNCHANGED <<draft, book>>
  BY <1>1, RunningSame
<1>2. ASSUME NEW p \in Procs, RollBack(p) PROVE RunningInv'
  BY <1>2, RunningAbandoned DEF IInv, RollBack, Abandoned
<1>3. ASSUME NEW p \in Procs, PostLine(p) PROVE RunningInv'
  BY <1>3, RunningPost
<1>4. ASSUME NEW p \in Procs, Commit(p) PROVE RunningInv'
  BY <1>4, RunningCommit
<1>5. \/ UNCHANGED <<draft, book>>
      \/ \E p \in Procs : RollBack(p) \/ PostLine(p) \/ Commit(p)
  BY DEF Next, Step, Call, LockAccount, RefuseInactive, InsertTransaction,
     RefuseDuplicate, BreakDeadlock, Fail
<1> QED
  BY <1>1, <1>2, <1>3, <1>4, <1>5

\* For any callers and requests, the running balances of an account whose lines
\* have distinct timestamps are the sums of the movements up to each line.
THEOREM RunningBalancesAddUp == Spec => []DistinctTimesAddUp
<1>1. IInv /\ RunningInv => DistinctTimesAddUp
  <2> SUFFICES ASSUME IInv, RunningInv, NEW a \in Accounts, TieFree(a),
                      NEW o \in Occurrences(a)
               PROVE  RowAt(o).running =
                        Balance({x \in Occurrences(a) : RowAt(x).at <= RowAt(o).at})
    BY DEF DistinctTimesAddUp
  <2> DEFINE O == Occurrences(a)
             line == StoredLines(a)
             S == {x \in O : RowAt(x).at <= RowAt(o).at}
             f == [x \in S |-> SignedDelta(RowAt(x).entry)]
  <2>1. DOMAIN line = O /\ \A x \in O : line[x] = RowAt(x)
    BY DEF StoredLines
  <2>2. Apart(line) /\ Until(line, o) = S
    BY <2>1 DEF Apart, TieFree, Until
  <2>3. IsFiniteSet(O) /\ RowAt(o).running = SumFunctionOnSet(Moves(line), S)
    BY <2>1, <2>2 DEF RunningInv, AddsUp
  <2>4. IsFiniteSet(S) /\ \A x \in S : f[x] = Moves(line)[x]
    BY <2>1, <2>3, FS_Subset DEF Moves
  <2>5. SumFunctionOnSet(f, S) = SumFunctionOnSet(Moves(line), S)
    <3> HIDE DEF f, S
    <3> QED
      BY <2>4, SumAgree
  <2>6. Balance(S) = SumFunctionOnSet(f, S)
    BY DEF Balance, SumFunction
  <2> QED
    BY <2>3, <2>5, <2>6
<1>2. Init => RunningInv
  BY RunningInit
<1>3. IInv /\ RunningInv /\ [Next]_vars => RunningInv'
  BY NextKeepsRunning
<1> QED
  BY <1>1, <1>2, <1>3, Invariance, PTL DEF Spec

=============================================================================
