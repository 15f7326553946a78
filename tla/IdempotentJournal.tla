------------------------- MODULE IdempotentJournal -------------------------
(***************************************************************************)
(* What the ledger promises its callers, and nothing of how: a journal to  *)
(* which balanced transactions are appended whole, at most one per         *)
(* idempotency key, and from which nothing is ever removed or changed.     *)
(***************************************************************************)
CONSTANT Bookable       \* the balanced [key, entries] records callers submit

VARIABLE journal        \* the [key, entries] records that are booked

Init == journal = {}

Book(r) ==
    /\ \A t \in journal : t.key # r.key
    /\ journal' = journal \cup {r}

Next == \E r \in Bookable : Book(r)

Spec == Init /\ [][Next]_journal
=============================================================================
