---------------------------- MODULE ChainEvents ----------------------------
(***************************************************************************)
(* The indexer and the event listener of the API on the same tables.       *)
(***************************************************************************)
EXTENDS GramIndexer, ChainConsumer

vars == <<head, canon, tables, faults, deployment, ix, apiVars, effects>>

Init == ChainInit /\ IndexerInit /\ ConsumerInit

\* A published event is in hand at once, or nobody hears of it.
PublishNext ==
    \E e \in Events :
        /\ Publish(e)
        /\ Deliver(e)
        /\ UNCHANGED <<head, canon, tables, effects>>

IndexerStep ==
    \/ IndexerLoop /\ UNCHANGED <<head, canon, apiVars, effects>>
    \/ PublishNext

Step ==
    \/ ChainStep /\ UNCHANGED <<ix, apiVars, effects>>
    \/ IndexerStep
    \/ CrashIndexer /\ UNCHANGED <<head, canon, apiVars, effects>>
    \/ (ServiceStep \/ \E e \in Events : TakeNew(e))
         /\ UNCHANGED <<head, canon, ix, effects>>
    \/ (\E w \in Tasks : HandlerStep(w)) /\ UNCHANGED <<head, canon, ix>>

Next == Step /\ UNCHANGED deployment

\* The indexer is a loop that is started again when it ends.
Spec == Init /\ [][Next]_vars /\ WF_vars(IndexerStep /\ UNCHANGED deployment)

TypeOK == ChainTypeOK /\ IndexerTypeOK /\ ConsumerTypeOK

(* What the two programs promise *)

\* A reorganisation never takes back what was stored or acted on: whatever has
\* left a row, an investment or a movement of the escrow balance is final.
\* Both readers stay reorg_buffer_blocks behind the head.
OnlyFinalEvents ==
    \A e \in Events \ canon :
        row[e] = "none" /\ e \notin created /\ moved[e] = 0

\* The cursor in blockchain_sync_state, which two programs write and the
\* indexer resumes from, passes an event of the contract whose logs they ask for
\* that has no row only where a call failed or a start jumped ahead.
PassedOnlyByFailure ==
    \A e \in canon \cap Watched : BlockOf[e] <= saved /\ row[e] = "none" => e \in missed

\* An investment event that counts as processed has confirmed an investment, or
\* has left its id to another's row that keeps it, and nothing that was
\* confirmed is taken over by another event, unless two tasks worked side by
\* side; without a failure the ledger entry of the transaction is there too.
\* (That each has an investment of its own, as investment.handler.ts:96 says, is
\* not true: of two events with one id the second is processed without one.)
ProcessedIsConfirmed ==
    ~overlapped =>
        \A e \in Events :
            row[e] = "processed" /\ KindOf[e] = "InvestmentMade" =>
                /\ Confirmed(TxOf[e]) \/ \E f \in created : RowId[f] = RowId[e]
                /\ faults = 0 =>
                      \/ \E f \in created : TxOf[f] = TxOf[e] \/ RowId[f] = RowId[e]
                      \/ \E p \in Pendings, f \in Events :
                            TxOf[f] = TxOf[e] /\ <<p, f>> \in entries

\* Handed over again after a crash, a lost cursor or by both readers, an event
\* still confirms one investment with one ledger entry, unless two tasks worked
\* side by side; the escrow balance moves a second time only after a failure.
EffectsOnce ==
    /\ ~overlapped =>
          /\ \A e \in Events :
                Cardinality({p \in Pendings : confirmedBy[p] = TxOf[e]}) +
                Cardinality({f \in created : TxOf[f] = TxOf[e]}) <= 1
          /\ \A x, y \in entries : x[1] = y[1] => x = y
    /\ \A e \in Events : moved[e] > 0 => e \in recorded
    /\ faults = 0 => \A e \in Events : moved[e] <= 1

\* What the indexer should have stored by now: the final events of the contract
\* it watches, once the database has its tables.
Due == {e \in canon \cap Watched : deployment.tables /\ BlockOf[e] <= SafeHead}

\* The indexer resumes after every crash and again and again has caught up: it
\* leaves no final event behind of the contract it watches without a row, unless
\* a failed call or a start at the head passed it.  (Of the database the README
\* has one make and of the address docker-compose.yml:93 names it is not true:
\* the first query fails, and the platform emits none of these events.)
WatchedEventsAreIndexed ==
    []<>(\A e \in Due : row[e] # "none" \/ e \in missed)
=============================================================================
