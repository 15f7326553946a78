--------------------------- MODULE ChainConsumer ---------------------------
(***************************************************************************)
(* BlockchainEventService of the API with the handlers it calls.  It hears *)
(* of events from the indexer over Redis, each message in a task of its    *)
(* own, or polls the chain itself, one event after the other; it polls too *)
(* while Redis is away.  A step of a task is one statement.                *)
(***************************************************************************)
EXTENDS ChainTables

CONSTANTS
    Workers,      \* messages that can be in hand at the same time
    Poller,       \* the task of the poller
    Pendings,     \* investments of one investor in one deal, by age
    RowId,        \* the id a row of its own would have: onchain-<investmentId>
    UseIndexer    \* the values USE_RUST_INDEXER may have

NoTx == "none"
Elsewhere == "elsewhere"

\* TRACKED_EVENTS, but for the two of the profit contract.
Topic == [InvestmentMade |-> 1, FundsDeposited |-> 2, FundsReleased |-> 3,
          FundsRefunded |-> 4, FeeDeducted |-> 5]

\* A transaction hash is not NULL, and the rows are numbered from 1.
ASSUME ConsumerAssumption ==
    /\ Poller \notin Workers
    /\ Pendings \subseteq Nat \ {0}
    /\ \A e \in Events : TxOf[e] \notin {NoTx, Elsewhere}
    /\ KindOf \in [Events -> DOMAIN Topic]
    /\ UseIndexer \subseteq BOOLEAN

VARIABLES
    api,          \* the process: up, Redis mode, subscribed, listening, latest
    poll,         \* the range the poller is busy with
    task,         \* the event each task has in hand
    confirmedBy,  \* the transaction each row was confirmed with, if PENDING none
    created,      \* events that made an investment row of their own
    entries,      \* INVESTMENT_CONFIRMED entries: row and event
    recorded,     \* events in escrow_transactions
    moved,        \* how often each event moved the escrow balance
    overlapped    \* two tasks have had an event in hand at the same time

apiVars == <<api, poll, task, overlapped>>
effects == <<confirmedBy, created, entries, recorded, moved>>

Tasks == Workers \cup {Poller}
Idle == [pc |-> "idle"]
Process(up, redis) == [up |-> up, redis |-> redis, subscribed |-> FALSE,
                       listening |-> FALSE, latest |-> 0]
NoPoll == [busy |-> FALSE, to |-> 0, todo |-> {}]

Confirmed(tx) ==
    \/ \E p \in Pendings : confirmedBy[p] = tx
    \/ \E e \in created : TxOf[e] = tx

\* The first statement of an event's handler.  The poller passes the escrow
\* handler an event without the name it goes by: nothing is left but to mark
\* the event processed.
FirstStep(w, e) ==
    IF KindOf[e] = "InvestmentMade" THEN "confirmed"
    ELSE IF w = Poller THEN "mark" ELSE "record"

Take(w, pc, e) ==
    /\ task' = [task EXCEPT ![w] = [pc |-> pc, event |-> e, pending |-> 0]]
    /\ overlapped' = (overlapped \/ \E v \in Tasks : task[v] # Idle)

Goto(w, pc) ==
    /\ task' = [task EXCEPT ![w].pc = pc]
    /\ UNCHANGED <<api, poll, overlapped, faults>>

End(w) ==
    /\ task' = [task EXCEPT ![w] = Idle]
    /\ UNCHANGED <<poll, overlapped>>

(* The process *)

\* onModuleInit, Redis mode.
StartSubscriber ==
    /\ ~api.up /\ api.redis
    /\ api' = Process(TRUE, TRUE)
    /\ UNCHANGED <<poll, task, overlapped, tables, faults>>

\* recoverFromRestart, then startListening: from the highest block that holds
\* a processed event ...
StartPoller(b) ==
    /\ ~api.up /\ ~api.redis
    /\ api' = [api EXCEPT !.up = TRUE, !.listening = TRUE, !.latest = b]
    /\ missed' = missed \cup PassedBy(b)
    /\ UNCHANGED <<poll, task, overlapped, row>>

RecoverPoller ==
    \E b \in ProcessedBlocks :
        LastProcessed(b) /\ StartPoller(b) /\ UNCHANGED <<saved, faults>>

\* ... and without one from the final block.
StartPollerAtHead ==
    /\ deployment.tables
    /\ ProcessedBlocks = {}
    /\ StartPoller(SafeHead)
    /\ Save(SafeHead)

\* When the query fails it goes on from the final block too, whatever has been
\* processed, and takes the cursor along; that the cursor cannot be written
\* either is part of the same failure.
RecoverFails ==
    /\ StartPoller(SafeHead)
    /\ Refused
    /\ saved' \in IF deployment.tables THEN {saved, SafeHead} ELSE {saved}

\* When the node does not answer either the service is up and never listens.
RecoverGivesUp ==
    /\ Fault
    /\ ~api.up /\ ~api.redis
    /\ api' = Process(TRUE, FALSE)
    /\ UNCHANGED <<poll, task, overlapped, tables>>

\* 'connect' ends the fallback, an error begins it.
Subscribe ==
    /\ api.up /\ api.redis /\ ~api.subscribed
    /\ api' = [api EXCEPT !.subscribed = TRUE, !.listening = FALSE]
    /\ UNCHANGED <<poll, task, overlapped, tables, faults>>

LoseRedis ==
    /\ Fault
    /\ api.up /\ api.redis /\ (api.subscribed \/ ~api.listening)
    /\ api' = [api EXCEPT !.subscribed = FALSE, !.listening = TRUE]
    /\ UNCHANGED <<poll, task, overlapped, tables>>

CrashApi ==
    /\ Fault
    /\ api.up
    /\ api' = Process(FALSE, api.redis)
    /\ poll' = NoPoll
    /\ task' = [w \in Tasks |-> Idle]
    /\ UNCHANGED <<overlapped, tables>>

(* handleRustIndexedEvent is entered for a published event, or the message  *)
(* is lost; when all Workers are busy it is lost too.                       *)
Deliver(e) ==
    IF api.subscribed /\ \E w \in Workers : task[w] = Idle
    THEN \/ /\ \E w \in Workers : task[w] = Idle /\ Take(w, FirstStep(w, e), e)
            /\ UNCHANGED <<api, poll, faults>>
         \/ Fault /\ UNCHANGED apiVars
    ELSE UNCHANGED <<apiVars, faults>>

(* The poller *)

\* pollEvents: isProcessing lets one range at a time through, and stopping
\* the timer leaves the range in hand alone.  A topic whose logs cannot be
\* fetched is left out of the range.
StartPoll ==
    /\ api.up /\ api.listening /\ ~poll.busy
    /\ api.latest < SafeHead
    /\ LET to == ChunkEnd(api.latest + 1)
           logs == Logs(api.latest + 1, to)
       IN  \/ /\ poll' = [busy |-> TRUE, to |-> to, todo |-> logs]
              /\ UNCHANGED <<missed, faults>>
           \/ /\ Fault
              /\ \E k \in {KindOf[e] : e \in logs} :
                    LET lost == {e \in logs : KindOf[e] = k}
                    IN  /\ poll' = [busy |-> TRUE, to |-> to, todo |-> logs \ lost]
                        /\ missed' = missed \cup {e \in lost : row[e] = "none"}
    /\ UNCHANGED <<api, task, overlapped, row, saved>>

\* Topic by topic, block by block.
IsNext(e) ==
    /\ e \in poll.todo
    /\ \A f \in poll.todo :
          IF KindOf[e] = KindOf[f] THEN BlockOf[e] <= BlockOf[f]
                                   ELSE Topic[KindOf[e]] < Topic[KindOf[f]]

\* handleEvent: an event that has a row is skipped, handled or not; when the
\* query fails it counts as new.
SkipStored(e) ==
    /\ task[Poller] = Idle /\ IsNext(e)
    /\ row[e] # "none"
    /\ poll' = [poll EXCEPT !.todo = @ \ {e}]
    /\ UNCHANGED <<api, task, overlapped, tables, faults>>

TakeNew(e) ==
    /\ task[Poller] = Idle /\ IsNext(e)
    /\ IF row[e] = "none" THEN UNCHANGED faults ELSE Fault
    /\ poll' = [poll EXCEPT !.todo = @ \ {e}]
    /\ Take(Poller, "store", e)
    /\ UNCHANGED <<api, tables>>

\* The row may be there by now: the insert does nothing and the event is
\* handled all the same.
StoreNew ==
    /\ deployment.tables
    /\ task[Poller].pc = "store"
    /\ row' = Stored({task[Poller].event})
    /\ Goto(Poller, FirstStep(Poller, task[Poller].event))
    /\ UNCHANGED <<saved, missed>>

StoreFails ==
    /\ Refused
    /\ task[Poller].pc = "store"
    /\ missed' = missed \cup {e \in Events : e = task[Poller].event /\ row[e] = "none"}
    /\ End(Poller)
    /\ UNCHANGED <<api, row, saved>>

\* processEvents ends: the cursor in memory and the one the indexer shares
\* move to the end of the range.
EndPoll ==
    /\ poll.busy /\ poll.todo = {} /\ task[Poller] = Idle
    /\ api' = [api EXCEPT !.latest = poll.to]
    /\ poll' = NoPoll
    /\ Save(poll.to)
    /\ UNCHANGED <<task, overlapped, row, missed>>

ServiceStep ==
    \/ StartSubscriber
    \/ RecoverPoller \/ StartPollerAtHead \/ RecoverFails \/ RecoverGivesUp
    \/ Subscribe \/ LoseRedis \/ CrashApi
    \/ StartPoll \/ StoreNew \/ StoreFails \/ EndPoll
    \/ \E e \in Events : SkipStored(e)

(* The handlers *)

\* Wrong: any confirmed investment of the investor will do, or none.
CheckConfirmed_Investor(w) ==
    /\ task[w].pc = "confirmed"
    /\ Goto(w, IF \E tx \in {TxOf[e] : e \in Events} : Confirmed(tx)
               THEN "mark" ELSE "pending")
    /\ UNCHANGED <<tables, effects>>

CheckConfirmed_Never(w) ==
    /\ task[w].pc = "confirmed"
    /\ Goto(w, "pending")
    /\ UNCHANGED <<tables, effects>>

\* An investment that carries the transaction is there: nothing more to do.
CheckConfirmed(w) ==
    /\ task[w].pc = "confirmed"
    /\ Goto(w, IF Confirmed(TxOf[task[w].event]) THEN "mark" ELSE "pending")
    /\ UNCHANGED <<tables, effects>>

Open == {p \in Pendings : confirmedBy[p] = NoTx}

\* The latest PENDING investment of the investor, if there is one.
FindPending(w) ==
    /\ task[w].pc = "pending"
    /\ \/ \E p \in Open :
             /\ \A q \in Open : q <= p
             /\ task' = [task EXCEPT ![w].pc = "confirm", ![w].pending = p]
       \/ Open = {} /\ task' = [task EXCEPT ![w].pc = "create"]
    /\ UNCHANGED <<api, poll, overlapped, tables, faults, effects>>

\* By its id, whatever has become of it since it was found.
Confirm(w) ==
    /\ task[w].pc = "confirm"
    /\ confirmedBy' = [confirmedBy EXCEPT ![task[w].pending] = TxOf[task[w].event]]
    /\ Goto(w, "entry")
    /\ UNCHANGED <<tables, created, entries, recorded, moved>>

WriteEntry(w) ==
    /\ task[w].pc = "entry"
    /\ entries' = entries \cup {<<task[w].pending, task[w].event>>}
    /\ Goto(w, "mark")
    /\ UNCHANGED <<tables, confirmedBy, created, recorded, moved>>

\* A row of its own, ON CONFLICT (id) DO NOTHING: investments of one investor
\* in one block have one id, and only the first of them gets the row.
Create(w) ==
    /\ task[w].pc = "create"
    /\ LET e == task[w].event
       IN  created' = IF \E f \in created : RowId[f] = RowId[e]
                      THEN created ELSE created \cup {e}
    /\ Goto(w, "mark")
    /\ UNCHANGED <<tables, confirmedBy, entries, recorded, moved>>

\* escrow_transactions has a key, ON CONFLICT DO NOTHING ...
Record(w) ==
    /\ task[w].pc = "record"
    /\ recorded' = recorded \cup {task[w].event}
    /\ Goto(w, "balance")
    /\ UNCHANGED <<tables, confirmedBy, created, entries, moved>>

\* ... the balance moves whether or not the row was new, and a failure to move
\* it is only logged.  The statement that comes next for a deposit and a refund
\* is one PostgreSQL does not accept, an UPDATE with ORDER BY and LIMIT: the
\* handler throws.
Balance(w) ==
    /\ task[w].pc = "balance"
    /\ LET e == task[w].event
       IN  /\ \/ moved' = [moved EXCEPT ![e] = @ + 1] /\ UNCHANGED faults
              \/ Fault /\ UNCHANGED moved
           /\ task' = [task EXCEPT ![w] =
                  IF KindOf[e] \in {"FundsDeposited", "FundsRefunded"} THEN Idle
                  ELSE [@ EXCEPT !.pc = "mark"]]
    /\ UNCHANGED <<api, poll, overlapped, tables, confirmedBy, created, entries, recorded>>

\* markProcessed swallows its failure.  The subscriber moves its cursor to the
\* block of the event, forward or back.
MarkProcessed(w) ==
    /\ task[w].pc = "mark"
    /\ LET e == task[w].event
       IN  /\ \/ /\ row' = [row EXCEPT ![e] = IF @ = "none" THEN @ ELSE "processed"]
                 /\ UNCHANGED faults
              \/ Fault /\ UNCHANGED row
           /\ api' = IF w = Poller THEN api ELSE [api EXCEPT !.latest = BlockOf[e]]
    /\ End(w)
    /\ UNCHANGED <<saved, missed, effects>>

\* A statement of a handler fails: the error is logged and the event left.
HandlerFails(w) ==
    /\ Fault
    /\ task[w].pc \in {"confirmed", "pending", "confirm", "entry", "create", "record"}
    /\ End(w)
    /\ UNCHANGED <<api, tables, effects>>

HandlerStep(w) ==
    \/ CheckConfirmed(w) \/ FindPending(w) \/ Confirm(w) \/ WriteEntry(w)
    \/ Create(w) \/ Record(w) \/ Balance(w) \/ MarkProcessed(w) \/ HandlerFails(w)

ConsumerInit ==
    /\ \E redis \in UseIndexer : api = Process(FALSE, redis)
    /\ poll = NoPoll
    /\ task = [w \in Tasks |-> Idle]
    /\ confirmedBy \in [Pendings -> {NoTx, Elsewhere}]
    /\ created = {} /\ entries = {} /\ recorded = {}
    /\ moved = [e \in Events |-> 0]
    /\ overlapped = FALSE

ConsumerTypeOK ==
    /\ api \in [up : BOOLEAN, redis : BOOLEAN, subscribed : BOOLEAN,
                listening : BOOLEAN, latest : 0 .. MaxHead]
    /\ poll \in [busy : BOOLEAN, to : 0 .. MaxHead, todo : SUBSET Events]
    /\ \A w \in Tasks :
          \/ task[w] = Idle
          \/ task[w] \in [pc : {"store", "confirmed", "pending", "confirm", "entry",
                               "create", "record", "balance", "mark"},
                         event : Events, pending : Pendings \cup {0}]
    /\ DOMAIN confirmedBy = Pendings
    /\ created \subseteq Events /\ recorded \subseteq Events
    /\ entries \subseteq Pendings \X Events
    /\ moved \in [Events -> Nat]
=============================================================================
