------------------------- MODULE ChainEventsProofs -------------------------
(***************************************************************************)
(* What holds of ChainEvents for any events, buffer, range, number of      *)
(* messages in hand and number of failures: nothing that a reorganisation  *)
(* can take back is stored or acted on, the shared cursor passes an event  *)
(* without a row only where a call failed or a start jumped ahead, and an  *)
(* event handed over again has its effects once.                           *)
(***************************************************************************)
EXTENDS ChainEvents, FiniteSetTheorems, TLAPS

Steps == {"store", "confirmed", "pending", "confirm", "entry", "create", "record",
          "balance", "mark"}

InHand == [pc : Steps, event : Events, pending : Pendings \cup {0}]

\* The types the arguments below need; TypeOK bounds the numbers too.
Shapes ==
    /\ head \in Nat
    /\ canon \subseteq Events
    /\ row \in [Events -> {"none", "stored", "processed"}]
    /\ saved \in Int
    /\ ix \in [pc : {"down", "ready", "insert", "publish", "save"},
               at : Int, to : Int, batch : SUBSET Events]
    /\ api \in [up : BOOLEAN, redis : BOOLEAN, subscribed : BOOLEAN,
                listening : BOOLEAN, latest : Int]
    /\ poll \in [busy : BOOLEAN, to : Int, todo : SUBSET Events]
    /\ task \in [Tasks -> {Idle} \cup InHand]
    /\ moved \in [Events -> Nat]

LEMMA SafeHeadIsNumber ==
    ASSUME head \in Nat
    PROVE  /\ SafeHead \in Nat
           /\ \A from \in Int : ChunkEnd(from) \in Int /\ ChunkEnd(from) <= SafeHead
  BY ChainAssumption DEF SafeHead, ChunkEnd

LEMMA BlocksAreNumbers ==
    /\ ProcessedBlocks \subseteq Int
    /\ \A from, to \in Int : Logs(from, to) \subseteq canon
    /\ \A e \in Events : BlockOf[e] \in Nat \ {0}
  BY ChainAssumption DEF ProcessedBlocks, Logs

LEMMA ShapesOfIndexer ==
    ASSUME Shapes, IndexerLoop \/ CrashIndexer, UNCHANGED <<head, canon, apiVars, effects>>
    PROVE  Shapes'
<1>. USE SafeHeadIsNumber, BlocksAreNumbers
<1>1. CASE RecoverSaved
  BY <1>1 DEF Shapes, RecoverSaved, ReadyAt, tables, apiVars, effects
<1>2. ASSUME NEW b \in ProcessedBlocks, RecoverProcessed(b) PROVE Shapes'
  BY <1>2 DEF Shapes, RecoverProcessed, ReadyAt, apiVars, effects
<1>3. ASSUME NEW b \in {0, SafeHead}, StartAt(b) PROVE Shapes'
  <2>1. b \in Int
    BY DEF Shapes
  <2>. QED BY <1>3, <2>1 DEF Shapes, StartAt, ReadyAt, apiVars, effects
<1>4. CASE Fetch
  <2>. DEFINE to == ChunkEnd(ix.at + 1)
              logs == Logs(ix.at + 1, to)
  <2>1. ix.at + 1 \in Int /\ to \in Int
    BY DEF Shapes
  <2>2. logs \subseteq Events
    BY <2>1 DEF Shapes
  <2>. HIDE DEF to, logs
  <2>3. ix' = [ix EXCEPT !.to = to, !.batch = logs,
                         !.pc = IF logs = {} THEN "save" ELSE "insert"]
    BY <1>4 DEF Fetch, to, logs
  <2>. QED BY <1>4, <2>1, <2>2, <2>3 DEF Shapes, Fetch, tables, apiVars, effects
<1>5. CASE InsertEvents
  BY <1>5 DEF Shapes, InsertEvents, Stored, Resume, apiVars, effects
<1>6. CASE RowFails
  BY <1>6 DEF Shapes, RowFails, Resume, apiVars, effects
<1>7. CASE InsertFails
  BY <1>7 DEF Shapes, InsertFails, tables, apiVars, effects
<1>8. CASE SaveCursor
  BY <1>8 DEF Shapes, SaveCursor, Save, apiVars, effects
<1>9. CASE CrashIndexer
  BY <1>9 DEF Shapes, CrashIndexer, Down, tables, apiVars, effects
<1>. QED BY <1>1, <1>2, <1>3, <1>4, <1>5, <1>6, <1>7, <1>8, <1>9 DEF IndexerLoop, Start

LEMMA ShapesOfTask ==
    ASSUME Shapes, NEW w \in Tasks, NEW e \in Events, NEW pc \in Steps, Take(w, pc, e)
    PROVE  task' \in [Tasks -> {Idle} \cup InHand]
  BY DEF Shapes, Take, InHand

LEMMA FirstStepIsStep ==
    \A w, e : FirstStep(w, e) \in Steps
  BY DEF FirstStep, Steps

LEMMA ShapesOfPublishing ==
    ASSUME Shapes, PublishNext
    PROVE  Shapes'
<1>1. PICK e \in Events : Publish(e) /\ Deliver(e) /\ UNCHANGED <<head, canon, tables, effects>>
  BY DEF PublishNext
<1>2. task' \in [Tasks -> {Idle} \cup InHand]
  <2>1. CASE UNCHANGED task
    BY <2>1 DEF Shapes
  <2>2. ASSUME NEW w \in Workers, Take(w, FirstStep(w, e), e)
        PROVE  task' \in [Tasks -> {Idle} \cup InHand]
    BY <2>2, ShapesOfTask, FirstStepIsStep DEF Tasks
  <2>. QED BY <1>1, <2>1, <2>2 DEF Deliver, apiVars
<1>3. UNCHANGED <<api, poll>>
  BY <1>1 DEF Deliver, apiVars
<1>. QED BY <1>1, <1>2, <1>3 DEF Shapes, Publish, tables, effects

LEMMA Workable == Poller \in Tasks /\ Workers \subseteq Tasks
  BY DEF Tasks

LEMMA ShapesOfService ==
    ASSUME Shapes, ServiceStep \/ \E e \in Events : TakeNew(e),
           UNCHANGED <<head, canon, ix, effects>>
    PROVE  Shapes'
<1>. USE SafeHeadIsNumber, BlocksAreNumbers, Workable
<1>1. CASE StartSubscriber \/ RecoverGivesUp
  <2>1. api' \in [up : BOOLEAN, redis : BOOLEAN, subscribed : BOOLEAN,
                  listening : BOOLEAN, latest : Int]
    <3>1. CASE api' = Process(TRUE, TRUE)
      BY <3>1 DEF Process
    <3>2. CASE api' = Process(TRUE, FALSE)
      BY <3>2 DEF Process
    <3>. QED BY <1>1, <3>1, <3>2 DEF StartSubscriber, RecoverGivesUp
  <2>. QED BY <1>1, <2>1 DEF Shapes, StartSubscriber, RecoverGivesUp, tables, effects
<1>2. CASE RecoverPoller
  <2>1. PICK b \in ProcessedBlocks : StartPoller(b) /\ UNCHANGED <<saved, faults>>
    BY <1>2 DEF RecoverPoller
  <2>2. api' \in [up : BOOLEAN, redis : BOOLEAN, subscribed : BOOLEAN,
                  listening : BOOLEAN, latest : Int]
    BY <2>1 DEF Shapes, StartPoller
  <2>. QED BY <2>1, <2>2 DEF Shapes, StartPoller, effects
<1>3. CASE StartPollerAtHead
  <2>1. api' \in [up : BOOLEAN, redis : BOOLEAN, subscribed : BOOLEAN,
                  listening : BOOLEAN, latest : Int]
    <3>1. SafeHead \in Int
      BY DEF Shapes
    <3>. QED BY <1>3, <3>1 DEF Shapes, StartPollerAtHead, StartPoller
  <2>. QED BY <1>3, <2>1 DEF Shapes, StartPollerAtHead, StartPoller, Save, effects
<1>3a. CASE RecoverFails
  <2>0. SafeHead \in Int
    BY DEF Shapes
  <2>1. api' \in [up : BOOLEAN, redis : BOOLEAN, subscribed : BOOLEAN,
                  listening : BOOLEAN, latest : Int]
    BY <1>3a, <2>0 DEF Shapes, RecoverFails, StartPoller
  <2>2. saved' \in Int
    BY <1>3a, <2>0 DEF Shapes, RecoverFails
  <2>. QED BY <1>3a, <2>1, <2>2 DEF Shapes, RecoverFails, StartPoller, effects
<1>4. CASE Subscribe \/ LoseRedis
  BY <1>4 DEF Shapes, Subscribe, LoseRedis, tables, effects
<1>5. CASE CrashApi
  <2>1. api' \in [up : BOOLEAN, redis : BOOLEAN, subscribed : BOOLEAN,
                  listening : BOOLEAN, latest : Int]
    BY <1>5 DEF Shapes, CrashApi, Process
  <2>2. poll' \in [busy : BOOLEAN, to : Int, todo : SUBSET Events]
    BY <1>5 DEF CrashApi, NoPoll
  <2>3. task' \in [Tasks -> {Idle} \cup InHand]
    BY <1>5 DEF CrashApi
  <2>. QED BY <1>5, <2>1, <2>2, <2>3 DEF Shapes, CrashApi, tables, effects
<1>6. CASE StartPoll
  <2>. DEFINE to == ChunkEnd(api.latest + 1)
              logs == Logs(api.latest + 1, to)
  <2>1. api.latest + 1 \in Int /\ to \in Int
    BY DEF Shapes
  <2>2. logs \subseteq Events
    BY <2>1 DEF Shapes
  <2>. HIDE DEF to, logs
  <2>3. poll' \in [busy : BOOLEAN, to : Int, todo : SUBSET Events]
    <3>1. PICK some \in SUBSET logs : poll' = [busy |-> TRUE, to |-> to, todo |-> some]
      <4>1. CASE poll' = [busy |-> TRUE, to |-> to, todo |-> logs]
        BY <4>1
      <4>2. ASSUME NEW k, poll' = [busy |-> TRUE, to |-> to,
                                   todo |-> logs \ {e \in logs : KindOf[e] = k}]
            PROVE  \E some \in SUBSET logs : poll' = [busy |-> TRUE, to |-> to, todo |-> some]
        BY <4>2
      <4>. QED BY <1>6, <4>1, <4>2 DEF StartPoll, to, logs
    <3>. QED BY <3>1, <2>1, <2>2
  <2>. QED BY <1>6, <2>3 DEF Shapes, StartPoll, effects
<1>7. CASE StoreNew
  <2>1. task' \in [Tasks -> {Idle} \cup InHand]
    BY <1>7, FirstStepIsStep DEF Shapes, StoreNew, Goto, InHand, Idle
  <2>. QED BY <1>7, <2>1 DEF Shapes, StoreNew, Stored, Goto, effects
<1>8. CASE StoreFails
  BY <1>8 DEF Shapes, StoreFails, End, effects
<1>9. CASE EndPoll
  BY <1>9 DEF Shapes, EndPoll, NoPoll, Save, effects
<1>10. ASSUME NEW e \in Events, SkipStored(e) PROVE Shapes'
  BY <1>10 DEF Shapes, SkipStored, tables, effects
<1>11. ASSUME NEW e \in Events, TakeNew(e) PROVE Shapes'
  <2>1. task' \in [Tasks -> {Idle} \cup InHand]
    BY <1>11, ShapesOfTask DEF TakeNew, Steps
  <2>. QED BY <1>11, <2>1 DEF Shapes, TakeNew, tables, effects
<1>. QED BY <1>1, <1>2, <1>3, <1>3a, <1>4, <1>5, <1>6, <1>7, <1>8, <1>9, <1>10, <1>11
         DEF ServiceStep
LEMMA ShapesOfHandlers ==
    ASSUME Shapes, NEW w \in Tasks, HandlerStep(w), UNCHANGED <<head, canon, ix>>
    PROVE  Shapes'
<1>. USE DEF Shapes, effects
<1>1. task[w] \in InHand
  BY DEF HandlerStep, CheckConfirmed, FindPending, Confirm, WriteEntry, Create, Record,
         Balance, MarkProcessed, HandlerFails, Idle
<1>2. task' \in [Tasks -> {Idle} \cup InHand]
  <2>1. CASE CheckConfirmed(w) \/ Confirm(w) \/ WriteEntry(w) \/ Create(w) \/ Record(w)
    BY <1>1, <2>1 DEF CheckConfirmed, Confirm, WriteEntry, Create, Record, Goto, InHand, Steps
  <2>2. CASE FindPending(w)
    BY <1>1, <2>2 DEF FindPending, Open, InHand, Steps
  <2>3. CASE Balance(w) \/ MarkProcessed(w) \/ HandlerFails(w)
    BY <1>1, <2>3 DEF Balance, MarkProcessed, HandlerFails, Goto, End, InHand, Steps
  <2>. QED BY <2>1, <2>2, <2>3 DEF HandlerStep
<1>3. CASE Balance(w)
  <2>1. moved' \in [Events -> Nat] /\ UNCHANGED <<api, poll>>
    BY <1>1, <1>3 DEF Balance, InHand, Goto, End
  <2>. QED BY <1>2, <1>3, <2>1 DEF Balance, tables
<1>4. CASE MarkProcessed(w)
  <2>1. row' \in [Events -> {"none", "stored", "processed"}]
    BY <1>1, <1>4 DEF MarkProcessed, InHand
  <2>2. api' \in [up : BOOLEAN, redis : BOOLEAN, subscribed : BOOLEAN,
                  listening : BOOLEAN, latest : Int]
    BY <1>1, <1>4, BlocksAreNumbers DEF MarkProcessed, InHand
  <2>. QED BY <1>2, <1>4, <2>1, <2>2 DEF MarkProcessed, End
<1>5. CASE CheckConfirmed(w) \/ FindPending(w) \/ Confirm(w) \/ WriteEntry(w)
           \/ Create(w) \/ Record(w) \/ HandlerFails(w)
  BY <1>2, <1>5 DEF CheckConfirmed, FindPending, Confirm, WriteEntry, Create, Record,
                    HandlerFails, Goto, End, tables
<1>. QED BY <1>3, <1>4, <1>5 DEF HandlerStep

LEMMA ShapesOfStutter ==
    ASSUME Shapes, UNCHANGED vars
    PROVE  Shapes'
  BY DEF Shapes, vars, tables, apiVars, effects

LEMMA ShapesStep ==
    ASSUME Shapes, [Next]_vars
    PROVE  Shapes'
<1>1. CASE ChainStep /\ UNCHANGED <<ix, apiVars, effects>>
  BY <1>1 DEF Shapes, ChainStep, Mine, Reorganise, tables, apiVars, effects
<1>. QED BY <1>1, ShapesOfIndexer, ShapesOfPublishing, ShapesOfService, ShapesOfHandlers,
            ShapesOfStutter
         DEF Next, Step, IndexerStep

LEMMA ShapesInit ==
    ASSUME Init
    PROVE  Shapes
  BY ChainAssumption, ConsumerAssumption
     DEF Init, ChainInit, IndexerInit, ConsumerInit, Shapes, Down, Process, NoPoll, NoBlock

\* What the programs find is chosen at the start.
LEMMA DeploymentStays ==
    ASSUME [Next]_vars
    PROVE  deployment' = deployment
  BY DEF Next, vars

LEMMA DeploymentIsOne == Spec => [](deployment \in Deployments)
<1>1. Init => deployment \in Deployments
  BY DEF Init, ChainInit
<1>2. deployment \in Deployments /\ [Next]_vars => (deployment \in Deployments)'
  BY DeploymentStays
<1>. QED BY <1>1, <1>2, PTL DEF Spec

THEOREM ShapesAlways == Spec => []Shapes
  BY ShapesInit, ShapesStep, PTL DEF Spec

(***************************************************************************)
(* The cursors.  Up to every cursor, saved or in memory, and up to every   *)
(* event in hand, an event has a row or is known to be missed; up to the   *)
(* end of a range in hand, but for what is left of the range.              *)
(***************************************************************************)
CoveredBut(b, es) ==
    \A e \in canon \cap Watched :
        BlockOf[e] <= b /\ row[e] = "none" /\ e \notin es => e \in missed

Covered(b) == CoveredBut(b, {})

IndexerCovers ==
    /\ ix.pc # "down" => Covered(ix.at)
    /\ ix.pc = "insert" => CoveredBut(ix.to, ix.batch)
    /\ ix.pc \in {"publish", "save"} => Covered(ix.to)
    /\ ix.pc \in {"insert", "publish"} => \A e \in ix.batch : BlockOf[e] <= ix.to

InStore == {e \in Events : task[Poller].pc = "store" /\ task[Poller].event = e}

ListenerCovers ==
    /\ api.up => Covered(api.latest)
    /\ poll.busy => CoveredBut(poll.to, poll.todo \cup InStore)

TasksCover == \A w \in Workers : task[w] # Idle => Covered(BlockOf[task[w].event])

Covers == Covered(saved) /\ IndexerCovers /\ ListenerCovers /\ TasksCover

\* What a cursor covers stays covered: rows and what is missed only grow.
StillCovered(b, es) ==
    \A e \in (canon \cap Watched)' :
        BlockOf[e] <= b /\ row'[e] = "none" /\ e \notin es => e \in missed'

Grows ==
    /\ canon' \subseteq canon
    /\ missed \subseteq missed'
    /\ \A e \in Events : row'[e] = "none" => row[e] = "none"

LEMMA TablesGrow ==
    ASSUME Shapes, [Next]_vars
    PROVE  Grows
<1>. USE DEF Shapes, Grows, tables, apiVars, effects
<1>1. CASE ChainStep /\ UNCHANGED <<ix, apiVars, effects>>
  BY <1>1 DEF ChainStep, Mine, Reorganise
<1>2. CASE (IndexerLoop \/ CrashIndexer) /\ UNCHANGED <<head, canon, apiVars, effects>>
  BY <1>2 DEF IndexerLoop, CrashIndexer, Start, RecoverSaved, RecoverProcessed, StartAt,
              Fetch, InsertEvents, Stored, RowFails, InsertFails, SaveCursor
<1>3. CASE PublishNext
  BY <1>3 DEF PublishNext
<1>4. CASE (ServiceStep \/ \E e \in Events : TakeNew(e)) /\ UNCHANGED <<head, canon, ix, effects>>
  BY <1>4 DEF ServiceStep, TakeNew, StartSubscriber, RecoverPoller, StartPoller,
              StartPollerAtHead, RecoverFails, RecoverGivesUp, Subscribe, LoseRedis, CrashApi,
              StartPoll, StoreNew, Stored, StoreFails, EndPoll, SkipStored
<1>5. ASSUME NEW w \in Tasks, HandlerStep(w), UNCHANGED <<head, canon, ix>> PROVE Grows
  BY <1>5 DEF HandlerStep, CheckConfirmed, FindPending, Confirm, WriteEntry, Create, Record,
              Balance, MarkProcessed, HandlerFails
<1>6. CASE UNCHANGED vars
  BY <1>6 DEF vars
<1>. QED BY <1>1, <1>2, <1>3, <1>4, <1>5, <1>6 DEF Next, Step, IndexerStep

LEMMA CoverageStays ==
    ASSUME Shapes, [Next]_vars
    PROVE  /\ \A b, es : CoveredBut(b, es) => StillCovered(b, es)
           /\ \A b : Covered(b) => StillCovered(b, {})
           /\ Watched' = Watched
  BY TablesGrow, DeploymentStays DEF Grows, Shapes, CoveredBut, Covered, StillCovered, Watched

\* Whatever leaves a cursor alone leaves it covered.
LEMMA SavedStays ==
    ASSUME Shapes, Covers, [Next]_vars, UNCHANGED saved
    PROVE  Covered(saved)'
  BY CoverageStays DEF Covers, Covered, CoveredBut, StillCovered

LEMMA IndexerStays ==
    ASSUME Shapes, Covers, [Next]_vars, UNCHANGED ix
    PROVE  IndexerCovers'
  BY CoverageStays DEF Covers, IndexerCovers, Covered, CoveredBut, StillCovered

LEMMA ListenerStays ==
    ASSUME Shapes, Covers, [Next]_vars, UNCHANGED <<api, poll>>, InStore' = InStore
    PROVE  ListenerCovers'
  BY CoverageStays DEF Covers, ListenerCovers, Covered, CoveredBut, StillCovered

LEMMA TasksStay ==
    ASSUME Shapes, Covers, [Next]_vars,
           \A w \in Workers : task'[w] = Idle \/ (task[w] # Idle /\ task'[w].event = task[w].event)
    PROVE  TasksCover'
  BY CoverageStays DEF Covers, TasksCover, Covered, CoveredBut, StillCovered

LEMMA CoversOfIndexer ==
    ASSUME Shapes, Shapes', Covers, [Next]_vars,
           IndexerLoop \/ CrashIndexer, UNCHANGED <<head, canon, apiVars, effects>>
    PROVE  Covers'
<1>. USE SafeHeadIsNumber, BlocksAreNumbers, CoverageStays
<1>1. ListenerCovers' /\ TasksCover'
  BY ListenerStays, TasksStay DEF apiVars, InStore
<1>2. ASSUME UNCHANGED saved PROVE Covered(saved)'
  BY <1>2, SavedStays
<1>. DEFINE Rest == Covered(saved)' /\ IndexerCovers'
<1>3. ASSUME RecoverSaved PROVE Rest
  BY <1>2, <1>3 DEF RecoverSaved, tables, ReadyAt, Covers, IndexerCovers, Covered,
                    CoveredBut, StillCovered
<1>4. ASSUME NEW b \in Int, missed' = missed \cup PassedBy(b), UNCHANGED row
      PROVE  StillCovered(b, {})
  BY <1>4 DEF StillCovered, PassedBy, Shapes
<1>5. ASSUME NEW b \in ProcessedBlocks, RecoverProcessed(b) PROVE Rest
  <2>1. StillCovered(b, {})
    BY <1>4, <1>5 DEF RecoverProcessed
  <2>. QED BY <1>2, <1>5, <2>1 DEF RecoverProcessed, ReadyAt, IndexerCovers, Covered,
                                   CoveredBut, StillCovered
<1>6. ASSUME NEW b \in {0, SafeHead}, StartAt(b) PROVE Rest
  <2>1. StillCovered(b, {})
    BY <1>4, <1>6 DEF StartAt, Shapes
  <2>. QED BY <1>6, <2>1 DEF StartAt, ReadyAt, IndexerCovers, Covered, CoveredBut, StillCovered
<1>7. ASSUME Fetch PROVE Rest
  <2>. DEFINE to == ChunkEnd(ix.at + 1)
              logs == Logs(ix.at + 1, to)
  <2>1. ix.at \in Int /\ to \in Int
    BY DEF Shapes
  <2>2. /\ \A e \in canon \cap Watched : BlockOf[e] <= to /\ e \notin logs => BlockOf[e] <= ix.at
        /\ \A e \in logs : BlockOf[e] <= to
    BY <2>1 DEF Logs, Shapes
  <2>3. CoveredBut(to, logs)
    BY <1>7, <2>2 DEF Fetch, Covers, IndexerCovers, Covered, CoveredBut
  <2>4. StillCovered(to, logs) /\ StillCovered(ix.at, {})
    BY <1>7, <2>3 DEF Fetch, Covers, IndexerCovers
  <2>. HIDE DEF to, logs
  <2>5. ix' = [ix EXCEPT !.to = to, !.batch = logs,
                         !.pc = IF logs = {} THEN "save" ELSE "insert"]
    BY <1>7 DEF Fetch, to, logs
  <2>6. /\ ix'.at = ix.at /\ ix'.to = to /\ ix'.batch = logs
        /\ ix'.pc = IF logs = {} THEN "save" ELSE "insert"
    BY <2>5 DEF Shapes
  <2>7. IndexerCovers'
    BY <2>2, <2>4, <2>6 DEF IndexerCovers, Covered, CoveredBut, StillCovered
  <2>. QED BY <1>2, <1>7, <2>7 DEF Fetch, tables
<1>8. ASSUME InsertEvents \/ RowFails PROVE Rest
  <2>1. /\ ix'.at = ix.at /\ ix'.to = ix.to /\ ix'.batch = ix.batch
        /\ ix'.pc = "publish" /\ ix.pc = "insert"
    BY <1>8 DEF Shapes, InsertEvents, RowFails, Resume
  <2>2. StillCovered(ix.at, {}) /\ StillCovered(ix.to, ix.batch)
    BY <2>1 DEF Covers, IndexerCovers
  <2>3. \A e \in ix.batch : row'[e] = "none" => e \in missed'
    BY <1>8 DEF InsertEvents, RowFails, Stored, Shapes
  <2>4. \A e \in ix.batch : BlockOf[e] <= ix.to
    BY <2>1 DEF Covers, IndexerCovers
  <2>. QED BY <1>2, <1>8, <2>1, <2>2, <2>3, <2>4
           DEF InsertEvents, RowFails, IndexerCovers, Covered, CoveredBut, StillCovered
<1>9. ASSUME InsertFails PROVE Rest
  BY <1>2, <1>9 DEF InsertFails, tables, Shapes, Covers, IndexerCovers, Covered, CoveredBut,
                    StillCovered
<1>10. ASSUME SaveCursor PROVE Rest
  <2>1. ix'.at = ix.to /\ ix'.pc = "ready"
    BY <1>10 DEF Shapes, SaveCursor
  <2>2. StillCovered(ix.to, {})
    BY <1>10 DEF SaveCursor, Covers, IndexerCovers
  <2>3. saved' = ix.to \/ saved' = saved
    BY <1>10 DEF SaveCursor, Save
  <2>. QED BY <1>2, <2>1, <2>2, <2>3 DEF IndexerCovers, Covered, CoveredBut, StillCovered
<1>11. ASSUME CrashIndexer PROVE Rest
  BY <1>2, <1>11 DEF CrashIndexer, Down, tables, IndexerCovers
<1>. QED BY <1>1, <1>3, <1>5, <1>6, <1>7, <1>8, <1>9, <1>10, <1>11
         DEF IndexerLoop, Start, Covers

LEMMA CoversOfPublishing ==
    ASSUME Shapes, Shapes', Covers, [Next]_vars, PublishNext
    PROVE  Covers'
<1>1. PICK e \in Events : Publish(e) /\ Deliver(e) /\ UNCHANGED <<head, canon, tables, effects>>
  BY DEF PublishNext
<1>2. Covered(saved)'
  BY <1>1, SavedStays DEF tables
<1>3. IndexerCovers'
  <2>1. /\ ix'.at = ix.at /\ ix'.to = ix.to /\ ix'.batch \subseteq ix.batch
        /\ ix'.pc \in {"save", "publish"} /\ ix.pc = "publish"
    BY <1>1 DEF Publish, Shapes
  <2>2. StillCovered(ix.at, {}) /\ StillCovered(ix.to, {})
    BY <2>1, CoverageStays DEF Covers, IndexerCovers
  <2>. QED BY <2>1, <2>2 DEF Covers, IndexerCovers, Covered, CoveredBut, StillCovered
<1>4. UNCHANGED <<api, poll>>
  BY <1>1 DEF Deliver, apiVars
<1>5. CASE UNCHANGED task
  BY <1>2, <1>3, <1>4, <1>5, ListenerStays, TasksStay DEF Covers, InStore
<1>6. ASSUME NEW w \in Workers, Take(w, FirstStep(w, e), e) PROVE Covers'
  <2>1. task' = [task EXCEPT ![w] = [pc |-> FirstStep(w, e), event |-> e, pending |-> 0]]
    BY <1>6 DEF Take
  <2>2. w # Poller /\ w \in Tasks /\ Poller \in Tasks
    BY ConsumerAssumption DEF Tasks
  <2>3. ListenerCovers'
    BY <1>4, <2>1, <2>2, ListenerStays DEF Shapes, InStore
  <2>4. TasksCover'
    <3>1. BlockOf[e] <= ix.to /\ StillCovered(ix.to, {})
      BY <1>1, CoverageStays DEF Publish, Covers, IndexerCovers
    <3>2. ix.to \in Int /\ \A f \in Events : BlockOf[f] \in Int
      BY BlocksAreNumbers DEF Shapes
    <3>3. StillCovered(BlockOf[e], {})
      BY <3>1, <3>2 DEF StillCovered, Shapes
    <3>4. \A v \in Workers \ {w} : task[v] # Idle => StillCovered(BlockOf[task[v].event], {})
      BY CoverageStays DEF Covers, TasksCover
    <3>5. \A v \in Workers : v # w => task'[v] = task[v]
      BY <2>1 DEF Shapes, Tasks
    <3>6. task'[w].event = e
      BY <2>1, <2>2 DEF Shapes
    <3>. QED BY <3>3, <3>4, <3>5, <3>6 DEF TasksCover, Covered, CoveredBut, StillCovered
  <2>. QED BY <1>2, <1>3, <2>3, <2>4 DEF Covers
<1>. QED BY <1>1, <1>5, <1>6 DEF Deliver, apiVars

LEMMA CoversOfHandlers ==
    ASSUME Shapes, Shapes', Covers, [Next]_vars,
           NEW w \in Tasks, HandlerStep(w), UNCHANGED <<head, canon, ix>>
    PROVE  Covers'
<1>1. task[w] \in InHand /\ task[w].pc # "store"
  BY DEF HandlerStep, CheckConfirmed, FindPending, Confirm, WriteEntry, Create, Record,
         Balance, MarkProcessed, HandlerFails, Idle, Shapes
<1>2. /\ \A v \in Tasks \ {w} : task'[v] = task[v]
      /\ task'[w] = Idle \/ (task'[w].event = task[w].event /\ task'[w].pc # "store")
      /\ UNCHANGED <<saved, poll>>
  BY <1>1 DEF HandlerStep, CheckConfirmed, FindPending, Confirm, WriteEntry, Create, Record,
         Balance, MarkProcessed, HandlerFails, Goto, End, Shapes, InHand, tables
<1>3. Covered(saved)' /\ IndexerCovers'
  BY <1>2, SavedStays, IndexerStays
<1>4. TasksCover'
  BY <1>1, <1>2, TasksStay DEF InHand, Idle, Tasks
<1>5. InStore' = InStore
  BY <1>1, <1>2 DEF InStore, Idle, Tasks
<1>6. CASE UNCHANGED api
  BY <1>2, <1>3, <1>4, <1>5, <1>6, ListenerStays DEF Covers
<1>7. CASE MarkProcessed(w) /\ w \in Workers
  <2>1. api'.latest = BlockOf[task[w].event]
    BY <1>7, ConsumerAssumption DEF MarkProcessed, Shapes
  <2>2. StillCovered(BlockOf[task[w].event], {})
    BY <1>1, <1>7, CoverageStays DEF Covers, TasksCover, InHand, Idle
  <2>3. poll.busy => StillCovered(poll.to, poll.todo \cup InStore)
    BY CoverageStays DEF Covers, ListenerCovers
  <2>4. ListenerCovers'
    BY <1>2, <1>5, <2>1, <2>2, <2>3 DEF ListenerCovers, Covered, CoveredBut, StillCovered
  <2>. QED BY <1>3, <1>4, <2>4 DEF Covers
<1>8. UNCHANGED api \/ (MarkProcessed(w) /\ w \in Workers)
  BY DEF HandlerStep, CheckConfirmed, FindPending, Confirm, WriteEntry, Create, Record,
         Balance, MarkProcessed, HandlerFails, Goto, Tasks
<1>. QED BY <1>6, <1>7, <1>8

LEMMA CoversOfService ==
    ASSUME Shapes, Shapes', Covers, [Next]_vars,
           ServiceStep \/ \E e \in Events : TakeNew(e), UNCHANGED <<head, canon, ix, effects>>
    PROVE  Covers'
<1>. USE Workable
<1>1. IndexerCovers'
  BY IndexerStays
<1>2. ASSUME UNCHANGED saved PROVE Covered(saved)'
  BY <1>2, SavedStays
<1>3. ASSUME UNCHANGED task PROVE TasksCover' /\ InStore' = InStore
  BY <1>3, TasksStay DEF InStore
<1>4. ASSUME UNCHANGED <<api, poll, task, saved>> PROVE Covers'
  BY <1>1, <1>2, <1>3, <1>4, ListenerStays DEF Covers
<1>5. poll.busy => StillCovered(poll.to, poll.todo \cup InStore)
  BY CoverageStays DEF Covers, ListenerCovers
<1>6. api.up => StillCovered(api.latest, {})
  BY CoverageStays DEF Covers, ListenerCovers
<1>7. ASSUME UNCHANGED <<poll, task>>, api'.up => StillCovered(api'.latest, {})
      PROVE  ListenerCovers' /\ TasksCover'
  BY <1>3, <1>5, <1>7 DEF ListenerCovers, Covered, CoveredBut, StillCovered
<1>8. ASSUME NEW b \in Int, missed' = missed \cup PassedBy(b), UNCHANGED row
      PROVE  StillCovered(b, {})
  BY <1>8 DEF StillCovered, PassedBy, Shapes
<1>9. ASSUME NEW b \in Int, StartPoller(b) PROVE ListenerCovers' /\ TasksCover' /\ StillCovered(b, {})
  <2>1. StillCovered(b, {}) /\ api'.latest = b
    BY <1>8, <1>9 DEF StartPoller, Shapes
  <2>. QED BY <1>7, <1>9, <2>1 DEF StartPoller
<1>10. CASE StartSubscriber \/ RecoverGivesUp
  <2>1. StillCovered(0, {})
    BY BlocksAreNumbers DEF StillCovered, Shapes
  <2>2. api'.latest = 0
    BY <1>10 DEF StartSubscriber, RecoverGivesUp, Process
  <2>. QED BY <1>1, <1>2, <1>7, <1>10, <2>1, <2>2
           DEF StartSubscriber, RecoverGivesUp, tables, Covers
<1>11. CASE RecoverPoller
  <2>1. PICK b \in ProcessedBlocks : StartPoller(b) /\ UNCHANGED <<saved, faults>>
    BY <1>11 DEF RecoverPoller
  <2>. QED BY <1>1, <1>2, <1>9, <2>1, BlocksAreNumbers DEF Covers
<1>12. CASE StartPollerAtHead
  <2>1. SafeHead \in Int
    BY SafeHeadIsNumber DEF Shapes
  <2>2. ListenerCovers' /\ TasksCover' /\ StillCovered(SafeHead, {})
    BY <1>9, <1>12, <2>1 DEF StartPollerAtHead
  <2>3. saved' = SafeHead \/ saved' = saved
    BY <1>12 DEF StartPollerAtHead, Save
  <2>4. Covered(saved)'
    BY <1>2, <2>2, <2>3 DEF Covered, CoveredBut, StillCovered
  <2>. QED BY <1>1, <2>2, <2>4 DEF Covers
<1>12a. CASE RecoverFails
  <2>1. SafeHead \in Int
    BY SafeHeadIsNumber DEF Shapes
  <2>2. ListenerCovers' /\ TasksCover' /\ StillCovered(SafeHead, {})
    BY <1>9, <1>12a, <2>1 DEF RecoverFails
  <2>3. saved' = SafeHead \/ saved' = saved
    BY <1>12a DEF RecoverFails
  <2>4. Covered(saved)'
    BY <1>2, <2>2, <2>3 DEF Covered, CoveredBut, StillCovered
  <2>. QED BY <1>1, <2>2, <2>4 DEF Covers
<1>13. CASE Subscribe \/ LoseRedis
  <2>1. api'.up = api.up /\ api'.latest = api.latest
    BY <1>13 DEF Subscribe, LoseRedis, Shapes
  <2>. QED BY <1>1, <1>2, <1>6, <1>7, <1>13, <2>1 DEF Subscribe, LoseRedis, tables, Covers
<1>14. CASE CrashApi
  <2>1. TasksCover'
    BY <1>14, TasksStay DEF CrashApi, Tasks
  <2>2. ListenerCovers'
    BY <1>14 DEF CrashApi, Process, NoPoll, ListenerCovers
  <2>. QED BY <1>1, <1>2, <1>14, <2>1, <2>2 DEF CrashApi, tables, Covers
<1>15. CASE StartPoll
  <2>. DEFINE to == ChunkEnd(api.latest + 1)
              logs == Logs(api.latest + 1, to)
  <2>1. api.latest \in Int /\ to \in Int
    BY SafeHeadIsNumber DEF Shapes
  <2>2. \A e \in canon \cap Watched : BlockOf[e] <= to /\ e \notin logs => BlockOf[e] <= api.latest
    BY <2>1, BlocksAreNumbers DEF Logs, Shapes
  <2>3. CoveredBut(to, logs)
    BY <1>15, <2>2 DEF StartPoll, Covers, ListenerCovers, Covered, CoveredBut
  <2>4. StillCovered(to, logs)
    BY <2>3, CoverageStays
  <2>. HIDE DEF to, logs
  <2>5. poll'.to = to /\ \A e \in logs : e \notin poll'.todo /\ row'[e] = "none" => e \in missed'
    BY <1>15 DEF StartPoll, to, logs
  <2>6. UNCHANGED <<api, task, saved>>
    BY <1>15 DEF StartPoll
  <2>7. ListenerCovers'
    BY <1>6, <2>4, <2>5, <2>6 DEF ListenerCovers, Covered, CoveredBut, StillCovered
  <2>. QED BY <1>1, <1>2, <1>3, <2>6, <2>7 DEF Covers
<1>16. CASE StoreNew
  <2>1. task[Poller] \in InHand /\ task[Poller].pc = "store"
    BY <1>16 DEF StoreNew, Shapes, Idle
  <2>2. row'[task[Poller].event] # "none" /\ UNCHANGED <<api, poll, saved>>
    BY <1>16, <2>1 DEF StoreNew, Stored, Goto, InHand, Shapes
  <2>3. \A v \in Workers : task'[v] = task[v]
    BY <1>16, ConsumerAssumption DEF StoreNew, Goto, Shapes, Tasks
  <2>4. ListenerCovers'
    BY <1>5, <1>6, <2>1, <2>2 DEF ListenerCovers, InStore, Covered, CoveredBut, StillCovered, Shapes
  <2>. QED BY <1>1, <1>2, <2>2, <2>3, <2>4, TasksStay DEF Covers
<1>17. CASE StoreFails
  <2>1. task[Poller] \in InHand /\ task[Poller].pc = "store"
    BY <1>17 DEF StoreFails, Shapes, Idle
  <2>2. /\ row'[task[Poller].event] = "none" => task[Poller].event \in missed'
        /\ UNCHANGED <<api, poll, saved>>
    BY <1>17, <2>1 DEF StoreFails, End, InHand
  <2>3. \A v \in Workers : task'[v] = task[v]
    BY <1>17, ConsumerAssumption DEF StoreFails, End, Shapes, Tasks
  <2>4. ListenerCovers'
    BY <1>5, <1>6, <2>1, <2>2 DEF ListenerCovers, InStore, Covered, CoveredBut, StillCovered, Shapes
  <2>. QED BY <1>1, <1>2, <2>2, <2>3, <2>4, TasksStay DEF Covers
<1>18. CASE EndPoll
  <2>1. InStore = {} /\ poll.busy /\ poll.todo = {}
    BY <1>18 DEF EndPoll, InStore, Idle
  <2>2. StillCovered(poll.to, {})
    BY <1>5, <2>1
  <2>3. api'.latest = poll.to /\ ~poll'.busy /\ (saved' = poll.to \/ saved' = saved)
    BY <1>18 DEF EndPoll, Save, NoPoll, Shapes
  <2>4. ListenerCovers' /\ Covered(saved)'
    BY <1>2, <2>2, <2>3 DEF ListenerCovers, Covered, CoveredBut, StillCovered
  <2>. QED BY <1>1, <1>3, <1>18, <2>4 DEF EndPoll, Covers
<1>19. ASSUME NEW e \in Events, SkipStored(e) PROVE Covers'
  <2>1. poll'.to = poll.to /\ poll'.busy = poll.busy /\ poll'.todo = poll.todo \ {e}
    BY <1>19 DEF SkipStored, Shapes
  <2>2. row'[e] # "none" /\ UNCHANGED <<api, task, saved>>
    BY <1>19 DEF SkipStored, tables
  <2>3. ListenerCovers'
    BY <1>3, <1>5, <1>6, <2>1, <2>2 DEF ListenerCovers, Covered, CoveredBut, StillCovered
  <2>. QED BY <1>1, <1>2, <1>3, <2>2, <2>3 DEF Covers
<1>20. ASSUME NEW e \in Events, TakeNew(e) PROVE Covers'
  <2>1. poll'.to = poll.to /\ poll'.busy = poll.busy /\ poll'.todo = poll.todo \ {e}
    BY <1>20 DEF TakeNew, Shapes
  <2>2. /\ task'[Poller].pc = "store" /\ task'[Poller].event = e
        /\ task[Poller] = Idle /\ UNCHANGED <<api, saved>>
        /\ \A v \in Workers : task'[v] = task[v]
    BY <1>20, ConsumerAssumption DEF TakeNew, Take, Shapes, tables, Tasks
  <2>3. InStore = {} /\ InStore' = {e}
    BY <2>2 DEF InStore, Idle
  <2>4. ListenerCovers'
    BY <1>5, <1>6, <2>1, <2>2, <2>3 DEF ListenerCovers, Covered, CoveredBut, StillCovered
  <2>. QED BY <1>1, <1>2, <2>2, <2>4, TasksStay DEF Covers
<1>. QED BY <1>10, <1>11, <1>12, <1>12a, <1>13, <1>14, <1>15, <1>16, <1>17, <1>18, <1>19, <1>20
         DEF ServiceStep

LEMMA CoversStep ==
    ASSUME Shapes, Shapes', Covers, [Next]_vars
    PROVE  Covers'
<1>1. CASE ChainStep /\ UNCHANGED <<ix, apiVars, effects>>
  BY <1>1, SavedStays, IndexerStays, ListenerStays, TasksStay
     DEF ChainStep, Mine, Reorganise, tables, apiVars, InStore, Covers
<1>2. CASE UNCHANGED vars
  BY <1>2, SavedStays, IndexerStays, ListenerStays, TasksStay
     DEF vars, tables, apiVars, InStore, Covers
<1>. QED BY <1>1, <1>2, CoversOfIndexer, CoversOfPublishing, CoversOfService, CoversOfHandlers
         DEF Next, Step, IndexerStep

LEMMA CoversInit ==
    ASSUME Init
    PROVE  Covers
  BY BlocksAreNumbers
     DEF Init, ChainInit, IndexerInit, ConsumerInit, Down, Process, NoPoll, NoBlock, Covers, Covered,
         CoveredBut, IndexerCovers, ListenerCovers, TasksCover, Tasks

\* The cursor both programs write passes an event of the contract they watch
\* that has no row only where a call failed or a start jumped ahead, whichever
\* kinds of event one range holds.
THEOREM CursorCorrect == Spec => []PassedOnlyByFailure
<1>1. Init => Shapes /\ Covers
  BY ShapesInit, CoversInit
<1>2. Shapes /\ Covers /\ [Next]_vars => (Shapes /\ Covers)'
  BY ShapesStep, CoversStep
<1>3. Covers => PassedOnlyByFailure
  BY DEF Covers, Covered, CoveredBut, PassedOnlyByFailure
<1>. QED BY <1>1, <1>2, <1>3, PTL DEF Spec

(***************************************************************************)
(* Finality.  Whatever is read from the chain lies Buffer blocks deep and  *)
(* so out of reach of a reorganisation.                                    *)
(***************************************************************************)
Final == {e \in canon : BlockOf[e] <= head - Buffer}

ActedOnFinal ==
    /\ ix.batch \subseteq Final
    /\ poll.todo \subseteq Final
    /\ \A w \in Tasks : task[w] # Idle => task[w].event \in Final
    /\ \A e \in Events : row[e] # "none" \/ e \in created \/ moved[e] # 0 => e \in Final

LEMMA FinalStays ==
    ASSUME Shapes, [Next]_vars
    PROVE  Final \subseteq Final'
<1>. USE ChainAssumption DEF Shapes, Final
<1>1. CASE ChainStep
  BY <1>1 DEF ChainStep, Mine, Reorganise
<1>2. CASE UNCHANGED <<head, canon>>
  BY <1>2
<1>. QED BY <1>1, <1>2 DEF Next, Step, IndexerStep, PublishNext, vars

LEMMA LogsAreFinal ==
    ASSUME Shapes, NEW from \in Int
    PROVE  Logs(from, ChunkEnd(from)) \subseteq Final
<1>. SUFFICES ASSUME NEW e \in Logs(from, ChunkEnd(from)) PROVE e \in Final
  OBVIOUS
<1>1. ChunkEnd(from) \in Int /\ ChunkEnd(from) <= SafeHead /\ SafeHead \in Nat
  BY SafeHeadIsNumber DEF Shapes
<1>2. e \in canon /\ BlockOf[e] \in Nat \ {0} /\ BlockOf[e] <= SafeHead
  BY <1>1, BlocksAreNumbers DEF Logs, Shapes
<1>. QED BY <1>1, <1>2, ChainAssumption DEF Final, SafeHead, Shapes

LEMMA FinalOfIndexer ==
    ASSUME Shapes, Shapes', ActedOnFinal, [Next]_vars,
           IndexerLoop \/ CrashIndexer, UNCHANGED <<head, canon, apiVars, effects>>
    PROVE  ActedOnFinal'
<1>. USE FinalStays DEF ActedOnFinal, apiVars, effects
<1>1. CASE Fetch
  <2>1. ix'.batch = Logs(ix.at + 1, ChunkEnd(ix.at + 1)) /\ UNCHANGED row
    BY <1>1 DEF Fetch, Shapes, tables
  <2>2. ix'.batch \subseteq Final
    BY <2>1, LogsAreFinal DEF Shapes
  <2>. QED BY <2>1, <2>2
<1>2. CASE InsertEvents
  <2>1. ix'.batch = ix.batch
    BY <1>2 DEF InsertEvents, Resume, Shapes
  <2>2. \A e \in Events : row'[e] # "none" => row[e] # "none" \/ e \in ix.batch
    BY <1>2 DEF InsertEvents, Stored
  <2>. QED BY <2>1, <2>2
<1>3. CASE RecoverSaved \/ RowFails \/ InsertFails \/ SaveCursor \/ CrashIndexer
  <2>1. UNCHANGED row
    BY <1>3 DEF RecoverSaved, RowFails, InsertFails, SaveCursor, CrashIndexer, tables
  <2>2. CASE RecoverSaved \/ CrashIndexer
    BY <2>1, <2>2 DEF RecoverSaved, CrashIndexer, ReadyAt, Down
  <2>3. CASE RowFails \/ InsertFails
    <3>1. ix'.batch = ix.batch \/ ix'.batch = {}
      <4>1. CASE RowFails
        BY <4>1 DEF RowFails, Resume, Shapes
      <4>2. CASE InsertFails
        BY <4>2 DEF InsertFails, Shapes
      <4>. QED BY <2>3, <4>1, <4>2
    <3>. QED BY <2>1, <3>1
  <2>4. CASE SaveCursor
    <3>1. ix'.batch = ix.batch
      BY <2>4 DEF SaveCursor, Shapes
    <3>. QED BY <2>1, <3>1
  <2>. QED BY <1>3, <2>2, <2>3, <2>4
<1>4. ASSUME NEW b, RecoverProcessed(b) \/ StartAt(b) PROVE ActedOnFinal'
  <2>1. ix'.batch = {} /\ UNCHANGED row
    BY <1>4 DEF RecoverProcessed, StartAt, ReadyAt
  <2>. QED BY <2>1
<1>. QED BY <1>1, <1>2, <1>3, <1>4 DEF IndexerLoop, Start

LEMMA FinalOfPublishing ==
    ASSUME Shapes, Shapes', ActedOnFinal, [Next]_vars, PublishNext
    PROVE  ActedOnFinal'
<1>1. PICK e \in Events : Publish(e) /\ Deliver(e) /\ UNCHANGED <<head, canon, tables, effects>>
  BY DEF PublishNext
<1>2. e \in Final /\ ix'.batch \subseteq ix.batch
  BY <1>1 DEF Publish, ActedOnFinal, Shapes
<1>3. UNCHANGED poll
  BY <1>1 DEF Deliver, apiVars
<1>4. \A v \in Tasks : task'[v] = task[v] \/ task'[v].event = e
  BY <1>1 DEF Deliver, Take, Shapes, apiVars
<1>. QED BY <1>1, <1>2, <1>3, <1>4, FinalStays DEF ActedOnFinal, tables, effects

LEMMA FinalOfService ==
    ASSUME Shapes, Shapes', ActedOnFinal, [Next]_vars,
           ServiceStep \/ \E e \in Events : TakeNew(e), UNCHANGED <<head, canon, ix, effects>>
    PROVE  ActedOnFinal'
<1>. USE FinalStays, Workable DEF ActedOnFinal, effects
<1>1. ASSUME UNCHANGED row, poll'.todo \subseteq poll.todo,
             \A v \in Tasks : task'[v] = task[v] \/ task'[v] = Idle
      PROVE  ActedOnFinal'
  BY <1>1
<1>2. CASE StartSubscriber \/ RecoverPoller \/ StartPollerAtHead \/ RecoverFails
           \/ RecoverGivesUp \/ Subscribe \/ LoseRedis
  BY <1>1, <1>2 DEF StartSubscriber, RecoverPoller, StartPollerAtHead, StartPoller, RecoverFails,
                    RecoverGivesUp, Subscribe, LoseRedis, tables
<1>3. CASE CrashApi
  BY <1>1, <1>3 DEF CrashApi, NoPoll, tables
<1>4. CASE EndPoll
  BY <1>1, <1>4 DEF EndPoll, NoPoll
<1>5. CASE StoreFails
  <2>1. \A v \in Tasks : task'[v] = task[v] \/ task'[v] = Idle
    BY <1>5 DEF StoreFails, End, Shapes
  <2>. QED BY <1>1, <1>5, <2>1 DEF StoreFails, End
<1>6. ASSUME NEW e \in Events, SkipStored(e) PROVE ActedOnFinal'
  BY <1>1, <1>6 DEF SkipStored, tables, Shapes
<1>7. CASE StartPoll
  <2>1. poll'.todo \subseteq Logs(api.latest + 1, ChunkEnd(api.latest + 1)) /\ UNCHANGED <<row, task>>
    BY <1>7 DEF StartPoll
  <2>2. poll'.todo \subseteq Final
    BY <2>1, LogsAreFinal DEF Shapes
  <2>. QED BY <2>1, <2>2
<1>8. ASSUME NEW e \in Events, TakeNew(e) PROVE ActedOnFinal'
  <2>1. e \in poll.todo /\ poll'.todo \subseteq poll.todo /\ UNCHANGED row
    BY <1>8 DEF TakeNew, IsNext, tables, Shapes
  <2>2. \A v \in Tasks : task'[v] = task[v] \/ task'[v].event = e
    BY <1>8 DEF TakeNew, Take, Shapes
  <2>. QED BY <2>1, <2>2
<1>9. CASE StoreNew
  <2>1. task[Poller] # Idle /\ task[Poller] \in InHand
    BY <1>9 DEF StoreNew, Idle, Shapes
  <2>2. /\ \A v \in Tasks : task'[v] = task[v] \/ task'[v].event = task[Poller].event
        /\ UNCHANGED poll
        /\ \A e \in Events : row'[e] # "none" => row[e] # "none" \/ e = task[Poller].event
    BY <1>9, <2>1 DEF StoreNew, Goto, Stored, InHand, Shapes
  <2>. QED BY <2>1, <2>2
<1>. QED BY <1>2, <1>3, <1>4, <1>5, <1>6, <1>7, <1>8, <1>9 DEF ServiceStep

LEMMA FinalOfHandlers ==
    ASSUME Shapes, Shapes', ActedOnFinal, [Next]_vars,
           NEW w \in Tasks, HandlerStep(w), UNCHANGED <<head, canon, ix>>
    PROVE  ActedOnFinal'
<1>. USE DEF HandlerStep, CheckConfirmed, FindPending, Confirm, WriteEntry, Create, Record,
         Balance, MarkProcessed, HandlerFails
<1>1. task[w] \in InHand /\ task[w] # Idle
  BY DEF Idle, Shapes
<1>2. /\ \A v \in Tasks \ {w} : task'[v] = task[v]
      /\ task'[w] = Idle \/ task'[w].event = task[w].event
      /\ UNCHANGED poll
  BY <1>1 DEF Goto, End, Shapes, InHand
<1>3. /\ \A e \in Events : row'[e] # "none" => row[e] # "none"
      /\ created' \subseteq created \cup {task[w].event}
      /\ \A e \in Events : moved'[e] = moved[e] \/ e = task[w].event
  BY <1>1 DEF Shapes, InHand, tables, effects
<1>. QED BY <1>1, <1>2, <1>3, FinalStays DEF ActedOnFinal

LEMMA FinalStep ==
    ASSUME Shapes, Shapes', ActedOnFinal, [Next]_vars
    PROVE  ActedOnFinal'
<1>1. CASE UNCHANGED <<ix, row, created, moved, poll, task>>
  BY <1>1, FinalStays DEF ActedOnFinal
<1>2. CASE ChainStep /\ UNCHANGED <<ix, apiVars, effects>>
  BY <1>1, <1>2 DEF ChainStep, Mine, Reorganise, tables, apiVars, effects
<1>3. CASE UNCHANGED vars
  BY <1>1, <1>3 DEF vars, tables, apiVars, effects
<1>. QED BY <1>2, <1>3, FinalOfIndexer, FinalOfPublishing, FinalOfService, FinalOfHandlers
         DEF Next, Step, IndexerStep

\* No reorganisation takes back an event that was stored or acted on.
THEOREM FinalityCorrect == Spec => []OnlyFinalEvents
<1>1. Init => Shapes /\ ActedOnFinal
  <2>1. Init => ActedOnFinal
    BY DEF Init, ChainInit, IndexerInit, ConsumerInit, Down, NoPoll, ActedOnFinal, Tasks
  <2>. QED BY <2>1, ShapesInit
<1>2. Shapes /\ ActedOnFinal /\ [Next]_vars => (Shapes /\ ActedOnFinal)'
  BY ShapesStep, FinalStep
<1>3. ActedOnFinal => OnlyFinalEvents
  BY DEF ActedOnFinal, Final, OnlyFinalEvents
<1>. QED BY <1>1, <1>2, <1>3, PTL DEF Spec

(***************************************************************************)
(* The bounds of the cursors and of the faults: with the shapes above,     *)
(* the types of all variables but what the handlers write.                 *)
(***************************************************************************)
Heights == 0 .. MaxHead

Bounds ==
    /\ head \in Heights
    /\ saved \in {NoBlock} \cup Heights
    /\ missed \subseteq Events
    /\ faults \in 0 .. MaxFaults
    /\ ix.at \in Heights /\ ix.to \in Heights
    /\ api.latest \in Heights
    /\ poll.to \in Heights

LEMMA SafeHeadIsBounded ==
    ASSUME head \in Heights
    PROVE  /\ SafeHead \in Heights
           /\ \A from \in Nat \ {0} : ChunkEnd(from) \in Heights
  BY ChainAssumption DEF SafeHead, ChunkEnd, Heights

LEMMA ReadIsBounded ==
    ASSUME Shapes, Bounds, ActedOnFinal
    PROVE  /\ ProcessedBlocks \subseteq Heights
           /\ \A w \in Tasks : task[w] # Idle => BlockOf[task[w].event] \in Heights
  BY BlocksAreNumbers, ChainAssumption
     DEF Shapes, Bounds, ActedOnFinal, Final, ProcessedBlocks, Heights

LEMMA SaveIsBounded ==
    ASSUME Bounds, NEW b \in Heights, Save(b)
    PROVE  saved' \in {NoBlock} \cup Heights /\ faults' \in 0 .. MaxFaults
  BY ChainAssumption DEF Bounds, Save, Refused, Fault, Heights

LEMMA FaultIsBounded ==
    ASSUME Bounds, Fault
    PROVE  faults' \in 0 .. MaxFaults
  BY ChainAssumption DEF Bounds, Fault

LEMMA RefusedIsBounded ==
    ASSUME Bounds, Refused
    PROVE  faults' \in 0 .. MaxFaults
  BY FaultIsBounded DEF Bounds, Refused

LEMMA BoundsOfIndexer ==
    ASSUME Shapes, Bounds, ActedOnFinal, IndexerLoop \/ CrashIndexer,
           UNCHANGED <<head, canon, apiVars, effects>>
    PROVE  Bounds'
<1>. USE SafeHeadIsBounded, ReadIsBounded, FaultIsBounded DEF Bounds, apiVars
<1>1. ASSUME UNCHANGED <<tables, faults>>, ix'.at \in Heights, ix'.to \in Heights
      PROVE  Bounds'
  BY <1>1 DEF tables
<1>2. 0 \in Heights
  BY ChainAssumption DEF Heights
<1>3. CASE RecoverSaved
  BY <1>1, <1>2, <1>3 DEF RecoverSaved, ReadyAt
<1>4. ASSUME NEW b \in ProcessedBlocks, RecoverProcessed(b) PROVE Bounds'
  BY <1>2, <1>4 DEF RecoverProcessed, ReadyAt, PassedBy
<1>5. ASSUME NEW b \in {0, SafeHead}, StartAt(b) PROVE Bounds'
  BY <1>2, <1>5 DEF StartAt, ReadyAt, PassedBy
<1>6. CASE Fetch
  <2>1. ix'.at = ix.at /\ ix'.to = ChunkEnd(ix.at + 1)
    BY <1>6 DEF Fetch, Shapes
  <2>2. ix.at + 1 \in Nat \ {0}
    BY DEF Heights
  <2>. QED BY <1>1, <1>6, <2>1, <2>2 DEF Fetch
<1>7. CASE InsertEvents
  BY <1>7 DEF InsertEvents, Resume, Shapes
<1>8. CASE RowFails \/ InsertFails
  <2>1. ix'.at = ix.at /\ ix'.to = ix.to /\ UNCHANGED saved
    BY <1>8 DEF RowFails, InsertFails, Resume, Shapes, tables
  <2>2. missed' \subseteq Events
    BY <1>8 DEF RowFails, InsertFails, tables, Shapes
  <2>. QED BY <1>8, <2>1, <2>2 DEF RowFails, InsertFails
<1>9. CASE SaveCursor
  BY <1>9, SaveIsBounded DEF SaveCursor, Shapes
<1>10. CASE CrashIndexer
  BY <1>2, <1>10 DEF CrashIndexer, Down, tables
<1>. QED BY <1>3, <1>4, <1>5, <1>6, <1>7, <1>8, <1>9, <1>10 DEF IndexerLoop, Start

LEMMA BoundsOfPublishing ==
    ASSUME Shapes, Bounds, PublishNext
    PROVE  Bounds'
<1>1. PICK e \in Events : Publish(e) /\ Deliver(e) /\ UNCHANGED <<head, canon, tables, effects>>
  BY DEF PublishNext
<1>2. ix'.at = ix.at /\ ix'.to = ix.to
  BY <1>1 DEF Publish, Shapes
<1>3. UNCHANGED <<api, poll>> /\ faults' \in 0 .. MaxFaults
  BY <1>1, FaultIsBounded DEF Deliver, apiVars, Bounds
<1>. QED BY <1>1, <1>2, <1>3 DEF Bounds, tables

LEMMA BoundsOfService ==
    ASSUME Shapes, Bounds, ActedOnFinal, ServiceStep \/ \E e \in Events : TakeNew(e),
           UNCHANGED <<head, canon, ix, effects>>
    PROVE  Bounds'
<1>. USE SafeHeadIsBounded, ReadIsBounded, FaultIsBounded DEF Bounds
<1>1. ASSUME UNCHANGED <<saved, missed>>, faults' \in 0 .. MaxFaults,
             api'.latest \in Heights, poll'.to \in Heights
      PROVE  Bounds'
  BY <1>1
<1>2. 0 \in Heights
  BY ChainAssumption DEF Heights
<1>3. CASE StartSubscriber \/ Subscribe \/ LoseRedis
  <2>1. api'.latest \in Heights /\ poll' = poll
    <3>1. CASE StartSubscriber
      BY <1>2, <3>1 DEF StartSubscriber, Process
    <3>2. CASE Subscribe \/ LoseRedis
      BY <3>2 DEF Subscribe, LoseRedis, Shapes
    <3>. QED BY <1>3, <3>1, <3>2
  <2>. QED BY <1>1, <1>3, <2>1 DEF StartSubscriber, Subscribe, LoseRedis, tables
<1>4. CASE CrashApi
  BY <1>1, <1>2, <1>4 DEF CrashApi, Process, NoPoll, tables
<1>5. ASSUME NEW b \in Heights, StartPoller(b)
      PROVE  /\ api'.latest \in Heights /\ poll' = poll
             /\ missed' \subseteq Events
  <2>1. api'.latest = b /\ poll' = poll
    BY <1>5 DEF StartPoller, Shapes
  <2>2. missed' \subseteq Events
    BY <1>5 DEF StartPoller, PassedBy
  <2>. QED BY <2>1, <2>2
<1>6. CASE RecoverPoller
  BY <1>5, <1>6 DEF RecoverPoller
<1>7. CASE StartPollerAtHead
  BY <1>5, <1>7, SaveIsBounded DEF StartPollerAtHead
<1>7a. CASE RecoverFails
  BY <1>5, <1>7a, RefusedIsBounded DEF RecoverFails
<1>7b. CASE RecoverGivesUp
  BY <1>1, <1>2, <1>7b DEF RecoverGivesUp, Process, tables
<1>8. CASE StartPoll
  <2>1. api.latest + 1 \in Nat \ {0}
    BY DEF Heights
  <2>. DEFINE to == ChunkEnd(api.latest + 1)
              logs == Logs(api.latest + 1, to)
  <2>2. to \in Heights /\ logs \subseteq Events
    BY <2>1 DEF Logs, Shapes
  <2>. HIDE DEF to, logs
  <2>3. /\ UNCHANGED <<api, saved>>
        /\ poll'.to = to
        /\ missed' \subseteq missed \cup logs
        /\ faults' = faults \/ Fault
    BY <1>8 DEF StartPoll, to, logs
  <2>. QED BY <2>2, <2>3
<1>9. CASE StoreNew
  BY <1>1, <1>9 DEF StoreNew, Goto
<1>10. CASE StoreFails
  BY <1>10, RefusedIsBounded DEF StoreFails, End
<1>11. CASE EndPoll
  <2>1. api'.latest = poll.to /\ poll'.to = 0
    BY <1>11 DEF EndPoll, NoPoll, Shapes
  <2>. QED BY <1>2, <1>11, <2>1, SaveIsBounded DEF EndPoll
<1>12. ASSUME NEW e \in Events, SkipStored(e) \/ TakeNew(e) PROVE Bounds'
  <2>1. poll'.to = poll.to /\ UNCHANGED <<api, tables>>
    BY <1>12 DEF SkipStored, TakeNew, Shapes
  <2>2. faults' \in 0 .. MaxFaults
    BY <1>12 DEF SkipStored, TakeNew
  <2>. QED BY <1>1, <2>1, <2>2 DEF tables
<1>. QED BY <1>3, <1>4, <1>6, <1>7, <1>7a, <1>7b, <1>8, <1>9, <1>10, <1>11, <1>12 DEF ServiceStep

LEMMA BoundsOfHandlers ==
    ASSUME Shapes, Bounds, ActedOnFinal,
           NEW w \in Tasks, HandlerStep(w), UNCHANGED <<head, canon, ix>>
    PROVE  Bounds'
<1>. USE FaultIsBounded DEF Bounds
<1>1. CASE MarkProcessed(w)
  <2>1. api'.latest \in {api.latest, BlockOf[task[w].event]} /\ task[w] # Idle
    BY <1>1 DEF MarkProcessed, Idle, Shapes
  <2>2. api'.latest \in Heights
    BY <2>1, ReadIsBounded
  <2>. QED BY <1>1, <2>2 DEF MarkProcessed, End
<1>2. CASE ~MarkProcessed(w)
  BY <1>2 DEF HandlerStep, CheckConfirmed, FindPending, Confirm, WriteEntry, Create, Record,
              Balance, HandlerFails, Goto, End, tables
<1>. QED BY <1>1, <1>2

LEMMA BoundsStep ==
    ASSUME Shapes, Bounds, ActedOnFinal, [Next]_vars
    PROVE  Bounds'
<1>1. CASE ChainStep /\ UNCHANGED <<ix, apiVars, effects>>
  BY <1>1, ChainAssumption
     DEF Bounds, Heights, ChainStep, Mine, Reorganise, tables, apiVars
<1>2. CASE UNCHANGED vars
  BY <1>2 DEF Bounds, vars, tables, apiVars
<1>. QED BY <1>1, <1>2, BoundsOfIndexer, BoundsOfPublishing, BoundsOfService, BoundsOfHandlers
         DEF Next, Step, IndexerStep

LEMMA BoundsInit ==
    ASSUME Init
    PROVE  Bounds
  BY ChainAssumption
     DEF Init, ChainInit, IndexerInit, ConsumerInit, Bounds, Heights, Down, Process, NoPoll, NoBlock

(***************************************************************************)
(* What the handlers write.                                                *)
(***************************************************************************)
TaskIn(w, steps) == task[w].pc \in steps

EffectShapes ==
    /\ confirmedBy \in [Pendings -> {NoTx, Elsewhere} \cup {TxOf[e] : e \in Events}]
    /\ created \subseteq Events
    /\ recorded \subseteq Events
    /\ entries \subseteq Pendings \X Events

\* Each step of a handler is reached with what the steps before it leave.
InTheirSteps ==
    \A w \in Tasks :
        /\ TaskIn(w, {"confirm", "entry"}) => task[w].pending \in Pendings
        /\ TaskIn(w, {"record", "balance"}) =>
              w # Poller /\ KindOf[task[w].event] # "InvestmentMade"
        /\ TaskIn(w, {"balance"}) => task[w].event \in recorded

MovedIsRecorded == \A e \in Events : moved[e] > 0 => e \in recorded

\* One task at a time, one investment for each transaction.
Alone == \A v, w \in Tasks : task[v] # Idle /\ task[w] # Idle => v = w

\* Confirmed by an event, not by the service of the API.
ByEvent(p) == confirmedBy[p] \notin {NoTx, Elsewhere}

OneForEach ==
    /\ \A p, q \in Pendings : ByEvent(p) /\ confirmedBy[p] = confirmedBy[q] => p = q
    /\ \A f, g \in created : TxOf[f] = TxOf[g] => f = g
    /\ \A p \in Pendings, f \in created : confirmedBy[p] # TxOf[f]
    /\ \A x \in entries : confirmedBy[x[1]] # NoTx
    /\ \A x, y \in entries : x[1] = y[1] => x = y

ProgressOf(w) ==
    /\ TaskIn(w, {"pending", "confirm", "create"}) => ~Confirmed(TxOf[task[w].event])
    /\ TaskIn(w, {"confirm"}) => confirmedBy[task[w].pending] = NoTx
    /\ TaskIn(w, {"entry"}) =>
          /\ confirmedBy[task[w].pending] = TxOf[task[w].event]
          /\ \A x \in entries : x[1] # task[w].pending

InProgress == \A w \in Tasks : ProgressOf(w)

\* Events that count as handled, or are about to.
Handled == {e \in Events : KindOf[e] = "InvestmentMade" /\
                (row[e] = "processed" \/ \E w \in Tasks : TaskIn(w, {"mark"}) /\ task[w].event = e)}

\* There is a row with the id of the event's investment.
Rowed(e) == \E f \in created : RowId[f] = RowId[e]

HandledAreConfirmed == \A e \in Handled : Confirmed(TxOf[e]) \/ Rowed(e)

\* Without a failure a confirmation and its entry go together.
Entered(p) ==
    \E f \in Events :
        /\ TxOf[f] = confirmedBy[p]
        /\ \/ <<p, f>> \in entries
           \/ \E w \in Tasks : TaskIn(w, {"entry"}) /\ task[w].event = f /\ task[w].pending = p

ConfirmedAreEntered == faults = 0 => \A p \in Pendings : ByEvent(p) => Entered(p)

EntryOf(tx) ==
    \E f \in Events : TxOf[f] = tx /\ (f \in created \/ \E p \in Pendings : <<p, f>> \in entries)

HandledAreEntered == faults = 0 => \A e \in Handled : EntryOf(TxOf[e]) \/ Rowed(e)

OneByOne ==
    ~overlapped =>
        Alone /\ OneForEach /\ InProgress /\ HandledAreConfirmed /\ ConfirmedAreEntered /\ HandledAreEntered

EffectsInv == EffectShapes /\ InTheirSteps /\ MovedIsRecorded /\ OneByOne

\* Without a failure the indexer hands out each event once: it is behind the
\* indexer when the API has it in hand.
Reached == IF ix.pc \in {"publish", "save"} THEN ix.to ELSE ix.at

HandedOut(e) == ix.pc # "down" /\ BlockOf[e] <= Reached /\ e \notin ix.batch

RangeInHand ==
    /\ ix.pc \in {"insert", "publish", "save"} => ix.at <= ix.to
    /\ ix.pc \in {"ready", "save"} => ix.batch = {}
    /\ ix.pc \in {"insert", "publish"} =>
           \A e \in ix.batch : ix.at < BlockOf[e] /\ BlockOf[e] <= ix.to

HandedOutOnce ==
    /\ \A w \in Workers : task[w] # Idle => HandedOut(task[w].event)
    /\ \A v, w \in Workers : task[v] # Idle /\ task[w] # Idle /\ v # w =>
           task[v].event # task[w].event
    /\ \A e \in Events : moved[e] > 0 => HandedOut(e)
    /\ \A w \in Workers : TaskIn(w, {"record", "balance"}) => moved[task[w].event] = 0
    /\ \A e \in Events : moved[e] <= 1

NoRepeat == faults = 0 => RangeInHand /\ HandedOutOnce

LEMMA FaultsGrow ==
    ASSUME Bounds, [Next]_vars, faults' = 0
    PROVE  faults = 0 /\ ~Fault
<1>1. ~Fault
  BY DEF Bounds, Fault
<1>2. faults' = faults
  BY <1>1 DEF Next, Step, vars, ChainStep, Mine, Reorganise, IndexerStep, IndexerLoop, Start, RecoverSaved,
              RecoverProcessed, StartAt, Fetch, InsertEvents, RowFails, InsertFails, SaveCursor, Save,
              Refused, CrashIndexer, PublishNext, Deliver, ServiceStep, RecoverFails, RecoverGivesUp, StartSubscriber, RecoverPoller,
              StartPollerAtHead, Subscribe, LoseRedis, CrashApi, StartPoll, StoreNew, StoreFails,
              EndPoll, SkipStored, TakeNew, HandlerStep, CheckConfirmed, FindPending, Confirm,
              WriteEntry, Create, Record, Balance, MarkProcessed, HandlerFails, Goto, End
<1>. QED BY <1>1, <1>2

\* Where no handler moves, tasks start or end and the effects stay.
TasksStartOrEnd ==
    /\ UNCHANGED effects
    /\ \A e \in Events : row'[e] = "processed" => row[e] = "processed"
    /\ \A w \in Tasks :
          \/ task'[w] = task[w]
          \/ task'[w] = Idle /\ (TaskIn(w, {"entry"}) => faults' # 0)
          \/ /\ task'[w].pc \in {"store", FirstStep(w, task'[w].event)}
             /\ ~TaskIn(w, {"entry"})
    /\ ~overlapped' => ~overlapped /\ Alone'

LEMMA EffectsStay ==
    ASSUME Shapes, Shapes', EffectsInv, TasksStartOrEnd, faults' = 0 => faults = 0
    PROVE  EffectsInv'
<1>. USE DEF TasksStartOrEnd, effects, TaskIn, FirstStep, Idle
<1>1. EffectShapes' /\ MovedIsRecorded'
  BY DEF EffectsInv, EffectShapes, MovedIsRecorded
<1>2. InTheirSteps'
  BY DEF EffectsInv, InTheirSteps
<1>3. ASSUME ~overlapped' PROVE OneByOne'
  <2>1. OneByOne /\ ~overlapped /\ Alone'
    BY <1>3 DEF EffectsInv
  <2>2. OneForEach' /\ InProgress'
    BY <2>1 DEF OneByOne, OneForEach, ByEvent, InProgress, ProgressOf, Confirmed
  <2>3. Handled' \subseteq Handled
    BY DEF Handled
  <2>4. HandledAreConfirmed' /\ HandledAreEntered'
    BY <2>1, <2>3 DEF OneByOne, HandledAreConfirmed, HandledAreEntered, Confirmed, EntryOf, Rowed
  <2>5. ConfirmedAreEntered'
    <3>. SUFFICES ASSUME faults' = 0, NEW p \in Pendings, ByEvent(p)'
                  PROVE  Entered(p)'
      BY DEF ConfirmedAreEntered
    <3>1. Entered(p)
      BY <2>1 DEF OneByOne, ConfirmedAreEntered, ByEvent
    <3>. QED BY <3>1 DEF Entered
  <2>. QED BY <2>1, <2>2, <2>4, <2>5 DEF OneByOne
<1>. QED BY <1>1, <1>2, <1>3 DEF EffectsInv, OneByOne

LEMMA TakingStarts ==
    ASSUME Shapes, EffectsInv, NEW w \in Tasks, NEW e \in Events, NEW pc \in {"store", FirstStep(w, e)},
           task[w] = Idle, Take(w, pc, e), UNCHANGED <<effects, row>>
    PROVE  TasksStartOrEnd
<1>1. task'[w] = [pc |-> pc, event |-> e, pending |-> 0] /\ ~TaskIn(w, {"entry"})
  BY DEF Take, Shapes, TaskIn, Idle
<1>2. \A v \in Tasks \ {w} : task'[v] = task[v]
  BY DEF Take, Shapes
<1>3. ~overlapped' => ~overlapped /\ Alone'
  BY <1>2 DEF Take, Alone, Shapes
<1>. QED BY <1>1, <1>2, <1>3 DEF TasksStartOrEnd

LEMMA EffectsOfService ==
    ASSUME Shapes, Bounds, EffectsInv, [Next]_vars,
           ServiceStep \/ \E e \in Events : TakeNew(e),
           UNCHANGED <<head, canon, ix, effects>>
    PROVE  TasksStartOrEnd
<1>. USE FaultsGrow, Workable DEF effects
<1>1. ASSUME UNCHANGED <<row, task, overlapped>> PROVE TasksStartOrEnd
  BY <1>1 DEF TasksStartOrEnd, EffectsInv, OneByOne, Alone
<1>2. CASE StartSubscriber \/ RecoverPoller \/ StartPollerAtHead \/ RecoverFails
           \/ RecoverGivesUp \/ Subscribe \/ LoseRedis \/ StartPoll \/ EndPoll
           \/ \E e \in Events : SkipStored(e)
  BY <1>1, <1>2 DEF StartSubscriber, RecoverPoller, StartPollerAtHead, StartPoller, RecoverFails,
                    RecoverGivesUp, Subscribe, LoseRedis, StartPoll, EndPoll, SkipStored, tables
<1>3. CASE CrashApi
  <2>1. /\ UNCHANGED <<row, overlapped>> /\ faults' # 0
        /\ \A w \in Tasks : task'[w] = Idle
    BY <1>3 DEF CrashApi, tables
  <2>. QED BY <2>1 DEF TasksStartOrEnd, Alone
<1>4. CASE StoreNew \/ StoreFails
  <2>1. task[Poller] \in InHand /\ task[Poller].pc = "store" /\ task[Poller] # Idle
    BY <1>4 DEF StoreNew, StoreFails, Shapes, Idle
  <2>2. /\ \A v \in Tasks \ {Poller} : task'[v] = task[v]
        /\ task'[Poller] = Idle \/ task'[Poller].pc = FirstStep(Poller, task'[Poller].event)
        /\ UNCHANGED overlapped
    BY <1>4, <2>1 DEF StoreNew, StoreFails, Goto, End, Shapes, InHand
  <2>3. \A e \in Events : row'[e] = "processed" => row[e] = "processed"
    BY <1>4 DEF StoreNew, StoreFails, Stored
  <2>4. ~overlapped' => ~overlapped /\ Alone'
    BY <2>1, <2>2 DEF EffectsInv, OneByOne, Alone
  <2>. QED BY <2>1, <2>2, <2>3, <2>4 DEF TasksStartOrEnd, TaskIn
<1>5. ASSUME NEW e \in Events, TakeNew(e) PROVE TasksStartOrEnd
  BY <1>5, TakingStarts DEF TakeNew, tables
<1>. QED BY <1>2, <1>3, <1>4, <1>5 DEF ServiceStep

LEMMA EffectsOfPublishing ==
    ASSUME Shapes, EffectsInv, PublishNext
    PROVE  TasksStartOrEnd
<1>1. PICK e \in Events : Deliver(e) /\ UNCHANGED <<tables, effects>>
  BY DEF PublishNext
<1>2. CASE UNCHANGED apiVars
  BY <1>1, <1>2 DEF TasksStartOrEnd, EffectsInv, OneByOne, Alone, apiVars, tables
<1>3. ASSUME NEW w \in Workers, task[w] = Idle, Take(w, FirstStep(w, e), e) PROVE TasksStartOrEnd
  BY <1>1, <1>3, TakingStarts, Workable DEF tables
<1>. QED BY <1>1, <1>2, <1>3 DEF Deliver

LEMMA HandlerFrame ==
    ASSUME Shapes, NEW w \in Tasks, HandlerStep(w)
    PROVE  /\ task[w] \in InHand /\ task[w] # Idle
           /\ \A v \in Tasks \ {w} : task'[v] = task[v]
           /\ \/ task'[w] = Idle
              \/ task'[w] \in InHand /\ task'[w].event = task[w].event
           /\ UNCHANGED overlapped
<1>1. task[w] \in InHand /\ task[w] # Idle
  BY DEF Shapes, HandlerStep, CheckConfirmed, FindPending, Confirm, WriteEntry, Create, Record,
         Balance, MarkProcessed, HandlerFails, Idle
<1>2. CASE CheckConfirmed(w) \/ Confirm(w) \/ WriteEntry(w) \/ Create(w) \/ Record(w)
  BY <1>1, <1>2 DEF Shapes, CheckConfirmed, Confirm, WriteEntry, Create, Record, Goto, InHand, Steps
<1>3. CASE FindPending(w)
  BY <1>1, <1>3 DEF Shapes, FindPending, Open, InHand, Steps
<1>4. CASE Balance(w) \/ MarkProcessed(w) \/ HandlerFails(w)
  BY <1>1, <1>4 DEF Shapes, Balance, MarkProcessed, HandlerFails, Goto, End, InHand, Steps
<1>. QED BY <1>1, <1>2, <1>3, <1>4 DEF HandlerStep

LEMMA HandlerEffects ==
    ASSUME Shapes, Shapes', EffectsInv, NEW w \in Tasks, HandlerStep(w)
    PROVE  EffectShapes' /\ InTheirSteps' /\ MovedIsRecorded'
<1>. USE HandlerFrame DEF EffectsInv, EffectShapes, InTheirSteps, MovedIsRecorded, TaskIn, Idle, effects
<1>1. CASE CheckConfirmed(w) \/ HandlerFails(w) \/ MarkProcessed(w)
  <2>1. UNCHANGED effects
    BY <1>1 DEF CheckConfirmed, HandlerFails, MarkProcessed
  <2>2. task'[w] = Idle \/ task'[w].pc \in {"mark", "pending"}
    BY <1>1 DEF CheckConfirmed, HandlerFails, MarkProcessed, Goto, End, Shapes, InHand
  <2>. QED BY <2>1, <2>2
<1>2. CASE FindPending(w)
  <2>1. UNCHANGED effects
    BY <1>2 DEF FindPending
  <2>2. task'[w].pc = "create" \/ (task'[w].pc = "confirm" /\ task'[w].pending \in Pendings)
    BY <1>2 DEF FindPending, Shapes, InHand, Open
  <2>. QED BY <2>1, <2>2
<1>3. CASE Confirm(w)
  <2>1. /\ task'[w].pc = "entry" /\ task'[w].pending = task[w].pending
        /\ task[w].pending \in Pendings /\ task[w].event \in Events
    BY <1>3 DEF Confirm, Goto, Shapes, InHand
  <2>2. EffectShapes'
    BY <1>3, <2>1 DEF Confirm
  <2>. QED BY <1>3, <2>1, <2>2 DEF Confirm
<1>4. CASE WriteEntry(w)
  <2>1. /\ task'[w].pc = "mark"
        /\ task[w].pending \in Pendings /\ task[w].event \in Events
    BY <1>4 DEF WriteEntry, Goto, Shapes, InHand
  <2>. QED BY <1>4, <2>1 DEF WriteEntry
<1>5. CASE Create(w)
  <2>1. task'[w].pc = "mark" /\ task[w].event \in Events
    BY <1>5 DEF Create, Goto, Shapes, InHand
  <2>. QED BY <1>5, <2>1 DEF Create
<1>6. CASE Record(w)
  <2>1. /\ task'[w].pc = "balance" /\ task[w].event \in Events /\ task'[w].event = task[w].event
        /\ w # Poller /\ KindOf[task[w].event] # "InvestmentMade"
    BY <1>6 DEF Record, Goto, Shapes, InHand
  <2>. QED BY <1>6, <2>1 DEF Record
<1>7. CASE Balance(w)
  <2>1. /\ task'[w] = Idle \/ task'[w].pc = "mark"
        /\ task[w].event \in Events /\ task[w].event \in recorded
    BY <1>7 DEF Balance, Shapes, InHand
  <2>2. \A e \in Events : moved'[e] > 0 => moved[e] > 0 \/ e = task[w].event
    BY <1>7 DEF Balance, Shapes
  <2>. QED BY <1>7, <2>1, <2>2 DEF Balance
<1>. QED BY <1>1, <1>2, <1>3, <1>4, <1>5, <1>6, <1>7 DEF HandlerStep

LEMMA EnteredIsEntry ==
    ASSUME EffectsInv, ~overlapped, faults = 0, NEW w \in Tasks, task[w] # Idle, task[w].pc # "entry",
           NEW p \in Pendings, ByEvent(p)
    PROVE  \E f \in Events : TxOf[f] = confirmedBy[p] /\ <<p, f>> \in entries
<1>1. Entered(p) /\ Alone
  BY DEF EffectsInv, OneByOne, ConfirmedAreEntered
<1>2. \A v \in Tasks : ~TaskIn(v, {"entry"})
  BY <1>1 DEF Alone, TaskIn, Idle
<1>. QED BY <1>1, <1>2 DEF Entered

\* The task that moves is the only one, so its own step decides.
LEMMA HandlerAlone ==
    ASSUME Shapes, EffectsInv, ~overlapped, NEW w \in Tasks, HandlerStep(w)
    PROVE  /\ \A v \in Tasks \ {w} : task[v] = Idle /\ task'[v] = Idle
           /\ Alone'
  BY HandlerFrame DEF EffectsInv, OneByOne, Alone

\* A step that leaves what is confirmed and entered alone.
LEMMA HandlerReads ==
    ASSUME Shapes, Shapes', EffectsInv, ~overlapped, NEW w \in Tasks, HandlerStep(w),
           UNCHANGED <<confirmedBy, created, entries>>, faults' = 0 => faults = 0,
           ~TaskIn(w, {"entry"}) \/ faults' # 0
    PROVE  OneForEach' /\ ConfirmedAreEntered' /\ \A tx : Confirmed(tx)' = Confirmed(tx) /\ EntryOf(tx)' = EntryOf(tx)
<1>1. OneForEach' /\ \A tx : Confirmed(tx)' = Confirmed(tx) /\ EntryOf(tx)' = EntryOf(tx)
  BY DEF EffectsInv, OneByOne, OneForEach, ByEvent, Confirmed, EntryOf
<1>2. ConfirmedAreEntered'
  BY EnteredIsEntry, HandlerFrame DEF ConfirmedAreEntered, ByEvent, Entered, TaskIn
<1>. QED BY <1>1, <1>2

LEMMA InProgressOfOne ==
    ASSUME Shapes, EffectsInv, ~overlapped, NEW w \in Tasks, HandlerStep(w),
           ProgressOf(w)'
    PROVE  InProgress'
<1>1. \A v \in Tasks \ {w} : task'[v].pc = "idle"
  BY HandlerAlone DEF Idle
<1>. QED BY <1>1 DEF InProgress, ProgressOf, TaskIn

LEMMA HandledOfOne ==
    ASSUME Shapes, EffectsInv, ~overlapped, NEW w \in Tasks, HandlerStep(w),
           \A e \in Events : row'[e] = "processed" => row[e] = "processed" \/ e = task[w].event
    PROVE  /\ Handled' \subseteq Handled \cup {e \in {task[w].event} : KindOf[e] = "InvestmentMade"}
           /\ \A e \in Handled' :
                 \/ e \in Handled
                 \/ row'[e] = "processed" \/ TaskIn(w, {"mark"})'
<1>1. \A v \in Tasks \ {w} : task'[v].pc = "idle"
  BY HandlerAlone DEF Idle
<1>2. task'[w] = Idle \/ task'[w].event = task[w].event
  BY HandlerFrame
<1>. QED BY <1>1, <1>2 DEF Handled, TaskIn, Idle

LEMMA OneByOneOfHandlers ==
    ASSUME Shapes, Shapes', EffectsInv, ~overlapped, NEW w \in Tasks, HandlerStep(w),
           faults' = 0 => faults = 0 /\ ~Fault
    PROVE  OneByOne'
<1>. DEFINE e == task[w].event
            p == task[w].pending
<1>0. \A f : Rowed(f) => Rowed(f)'
  BY DEF Rowed, HandlerStep, CheckConfirmed, FindPending, Confirm, WriteEntry, Create, Record,
         Balance, MarkProcessed, HandlerFails, effects
<1>1. /\ task[w] \in InHand /\ e \in Events /\ TxOf[e] \notin {NoTx, Elsewhere}
      /\ \A f : Rowed(f) => Rowed(f)'
      /\ OneForEach /\ InProgress /\ HandledAreConfirmed /\ ConfirmedAreEntered /\ HandledAreEntered
      /\ InTheirSteps /\ EffectShapes
      /\ Alone'
  BY <1>0, HandlerFrame, HandlerAlone, ConsumerAssumption DEF EffectsInv, OneByOne, InHand
<1>2. CASE CheckConfirmed(w)
  <2>1. /\ UNCHANGED <<confirmedBy, created, entries, row, faults>>
        /\ task[w].pc = "confirmed"
        /\ task'[w].pc = IF Confirmed(TxOf[e]) THEN "mark" ELSE "pending"
        /\ task'[w].event = e
    BY <1>1, <1>2 DEF CheckConfirmed, Goto, tables, effects, Shapes, InHand
  <2>2. /\ OneForEach' /\ ConfirmedAreEntered'
        /\ \A tx : Confirmed(tx)' = Confirmed(tx) /\ EntryOf(tx)' = EntryOf(tx)
    BY <2>1, HandlerReads DEF TaskIn
  <2>3. InProgress'
    BY <2>1, <2>2, InProgressOfOne DEF TaskIn, ProgressOf
  <2>4. \A f \in Handled' : f \in Handled \/ (f = e /\ Confirmed(TxOf[e]))
    BY <2>1, HandledOfOne DEF TaskIn, Handled
  <2>5. faults = 0 /\ Confirmed(TxOf[e]) => EntryOf(TxOf[e])
    <3>1. ASSUME faults = 0, NEW q \in Pendings, confirmedBy[q] = TxOf[e] PROVE EntryOf(TxOf[e])
      BY <1>1, <2>1, <3>1, HandlerFrame, EnteredIsEntry DEF EntryOf, ByEvent
    <3>2. ASSUME NEW f \in created, TxOf[f] = TxOf[e] PROVE EntryOf(TxOf[e])
      BY <1>1, <3>2 DEF EntryOf, EffectShapes
    <3>. QED BY <3>1, <3>2 DEF Confirmed
  <2>6. HandledAreConfirmed' /\ HandledAreEntered'
    BY <1>1, <2>1, <2>2, <2>4, <2>5 DEF HandledAreConfirmed, HandledAreEntered
  <2>. QED BY <1>1, <2>2, <2>3, <2>6 DEF OneByOne
<1>3. CASE FindPending(w)
  <2>1. /\ UNCHANGED <<confirmedBy, created, entries, row, faults>>
        /\ task[w].pc = "pending"
        /\ \/ task'[w].pc = "confirm" /\ confirmedBy[task'[w].pending] = NoTx
           \/ task'[w].pc = "create"
        /\ task'[w].event = e
    BY <1>1, <1>3 DEF FindPending, tables, effects, Shapes, InHand, Open
  <2>2. /\ OneForEach' /\ ConfirmedAreEntered'
        /\ \A tx : Confirmed(tx)' = Confirmed(tx) /\ EntryOf(tx)' = EntryOf(tx)
    BY <2>1, HandlerReads DEF TaskIn
  <2>3. InProgress'
    BY <1>1, <2>1, <2>2, InProgressOfOne DEF TaskIn, InProgress, ProgressOf
  <2>4. Handled' \subseteq Handled
    BY <2>1, HandledOfOne DEF TaskIn, Handled
  <2>5. HandledAreConfirmed' /\ HandledAreEntered'
    BY <1>1, <2>1, <2>2, <2>4 DEF HandledAreConfirmed, HandledAreEntered
  <2>. QED BY <1>1, <2>2, <2>3, <2>5 DEF OneByOne
<1>4. CASE MarkProcessed(w) \/ HandlerFails(w)
  <2>1. /\ UNCHANGED <<confirmedBy, created, entries>>
        /\ task'[w] = Idle
    BY <1>1, <1>4 DEF MarkProcessed, HandlerFails, End, effects, Shapes
  <2>2. ~TaskIn(w, {"entry"}) \/ faults' # 0
    BY <1>4 DEF MarkProcessed, HandlerFails, TaskIn
  <2>3. /\ OneForEach' /\ ConfirmedAreEntered'
        /\ \A tx : Confirmed(tx)' = Confirmed(tx) /\ EntryOf(tx)' = EntryOf(tx)
    BY <2>1, <2>2, HandlerReads
  <2>4. InProgress'
    BY <2>1, InProgressOfOne DEF TaskIn, ProgressOf, Idle
  <2>5. \A f \in Events : row'[f] = "processed" => row[f] = "processed" \/ (f = e /\ TaskIn(w, {"mark"}))
    BY <1>1, <1>4 DEF MarkProcessed, HandlerFails, tables, TaskIn, Shapes
  <2>6. Handled' \subseteq Handled
    BY <2>1, <2>5, HandlerAlone DEF Handled, TaskIn, Idle
  <2>7. HandledAreConfirmed' /\ HandledAreEntered'
    BY <1>1, <2>3, <2>6 DEF HandledAreConfirmed, HandledAreEntered
  <2>. QED BY <1>1, <2>3, <2>4, <2>7 DEF OneByOne
<1>5. CASE Record(w) \/ Balance(w)
  <2>1. /\ UNCHANGED <<confirmedBy, created, entries, row>>
        /\ ~TaskIn(w, {"entry"}) /\ KindOf[e] # "InvestmentMade"
        /\ task'[w] = Idle \/ task'[w].pc \in {"balance", "mark"}
    BY <1>1, <1>5 DEF Record, Balance, Goto, tables, TaskIn, Shapes, InHand, InTheirSteps
  <2>2. /\ OneForEach' /\ ConfirmedAreEntered'
        /\ \A tx : Confirmed(tx)' = Confirmed(tx) /\ EntryOf(tx)' = EntryOf(tx)
    BY <2>1, HandlerReads
  <2>3. InProgress'
    BY <2>1, InProgressOfOne DEF TaskIn, ProgressOf, Idle
  <2>4. Handled' \subseteq Handled
    BY <2>1, HandledOfOne
  <2>5. HandledAreConfirmed' /\ HandledAreEntered'
    BY <1>1, <2>2, <2>4 DEF HandledAreConfirmed, HandledAreEntered
  <2>. QED BY <1>1, <2>2, <2>3, <2>5 DEF OneByOne
<1>6. CASE Confirm(w)
  <2>1. /\ UNCHANGED <<created, entries, row>>
        /\ task[w].pc = "confirm" /\ p \in Pendings
        /\ confirmedBy[p] = NoTx /\ ~Confirmed(TxOf[e])
        /\ confirmedBy' = [confirmedBy EXCEPT ![p] = TxOf[e]]
        /\ task'[w].pc = "entry" /\ task'[w].event = e /\ task'[w].pending = p
    BY <1>1, <1>6 DEF Confirm, Goto, tables, TaskIn, Shapes, InHand, InTheirSteps, InProgress, ProgressOf
  <2>2. /\ confirmedBy'[p] = TxOf[e]
        /\ \A q \in Pendings \ {p} : confirmedBy'[q] = confirmedBy[q]
    BY <1>1, <2>1 DEF EffectShapes
  <2>3. \A x \in entries : x[1] \in Pendings \ {p}
    BY <1>1, <2>1 DEF OneForEach, EffectShapes
  <2>. HIDE DEF e, p
  <2>4. OneForEach'
    <3>1. \A q \in Pendings : confirmedBy[q] # TxOf[e]
      BY <2>1 DEF Confirmed
    <3>2. \A f \in created : TxOf[f] # TxOf[e]
      BY <2>1 DEF Confirmed
    <3>. QED BY <1>1, <2>1, <2>2, <2>3, <3>1, <3>2 DEF OneForEach, ByEvent
  <2>5. InProgress'
    BY <2>1, <2>2, <2>3, InProgressOfOne DEF TaskIn, ProgressOf
  <2>6. Handled' \subseteq Handled
    BY <2>1, HandledOfOne DEF TaskIn, Handled
  <2>7. \A tx : tx # NoTx /\ Confirmed(tx) => Confirmed(tx)'
    BY <2>1, <2>2 DEF Confirmed
  <2>8. \A tx : EntryOf(tx)' = EntryOf(tx)
    BY <2>1 DEF EntryOf
  <2>9. HandledAreConfirmed' /\ HandledAreEntered'
    <3>1. \A f \in Handled : TxOf[f] # NoTx
      BY ConsumerAssumption DEF Handled
    <3>. QED BY <1>1, <2>6, <2>7, <2>8, <3>1 DEF HandledAreConfirmed, HandledAreEntered
  <2>10. ConfirmedAreEntered'
    <3>. SUFFICES ASSUME faults' = 0, NEW q \in Pendings, ByEvent(q)'
                  PROVE  Entered(q)'
      BY DEF ConfirmedAreEntered
    <3>1. CASE q = p
      BY <1>1, <2>1, <2>2, <3>1 DEF Entered, TaskIn
    <3>2. CASE q # p
      BY <2>1, <2>2, <3>2, HandlerFrame, EnteredIsEntry DEF Entered, ByEvent
    <3>. QED BY <3>1, <3>2
  <2>. QED BY <1>1, <2>4, <2>5, <2>9, <2>10 DEF OneByOne
<1>7. CASE WriteEntry(w)
  <2>1. /\ UNCHANGED <<created, confirmedBy, row>>
        /\ task[w].pc = "entry" /\ p \in Pendings
        /\ confirmedBy[p] = TxOf[e] /\ \A x \in entries : x[1] # p
        /\ entries' = entries \cup {<<p, e>>}
        /\ task'[w].pc = "mark" /\ task'[w].event = e
    BY <1>1, <1>7 DEF WriteEntry, Goto, tables, TaskIn, Shapes, InHand, InTheirSteps, InProgress, ProgressOf
  <2>. HIDE DEF e, p
  <2>2. OneForEach'
    BY <1>1, <2>1 DEF OneForEach, ByEvent
  <2>3. InProgress'
    BY <2>1, InProgressOfOne DEF TaskIn, ProgressOf
  <2>4. \A tx : Confirmed(tx)' = Confirmed(tx) /\ (EntryOf(tx) => EntryOf(tx)')
    BY <2>1 DEF Confirmed, EntryOf
  <2>5. \A tx : tx = TxOf[e] => Confirmed(tx) /\ EntryOf(tx)'
    BY <1>1, <2>1 DEF Confirmed, EntryOf
  <2>6. Handled' \subseteq Handled \cup {e}
    BY <2>1, HandledOfOne DEF e
  <2>7. HandledAreConfirmed' /\ HandledAreEntered'
    BY <1>1, <2>4, <2>5, <2>6 DEF HandledAreConfirmed, HandledAreEntered
  <2>8. ConfirmedAreEntered'
    <3>. SUFFICES ASSUME faults' = 0, NEW q \in Pendings, ByEvent(q)'
                  PROVE  Entered(q)'
      BY DEF ConfirmedAreEntered
    <3>1. PICK f \in Events : /\ TxOf[f] = confirmedBy[q]
                              /\ \/ <<q, f>> \in entries
                                 \/ \E v \in Tasks : TaskIn(v, {"entry"}) /\ task[v].event = f /\ task[v].pending = q
      BY <1>1, <2>1 DEF ConfirmedAreEntered, ByEvent, Entered
    <3>2. <<q, f>> \in entries'
      BY <2>1, <3>1, HandlerAlone DEF TaskIn, Idle, e, p
    <3>. QED BY <2>1, <3>1, <3>2 DEF Entered
  <2>. QED BY <1>1, <2>2, <2>3, <2>7, <2>8 DEF OneByOne
<1>8. CASE Create(w)
  <2>1. /\ UNCHANGED <<entries, confirmedBy, row>>
        /\ task[w].pc = "create" /\ ~Confirmed(TxOf[e])
        /\ created' = IF \E f \in created : RowId[f] = RowId[e]
                      THEN created ELSE created \cup {e}
        /\ task'[w].pc = "mark" /\ task'[w].event = e
    BY <1>1, <1>8 DEF Create, Goto, tables, TaskIn, Shapes, InHand, InProgress, ProgressOf
  <2>. HIDE DEF e
  <2>1a. \A f : f = e => Rowed(f)'
    BY <2>1 DEF Rowed
  <2>2. OneForEach'
    BY <1>1, <2>1 DEF OneForEach, ByEvent, Confirmed
  <2>3. InProgress'
    BY <2>1, InProgressOfOne DEF TaskIn, ProgressOf
  <2>4. \A tx : (Confirmed(tx) => Confirmed(tx)') /\ (EntryOf(tx) => EntryOf(tx)')
    BY <2>1 DEF Confirmed, EntryOf
  <2>6. Handled' \subseteq Handled \cup {e}
    BY <2>1, HandledOfOne DEF e
  <2>7. HandledAreConfirmed'
    BY <1>1, <2>1a, <2>4, <2>6 DEF HandledAreConfirmed
  <2>7a. HandledAreEntered'
    BY <1>1, <2>1, <2>1a, <2>4, <2>6 DEF HandledAreEntered
  <2>8. ConfirmedAreEntered'
    BY <2>1, HandlerFrame, EnteredIsEntry DEF ConfirmedAreEntered, ByEvent, Entered
  <2>. QED BY <1>1, <2>2, <2>3, <2>7, <2>7a, <2>8 DEF OneByOne
<1>. QED BY <1>2, <1>3, <1>4, <1>5, <1>6, <1>7, <1>8 DEF HandlerStep

LEMMA EffectsStep ==
    ASSUME Shapes, Shapes', Bounds, EffectsInv, [Next]_vars
    PROVE  EffectsInv'
<1>1. ASSUME TasksStartOrEnd PROVE EffectsInv'
  BY <1>1, EffectsStay, FaultsGrow
<1>2. ASSUME UNCHANGED <<apiVars, effects>>,
             \A e \in Events : row'[e] = "processed" => row[e] = "processed"
      PROVE  TasksStartOrEnd
  BY <1>2 DEF TasksStartOrEnd, EffectsInv, OneByOne, Alone, apiVars
<1>3. CASE ChainStep /\ UNCHANGED <<ix, apiVars, effects>>
  BY <1>1, <1>2, <1>3 DEF ChainStep, Mine, Reorganise, tables
<1>4. CASE (IndexerLoop \/ CrashIndexer) /\ UNCHANGED <<head, canon, apiVars, effects>>
  <2>1. \A e \in Events : row'[e] = "processed" => row[e] = "processed"
    BY <1>4 DEF IndexerLoop, CrashIndexer, Start, RecoverSaved, RecoverProcessed, StartAt, Fetch,
                InsertEvents, Stored, RowFails, InsertFails, SaveCursor, tables
  <2>. QED BY <1>1, <1>2, <1>4, <2>1
<1>5. CASE PublishNext
  BY <1>1, <1>5, EffectsOfPublishing
<1>6. CASE (ServiceStep \/ \E e \in Events : TakeNew(e)) /\ UNCHANGED <<head, canon, ix, effects>>
  BY <1>1, <1>6, EffectsOfService
<1>7. ASSUME NEW w \in Tasks, HandlerStep(w) PROVE EffectsInv'
  <2>1. overlapped' = overlapped
    BY <1>7, HandlerFrame
  <2>2. ASSUME ~overlapped PROVE OneByOne'
    BY <1>7, <2>2, OneByOneOfHandlers, FaultsGrow
  <2>. QED BY <1>7, <2>1, <2>2, HandlerEffects DEF EffectsInv, OneByOne
<1>8. CASE UNCHANGED vars
  BY <1>1, <1>2, <1>8 DEF vars, tables
<1>. QED BY <1>3, <1>4, <1>5, <1>6, <1>7, <1>8 DEF Next, Step, IndexerStep

LEMMA EffectsInit ==
    ASSUME Init
    PROVE  EffectsInv
  BY DEF Init, ChainInit, IndexerInit, ConsumerInit, EffectsInv, EffectShapes, InTheirSteps,
         MovedIsRecorded, OneByOne, Alone, OneForEach, InProgress, ProgressOf, Handled,
         HandledAreConfirmed, ConfirmedAreEntered, ByEvent, HandledAreEntered, TaskIn, Idle

(* Handed out once *)

\* A step that leaves the workers and the balances alone.
LEMMA StillHandedOut ==
    ASSUME Shapes, NoRepeat, faults = 0, faults' = 0, UNCHANGED moved, RangeInHand',
           \A w \in Workers : task'[w] = task[w],
           \A e \in Events : HandedOut(e) => HandedOut(e)'
    PROVE  NoRepeat'
<1>1. \A w \in Workers : task[w] # Idle => task[w].event \in Events
  BY Workable DEF Shapes, InHand
<1>. QED BY <1>1 DEF NoRepeat, HandedOutOnce, TaskIn

LEMMA NoRepeatOfIndexer ==
    ASSUME Shapes, Bounds, NoRepeat, IndexerLoop, UNCHANGED <<head, canon, apiVars, effects>>,
           faults = 0, faults' = 0, ~Fault
    PROVE  NoRepeat'
<1>. USE DEF NoRepeat, RangeInHand
<1>1. ASSUME RangeInHand', \A e \in Events : HandedOut(e) => HandedOut(e)' PROVE NoRepeat'
  BY <1>1, StillHandedOut DEF apiVars, effects
<1>2. ASSUME NEW b, ix' = ReadyAt(b), ix.pc = "down" PROVE NoRepeat'
  <2>1. RangeInHand'
    BY <1>2 DEF ReadyAt
  <2>2. \A e \in Events : ~HandedOut(e)
    BY <1>2 DEF HandedOut
  <2>. QED BY <1>1, <2>1, <2>2
<1>3. CASE Start
  BY <1>2, <1>3 DEF Start, RecoverSaved, RecoverProcessed, StartAt
<1>4. CASE Fetch
  <2>. DEFINE to == ChunkEnd(ix.at + 1)
              logs == Logs(ix.at + 1, to)
  <2>1. to \in Int /\ ix.at \in Int /\ ix.at < to
    BY <1>4, ChainAssumption, SafeHeadIsNumber DEF Fetch, ChunkEnd, Shapes
  <2>2. \A e \in logs : ix.at < BlockOf[e] /\ BlockOf[e] <= to
    BY <2>1, BlocksAreNumbers DEF Logs, Shapes
  <2>3. ix' = [ix EXCEPT !.to = to, !.batch = logs,
                         !.pc = IF logs = {} THEN "save" ELSE "insert"]
        /\ ix.pc = "ready"
    BY <1>4 DEF Fetch
  <2>. HIDE DEF to, logs
  <2>4. /\ ix'.at = ix.at /\ ix'.to = to /\ ix'.batch = logs
        /\ ix'.pc = IF logs = {} THEN "save" ELSE "insert"
    BY <2>3 DEF Shapes
  <2>5. RangeInHand'
    BY <2>1, <2>2, <2>4
  <2>6. \A e \in Events : HandedOut(e) => HandedOut(e)'
    BY <2>1, <2>2, <2>3, <2>4, BlocksAreNumbers DEF HandedOut, Reached
  <2>. QED BY <1>1, <2>5, <2>6
<1>5. CASE InsertEvents
  <2>1. /\ ix.pc = "insert" /\ ix'.pc = "publish"
        /\ ix'.at = ix.at /\ ix'.to = ix.to /\ ix'.batch = ix.batch
    BY <1>5 DEF InsertEvents, Resume, Shapes
  <2>2. RangeInHand'
    BY <2>1
  <2>3. \A e \in Events : HandedOut(e) => HandedOut(e)'
    BY <2>1, BlocksAreNumbers DEF HandedOut, Reached, Shapes
  <2>. QED BY <1>1, <2>2, <2>3
<1>6. CASE SaveCursor
  <2>1. /\ ix.pc = "save" /\ ix'.pc = "ready"
        /\ ix'.at = ix.to /\ ix'.batch = ix.batch
    BY <1>6 DEF SaveCursor, Shapes
  <2>2. RangeInHand'
    BY <2>1
  <2>3. \A e \in Events : HandedOut(e) => HandedOut(e)'
    BY <2>1 DEF HandedOut, Reached
  <2>. QED BY <1>1, <2>2, <2>3
<1>. QED BY <1>3, <1>4, <1>5, <1>6 DEF IndexerLoop, RowFails, InsertFails

LEMMA NoRepeatOfPublishing ==
    ASSUME Shapes, Shapes', Bounds, NoRepeat, PublishNext, faults = 0, faults' = 0
    PROVE  NoRepeat'
<1>. USE DEF NoRepeat, RangeInHand
<1>1. PICK e \in Events : Publish(e) /\ Deliver(e) /\ UNCHANGED <<head, canon, tables, effects>>
  BY DEF PublishNext
<1>2. /\ ix.pc = "publish" /\ e \in ix.batch
      /\ ix'.at = ix.at /\ ix'.to = ix.to /\ ix'.batch = ix.batch \ {e}
      /\ ix'.pc = IF ix.batch = {e} THEN "save" ELSE "publish"
  BY <1>1 DEF Publish, Shapes
<1>3. RangeInHand'
  BY <1>2
<1>4. \A f \in Events : HandedOut(f) => HandedOut(f)'
  BY <1>2 DEF HandedOut, Reached
<1>5. ~HandedOut(e) /\ HandedOut(e)'
  BY <1>2 DEF HandedOut, Reached
<1>6. UNCHANGED moved
  BY <1>1 DEF effects
<1>7. CASE UNCHANGED apiVars
  BY <1>3, <1>4, <1>6, <1>7, StillHandedOut DEF apiVars
<1>8. ASSUME NEW w \in Workers, task[w] = Idle, Take(w, FirstStep(w, e), e) PROVE NoRepeat'
  <2>1. \A v \in Workers : task[v] # Idle => task[v].event \in Events
    BY Workable DEF Shapes, InHand
  <2>2. task'[w].event = e /\ \A v \in Workers \ {w} : task'[v] = task[v]
    BY <1>8, Workable DEF Take, Shapes
  <2>3. moved[e] = 0
    BY <1>5 DEF HandedOutOnce, Shapes
  <2>. QED BY <1>3, <1>4, <1>5, <1>6, <2>1, <2>2, <2>3 DEF HandedOutOnce, TaskIn, Idle
<1>9. ~Fault
  BY DEF Fault, Bounds
<1>. QED BY <1>1, <1>7, <1>8, <1>9 DEF Deliver

LEMMA NoRepeatOfHandlers ==
    ASSUME Shapes, Shapes', NoRepeat, InTheirSteps, NEW w \in Tasks, HandlerStep(w), UNCHANGED ix,
           faults = 0, faults' = 0
    PROVE  NoRepeat'
<1>1. /\ task[w] \in InHand /\ task[w] # Idle
      /\ \A v \in Tasks \ {w} : task'[v] = task[v]
      /\ task'[w] = Idle \/ task'[w].event = task[w].event
  BY HandlerFrame
<1>2. \A e \in Events : HandedOut(e)' = HandedOut(e)
  BY DEF HandedOut, Reached
<1>3. \A v \in Tasks : task[v] # Idle => task[v].event \in Events
  BY DEF Shapes, InHand
<1>4. CASE Balance(w)
  <2>1. w \in Workers /\ TaskIn(w, {"balance"}) /\ ~TaskIn(w, {"record", "balance"})'
    BY <1>1, <1>4 DEF Balance, InTheirSteps, TaskIn, Tasks, Shapes, InHand, Idle
  <2>2. \A e \in Events : moved'[e] = moved[e] \/ (e = task[w].event /\ moved'[e] = moved[e] + 1)
    BY <1>4 DEF Balance, Shapes
  <2>3. moved[task[w].event] = 0 /\ HandedOut(task[w].event)
    BY <1>1, <2>1 DEF NoRepeat, HandedOutOnce, TaskIn
  <2>. QED BY <1>1, <1>2, <1>3, <2>1, <2>2, <2>3, Workable
           DEF NoRepeat, RangeInHand, HandedOutOnce, TaskIn, Idle
<1>5. CASE ~Balance(w)
  <2>1. UNCHANGED moved
    BY <1>5 DEF HandlerStep, CheckConfirmed, FindPending, Confirm, WriteEntry, Create, Record,
                MarkProcessed, HandlerFails, effects
  <2>2. TaskIn(w, {"record", "balance"})' => TaskIn(w, {"record", "balance"})
    BY <1>1, <1>5 DEF HandlerStep, CheckConfirmed, FindPending, Confirm, WriteEntry, Create, Record,
                MarkProcessed, HandlerFails, Goto, End, TaskIn, Shapes, InHand, Idle
  <2>. QED BY <1>1, <1>2, <1>3, <2>1, <2>2, Workable
           DEF NoRepeat, RangeInHand, HandedOutOnce, TaskIn, Idle
<1>. QED BY <1>4, <1>5

LEMMA NoRepeatStep ==
    ASSUME Shapes, Shapes', Bounds, EffectsInv, NoRepeat, [Next]_vars
    PROVE  NoRepeat'
<1>. SUFFICES ASSUME faults' = 0 PROVE NoRepeat'
  BY DEF NoRepeat
<1>1. faults = 0 /\ ~Fault
  BY FaultsGrow
<1>2. ASSUME UNCHANGED <<ix, moved>>, \A w \in Workers : task'[w] = task[w] PROVE NoRepeat'
  BY <1>1, <1>2, StillHandedOut DEF NoRepeat, RangeInHand, HandedOut, Reached
<1>3. CASE ChainStep /\ UNCHANGED <<ix, apiVars, effects>>
  BY <1>2, <1>3 DEF apiVars, effects
<1>4. CASE (IndexerLoop \/ CrashIndexer) /\ UNCHANGED <<head, canon, apiVars, effects>>
  BY <1>1, <1>4, NoRepeatOfIndexer DEF CrashIndexer
<1>5. CASE PublishNext
  BY <1>1, <1>5, NoRepeatOfPublishing
<1>6. CASE (ServiceStep \/ \E e \in Events : TakeNew(e)) /\ UNCHANGED <<head, canon, ix, effects>>
  <2>1. \A w \in Workers : w # Poller /\ w \in Tasks
    BY ConsumerAssumption DEF Tasks
  <2>2. UNCHANGED task \/ \A w \in Workers : task'[w] = task[w]
    <3>1. CASE StoreNew \/ StoreFails \/ \E e \in Events : TakeNew(e)
      BY <2>1, <3>1 DEF StoreNew, Goto, StoreFails, End, TakeNew, Take, Shapes
    <3>2. CASE ~CrashApi /\ ~StoreNew /\ ~StoreFails /\ ServiceStep
      BY <3>2 DEF ServiceStep, StartSubscriber, RecoverPoller, StartPoller, StartPollerAtHead,
            RecoverFails, RecoverGivesUp, Subscribe, LoseRedis, StartPoll, EndPoll, SkipStored
    <3>. QED BY <1>1, <1>6, <3>1, <3>2 DEF CrashApi
  <2>. QED BY <1>2, <1>6, <2>2 DEF effects
<1>7. ASSUME NEW w \in Tasks, HandlerStep(w), UNCHANGED ix PROVE NoRepeat'
  BY <1>1, <1>7, NoRepeatOfHandlers DEF EffectsInv
<1>8. CASE UNCHANGED vars
  BY <1>2, <1>8 DEF vars, apiVars, effects
<1>. QED BY <1>3, <1>4, <1>5, <1>6, <1>7, <1>8 DEF Next, Step, IndexerStep

LEMMA NoRepeatInit ==
    ASSUME Init
    PROVE  NoRepeat
  BY Workable
     DEF Init, ChainInit, IndexerInit, ConsumerInit, NoRepeat, RangeInHand, HandedOutOnce,
         HandedOut, Down, TaskIn, Idle

(* The results *)

ConsumerInv == Shapes /\ Bounds /\ ActedOnFinal /\ EffectsInv /\ NoRepeat

LEMMA ConsumerInvariant == Spec => []ConsumerInv
<1>1. Init => ConsumerInv
  <2>1. Init => ActedOnFinal
    BY DEF Init, ChainInit, IndexerInit, ConsumerInit, Down, NoPoll, ActedOnFinal, Tasks
  <2>. QED BY <2>1, ShapesInit, BoundsInit, EffectsInit, NoRepeatInit DEF ConsumerInv
<1>2. ConsumerInv /\ [Next]_vars => ConsumerInv'
  BY ShapesStep, BoundsStep, FinalStep, EffectsStep, NoRepeatStep DEF ConsumerInv
<1>. QED BY <1>1, <1>2, PTL DEF Spec

\* Every variable of the indexer and the listener keeps its type and bounds.
THEOREM TypesCorrect == Spec => []TypeOK
<1>1. ConsumerInv /\ deployment \in Deployments => TypeOK
  <2>. SUFFICES ASSUME ConsumerInv, deployment \in Deployments PROVE TypeOK
    OBVIOUS
  <2>1. ChainTypeOK /\ IndexerTypeOK
    BY DEF ConsumerInv, Shapes, Bounds, Heights, ChainTypeOK, IndexerTypeOK
  <2>2. /\ api \in [up : BOOLEAN, redis : BOOLEAN, subscribed : BOOLEAN,
                    listening : BOOLEAN, latest : Heights]
        /\ poll \in [busy : BOOLEAN, to : Heights, todo : SUBSET Events]
    BY DEF ConsumerInv, Shapes, Bounds
  <2>3. ConsumerTypeOK
    BY <2>2 DEF ConsumerInv, Shapes, Heights, EffectsInv, EffectShapes, InHand, Steps, ConsumerTypeOK
  <2>. QED BY <2>1, <2>3 DEF TypeOK
<1>. QED BY <1>1, ConsumerInvariant, DeploymentIsOne, PTL

\* An investment event that counts as processed has confirmed an investment, or
\* its id is another's row's, unless two tasks worked side by side; without a
\* failure the ledger entry of its transaction is there in the first case.
THEOREM ProcessedCorrect == Spec => []ProcessedIsConfirmed
<1>1. ConsumerInv => ProcessedIsConfirmed
  <2>. SUFFICES ASSUME ConsumerInv, ~overlapped, NEW e \in Events,
                       row[e] = "processed", KindOf[e] = "InvestmentMade"
                PROVE  /\ Confirmed(TxOf[e]) \/ Rowed(e)
                       /\ faults = 0 => EntryOf(TxOf[e]) \/ Rowed(e)
    BY DEF ProcessedIsConfirmed, EntryOf, Rowed
  <2>. QED BY DEF ConsumerInv, EffectsInv, OneByOne, Handled, HandledAreConfirmed, HandledAreEntered
<1>. QED BY <1>1, ConsumerInvariant, PTL

LEMMA AtMostOne ==
    ASSUME NEW S, \A x, y \in S : x = y
    PROVE  Cardinality(S) = IF S = {} THEN 0 ELSE 1
<1>1. CASE S = {}
  BY <1>1, FS_EmptySet
<1>2. ASSUME NEW x \in S PROVE S = {x}
  BY <1>2
<1>. QED BY <1>1, <1>2, FS_Singleton

\* However often an event is handed over, one task at a time confirms one
\* investment with it and writes one ledger entry; the escrow balance moves for
\* recorded events only, and more than once only after a failure.
THEOREM EffectsCorrect == Spec => []EffectsOnce
<1>1. ConsumerInv => EffectsOnce
  <2>. SUFFICES ASSUME ConsumerInv PROVE EffectsOnce
    OBVIOUS
  <2>1. ASSUME ~overlapped, NEW e \in Events
        PROVE  Cardinality({p \in Pendings : confirmedBy[p] = TxOf[e]}) +
               Cardinality({f \in created : TxOf[f] = TxOf[e]}) <= 1
    <3>. DEFINE A == {p \in Pendings : confirmedBy[p] = TxOf[e]}
                B == {f \in created : TxOf[f] = TxOf[e]}
    <3>1. OneForEach /\ TxOf[e] \notin {NoTx, Elsewhere}
      BY <2>1, ConsumerAssumption DEF ConsumerInv, EffectsInv, OneByOne
    <3>2. (\A x, y \in A : x = y) /\ (\A x, y \in B : x = y) /\ (A = {} \/ B = {})
      BY <3>1 DEF OneForEach, ByEvent
    <3>. HIDE DEF A, B
    <3>3. /\ Cardinality(A) = IF A = {} THEN 0 ELSE 1
          /\ Cardinality(B) = IF B = {} THEN 0 ELSE 1
      BY <3>2, AtMostOne
    <3>4. Cardinality(A) + Cardinality(B) <= 1
      BY <3>2, <3>3
    <3>. QED BY <3>4 DEF A, B
  <2>2. ~overlapped => \A x, y \in entries : x[1] = y[1] => x = y
    BY DEF ConsumerInv, EffectsInv, OneByOne, OneForEach
  <2>3. \A e \in Events : moved[e] > 0 => e \in recorded
    BY DEF ConsumerInv, EffectsInv, MovedIsRecorded
  <2>4. faults = 0 => \A e \in Events : moved[e] <= 1
    BY DEF ConsumerInv, NoRepeat, HandedOutOnce
  <2>. QED BY <2>1, <2>2, <2>3, <2>4 DEF EffectsOnce
<1>. QED BY <1>1, ConsumerInvariant, PTL

=============================================================================
