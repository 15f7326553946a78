---------------------------- MODULE ChainTables ----------------------------
(***************************************************************************)
(* What the indexer and the event listener of the API share: the chain     *)
(* they read, which may still lose the events of its newest blocks, the    *)
(* address whose logs both ask for, and the tables blockchain_events and   *)
(* blockchain_sync_state, which the database may not have: the schema the  *)
(* repository deploys does not name the second, and gives the first other  *)
(* columns than the two programs write.                                    *)
(***************************************************************************)
EXTENDS Integers, FiniteSets

CONSTANTS
    Events,       \* contract events
    BlockOf,      \* the block of each event
    KindOf,       \* InvestmentMade, or an event of the escrow contract
    TxOf,         \* the transaction that emitted it
    EmitterOf,    \* the contract that emitted it
    Deployments,  \* what the two programs may find, see deployment
    Buffer,       \* reorg_buffer_blocks, REORG_BUFFER_BLOCKS
    MaxRange,     \* max_block_range, MAX_BLOCK_RANGE
    MaxHead,      \* bound on the height of the chain
    MaxFaults     \* bound on crashes, failed calls and lost messages

ASSUME ChainAssumption ==
    /\ Buffer \in Nat \ {0}
    /\ MaxRange \in Nat \ {0}
    /\ MaxHead \in Nat
    /\ MaxFaults \in Nat
    /\ BlockOf \in [Events -> Nat \ {0}]
    /\ \A d \in Deployments : d.tables \in BOOLEAN

VARIABLES
    head,       \* the height of the chain
    canon,      \* the events that no reorganisation has removed
    row,        \* each event in blockchain_events: none, stored or processed
    saved,      \* last_processed_block in blockchain_sync_state
    missed,     \* events a start at the head, a jump or a failed call passed
    faults,     \* faults so far
    deployment  \* chosen at the start: address, the one whose logs are asked for
                \* (CONTRACT_ADDRESS, AGRI_PLATFORM_ADDRESS), and tables, whether
                \* the database has the tables and columns the SQL names

tables == <<row, saved, missed>>

NoBlock == -1

\* Wrong: no lower bound, and no buffer.
SafeHead_Wrapping == head - Buffer
SafeHead_Newest == head

\* saturating_sub: the newest block both readers take for final.
SafeHead == IF head > Buffer THEN head - Buffer ELSE 0

\* The events of the one contract whose logs are asked for.
Watched == {e \in Events : EmitterOf[e] = deployment.address}

Logs(from, to) == {e \in canon \cap Watched : BlockOf[e] \in from .. to}

\* The last block of the range that begins at from.
ChunkEnd(from) ==
    IF from + MaxRange - 1 > SafeHead THEN SafeHead ELSE from + MaxRange - 1

ProcessedBlocks == {BlockOf[e] : e \in {f \in Events : row[f] = "processed"}}

\* MAX(block_number) of the processed rows.
LastProcessed(b) == b \in ProcessedBlocks /\ \A c \in ProcessedBlocks : c <= b

\* INSERT ... ON CONFLICT (id) DO NOTHING
Stored(es) ==
    [e \in Events |-> IF e \in es /\ row[e] = "none" THEN "stored" ELSE row[e]]

\* What a reader that goes on from block b leaves behind without a row.
PassedBy(b) == {e \in Events : BlockOf[e] <= b /\ row[e] = "none"}

Fault == faults < MaxFaults /\ faults' = faults + 1

\* A statement fails, as it always does when its table is not there.
Refused == IF deployment.tables THEN Fault ELSE UNCHANGED faults

\* The cursor is written; when the statement fails nobody is told.
Save(b) ==
    \/ deployment.tables /\ saved' = b /\ UNCHANGED faults
    \/ Refused /\ UNCHANGED saved

Mine ==
    /\ head < MaxHead
    /\ head' = head + 1
    /\ UNCHANGED <<canon, tables, faults>>

\* A reorganisation replaces blocks that are not Buffer blocks deep; what it
\* does to events nobody reads is left out.
Reorganise(e) ==
    /\ e \in canon \cap Watched
    /\ BlockOf[e] > head - Buffer
    /\ canon' = canon \ {e}
    /\ UNCHANGED <<head, tables, faults>>

ChainStep == Mine \/ \E e \in Events : Reorganise(e)

ChainInit ==
    /\ head \in 0 .. MaxHead
    /\ canon = Events
    /\ row = [e \in Events |-> "none"]
    /\ saved = NoBlock
    /\ missed = {}
    /\ faults = 0
    /\ deployment \in Deployments

ChainTypeOK ==
    /\ head \in 0 .. MaxHead
    /\ canon \subseteq Events
    /\ row \in [Events -> {"none", "stored", "processed"}]
    /\ saved \in {NoBlock} \cup 0 .. MaxHead
    /\ missed \subseteq Events
    /\ faults \in 0 .. MaxFaults
    /\ deployment \in Deployments
=============================================================================
