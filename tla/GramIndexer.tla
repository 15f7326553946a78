---------------------------- MODULE GramIndexer ----------------------------
(***************************************************************************)
(* crates/gram-indexer: one process that recovers its cursor, then reads   *)
(* the final blocks range by range, stores their events in one database    *)
(* transaction, publishes them and saves the cursor.                       *)
(***************************************************************************)
EXTENDS ChainTables

VARIABLE ix     \* the process: step, cursor, end and events of the range

Down == [pc |-> "down", at |-> 0, to |-> 0, batch |-> {}]
ReadyAt(b) == [pc |-> "ready", at |-> b, to |-> 0, batch |-> {}]

Resume(pc) == ix' = [ix EXCEPT !.pc = pc]

\* run, before the loop: go on from the saved cursor.
RecoverSaved ==
    /\ ix.pc = "down"
    /\ saved # NoBlock
    /\ ix' = ReadyAt(saved)
    /\ UNCHANGED <<tables, faults>>

\* Without one, from the highest block that holds a processed event.
RecoverProcessed(b) ==
    /\ ix.pc = "down"
    /\ saved = NoBlock /\ LastProcessed(b)
    /\ ix' = ReadyAt(b)
    /\ missed' = missed \cup PassedBy(b)
    /\ UNCHANGED <<row, saved, faults>>

\* Without either, from the final block, or from 0 when the node does not
\* answer.  The start is saved before the loop begins.
StartAt(b) ==
    /\ ix.pc = "down"
    /\ saved = NoBlock /\ ProcessedBlocks = {}
    /\ ix' = ReadyAt(b)
    /\ saved' = b
    /\ missed' = missed \cup PassedBy(b)
    /\ UNCHANGED <<row, faults>>

\* run ends with the error of its first query when there is no such table.
Start ==
    /\ deployment.tables
    /\ \/ RecoverSaved
       \/ \E b \in ProcessedBlocks : RecoverProcessed(b)
       \/ \E b \in {0, SafeHead} : StartAt(b)

\* Wrong: a single block that has become final is not worth a range.
Fetch_Strict ==
    /\ ix.pc = "ready"
    /\ ix.at + 1 < SafeHead
    /\ LET to == ChunkEnd(ix.at + 1)
           logs == Logs(ix.at + 1, to)
       IN  ix' = [ix EXCEPT !.to = to, !.batch = logs,
                            !.pc = IF logs = {} THEN "save" ELSE "insert"]
    /\ UNCHANGED <<tables, faults>>

\* fetch_logs: a range without events is Ok(0) at once.
Fetch ==
    /\ ix.pc = "ready"
    /\ ix.at < SafeHead
    /\ LET to == ChunkEnd(ix.at + 1)
           logs == Logs(ix.at + 1, to)
       IN  ix' = [ix EXCEPT !.to = to, !.batch = logs,
                            !.pc = IF logs = {} THEN "save" ELSE "insert"]
    /\ UNCHANGED <<tables, faults>>

InsertEvents ==
    /\ ix.pc = "insert"
    /\ row' = Stored(ix.batch)
    /\ Resume("publish")
    /\ UNCHANGED <<saved, missed, faults>>

\* A row that fails leaves the transaction aborted.  Only the log says so:
\* the commit of it rolls back and the caller is told that all went well.
RowFails ==
    /\ Fault
    /\ ix.pc = "insert"
    /\ missed' = missed \cup {e \in ix.batch : row[e] = "none"}
    /\ Resume("publish")
    /\ UNCHANGED <<row, saved>>

\* begin or commit fails: the range is read again.
InsertFails ==
    /\ Fault
    /\ ix.pc = "insert"
    /\ ix' = [ix EXCEPT !.pc = "ready", !.batch = {}]
    /\ UNCHANGED tables

\* The next event goes out on blockchain.events; nothing waits for a reader.
Publish(e) ==
    /\ ix.pc = "publish"
    /\ e \in ix.batch
    /\ \A f \in ix.batch : BlockOf[e] <= BlockOf[f]
    /\ ix' = [ix EXCEPT !.batch = @ \ {e},
                        !.pc = IF ix.batch = {e} THEN "save" ELSE "publish"]

\* Wrong: the cursor jumps to the final block, past the end of the range.
SaveCursor_SafeHead ==
    /\ ix.pc = "save"
    /\ ix' = [ix EXCEPT !.pc = "ready", !.at = SafeHead]
    /\ Save(SafeHead)
    /\ UNCHANGED <<row, missed>>

\* The cursor in memory moves, whether or not it can be saved.
SaveCursor ==
    /\ ix.pc = "save"
    /\ ix' = [ix EXCEPT !.pc = "ready", !.at = ix.to]
    /\ Save(ix.to)
    /\ UNCHANGED <<row, missed>>

CrashIndexer ==
    /\ Fault
    /\ ix.pc # "down"
    /\ ix' = Down
    /\ UNCHANGED tables

\* Everything but publishing, which reaches the API.
IndexerLoop ==
    \/ Start \/ Fetch \/ InsertEvents \/ RowFails \/ InsertFails \/ SaveCursor

IndexerInit == ix = Down

IndexerTypeOK ==
    ix \in [pc : {"down", "ready", "insert", "publish", "save"},
            at : 0 .. MaxHead, to : 0 .. MaxHead, batch : SUBSET Events]
=============================================================================
