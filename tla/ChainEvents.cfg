SPECIFICATION Spec
CONSTANTS
    i1 = i1
    j1 = j1
    i2 = i2
    d1 = d1
    r1 = r1
    Events = {i1, j1, i2, d1, r1}
    BlockOf <- MCBlockOf
    KindOf <- MCKindOf
    TxOf <- MCTxOf
    RowId <- MCRowId
    EmitterOf <- MCEmitterOf
    Deployments <- MCDeployments
    Buffer = 1
    MaxRange = 1
    MaxHead = 3
    MaxFaults = 1
    Workers = {w1, w2}
    Poller = poller
    Pendings = {1}
    UseIndexer = {TRUE, FALSE}
INVARIANTS
    TypeOK
    OnlyFinalEvents
    PassedOnlyByFailure
    ProcessedIsConfirmed
    EffectsOnce
PROPERTY WatchedEventsAreIndexed
CHECK_DEADLOCK FALSE
