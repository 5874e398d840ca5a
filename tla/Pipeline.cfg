SPECIFICATION PipelineFairSpec
CONSTANTS
    Handlers = {h1, h2}
    NoIsa = NoIsa
    NoPayload = NoPayload
    NoEvent = NoEvent
    Isa1 = Isa1
    Isa2 = Isa2
    Batch = Batch
    Other = Other
    Faulty = Faulty
    Empty = Empty
    Unix = Unix
    Dos = Dos
    Payloads <- AllKinds
    GroupsOf <- GroupsOfThese
    AtomicRegister = FALSE
    MaxAborts = 1
INVARIANT PipelineTypeOK
INVARIANT CustomerReceivesOnce
INVARIANT AckTellsTheTruth
INVARIANT LedgerTellsTheTruth
INVARIANT CompletedRunAccountsForAll
PROPERTY EveryReceiptEnds
CHECK_DEADLOCK FALSE
