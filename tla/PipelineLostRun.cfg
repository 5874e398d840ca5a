SPECIFICATION PipelineSpec
CONSTANTS
    Handlers = {h1, h2}
    NoIsa = NoIsa
    NoPayload = NoPayload
    NoEvent = NoEvent
    Isa1 = Isa1
    Isa2 = Isa2
    Batch = Batch
    Other = Other
    Faulty = Faulty
    Empty = Empty
    Unix = Unix
    Dos = Dos
    Payloads <- Resent
    GroupsOf <- GroupsOfThese
    AtomicRegister = TRUE
    MaxAborts = 1
SYMMETRY HandlerSymmetry
INVARIANT DuplicateMeansProcessed
CHECK_DEADLOCK FALSE
