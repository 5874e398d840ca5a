SPECIFICATION PipelineSpec
CONSTANTS
    Handlers = {h1}
    NoIsa = NoIsa
    NoPayload = NoPayload
    NoEvent = NoEvent
    Isa1 = Isa1
    Isa2 = Isa2
    Batch = Batch
    Other = Other
    Faulty = Faulty
    Empty = Empty
    Unix = Unix
    Dos = Dos
    Payloads <- ResentFaulty
    GroupsOf <- GroupsOfThese
    AtomicRegister = FALSE
    MaxAborts = 0
SYMMETRY HandlerSymmetry
INVARIANT NothingDroppedSilently
CHECK_DEADLOCK FALSE
