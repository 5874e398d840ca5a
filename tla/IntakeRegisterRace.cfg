SPECIFICATION Spec
CONSTANTS
    Handlers = {h1, h2}
    NoIsa = NoIsa
    NoPayload = NoPayload
    Isa1 = Isa1
    OrderA = OrderA
    OrderB = OrderB
    Json = Json
    Unix = Unix
    Dos = Dos
    Payloads <- MCPayloads
    AtomicRegister = FALSE
    MaxAborts = 0
SYMMETRY HandlerSymmetry
INVARIANT FirstOccurrenceAccepted
CHECK_DEADLOCK FALSE
