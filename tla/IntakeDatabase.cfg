SPECIFICATION Spec
CONSTANTS
    Handlers = {h1, h2, h3, h4}
    NoIsa = NoIsa
    NoPayload = NoPayload
    Isa1 = Isa1
    OrderA = OrderA
    OrderB = OrderB
    Json = Json
    Unix = Unix
    Dos = Dos
    Payloads <- MCPayloads
    AtomicRegister = FALSE
    MaxAborts = 1
SYMMETRY HandlerSymmetry
INVARIANT TypeOK
INVARIANT AtMostOneAccepted
INVARIANT VerdictsAreTrue
PROPERTY FirstRecordIsFinal
CHECK_DEADLOCK FALSE
