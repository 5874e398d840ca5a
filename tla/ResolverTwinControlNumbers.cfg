SPECIFICATION ResolverSpec
CONSTANTS
    Handlers = {h1, h2}
    NoIsa = NoIsa
    NoPayload = NoPayload
    NoEvent = NoEvent
    Isa1 = Isa1
    Pair = Pair
    Twin = Twin
    Rival = Rival
    Unix = Unix
    Payloads <- OnlyTwin
    GroupsOf <- GroupsOfThese
    AtomicRegister = FALSE
    MaxAborts = 0
SYMMETRY HandlerSymmetry
INVARIANT SiblingsNeverTouched
CHECK_DEADLOCK FALSE
