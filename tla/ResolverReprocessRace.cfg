SPECIFICATION ResolverSpec
CONSTANTS
    Handlers = {h1, h2, h3}
    NoIsa = NoIsa
    NoPayload = NoPayload
    NoEvent = NoEvent
    Isa1 = Isa1
    Pair = Pair
    Twin = Twin
    Rival = Rival
    Unix = Unix
    Payloads <- OnlyRival
    GroupsOf <- GroupsOfThese
    AtomicRegister = FALSE
    MaxAborts = 0
SYMMETRY HandlerSymmetry
INVARIANT EachSetDeliveredOnce
CHECK_DEADLOCK FALSE
