SPECIFICATION ResolverSpec
CONSTANTS
    Handlers = {h1, h2, h3, h4}
    NoIsa = NoIsa
    NoPayload = NoPayload
    NoEvent = NoEvent
    Isa1 = Isa1
    Pair = Pair
    Twin = Twin
    Rival = Rival
    Unix = Unix
    Payloads <- Conflicting
    GroupsOf <- GroupsOfThese
    AtomicRegister = TRUE
    MaxAborts = 1
SYMMETRY HandlerSymmetry
INVARIANT LedgerTellsTheTruth
INVARIANT OncePerItemTakenUp
INVARIANT RejectedNeverLost
INVARIANT ResolutionLinksTheRerun
PROPERTY ImplementsIdempotentIntake
CHECK_DEADLOCK FALSE
