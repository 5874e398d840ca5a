SPECIFICATION FairSpec
CONSTANTS
    Senders = {c1, c2, c3}
    NoSender = NoSender
    Isa = Isa
    Gs = Gs
    St = St
    Order <- IsaGsSt
    MaxStops = 1
INVARIANT TypeOK
INVARIANT NumbersDistinctAndDense
PROPERTY ImplementsControlNumberService
PROPERTY EverySenderServed
CHECK_DEADLOCK FALSE
