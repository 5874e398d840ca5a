SPECIFICATION Spec
CONSTANTS
    Handlers = {h1, h2, h3, h4}
    NoHandler = NoHandler
    Roles <- AnchorAndResponse
    Good = Good
    WrongOrder = WrongOrder
    Malformed = Malformed
    Gold = Gold
    Uploads = {Good, WrongOrder, Malformed}
    Conformant = {Good, WrongOrder}
    Samples = {Gold}
    NoSample = NoSample
    Answers <- MCAnswers
    MaxStops = 1
SYMMETRY HandlerSymmetry
INVARIANT CertificationTypeOK
INVARIANT CardShowsAnAttempt
INVARIANT LocksMatchAttempts
INVARIANT NumberedWithoutGaps
INVARIANT FeedTellsTheTruth
INVARIANT CertifiedOnEvidence
CHECK_DEADLOCK FALSE
