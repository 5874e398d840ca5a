SPECIFICATION Spec
CONSTANTS
    Handlers = {h1, h2}
    NoHandler = NoHandler
    Roles <- AnchorAndResponse
    Good = Good
    WrongOrder = WrongOrder
    Malformed = Malformed
    Gold = Gold
    Uploads = {Good}
    Conformant = {Good}
    Samples = {Gold}
    NoSample = NoSample
    Answers <- MCAnswers
    MaxStops = 0

PROPERTY GateHolds
CHECK_DEADLOCK FALSE
