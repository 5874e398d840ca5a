CONSTANTS
    Documents <- MCDocuments
    Payloads <- MCPayloads
    Streams <- MCStreams
    Responses <- MCResponses
    Texts <- MCTexts
    Translation <- EmittedBody
    Rejected <- EmitThrows
    Modulus <- MCModulus
    HlLevels <- MCLevels
    Webhooks <- MCWebhooks
    Registrations <- MCRegistrations
    Sheets <- MCSheets
    FirstCatalog <- MCCatalog
    NoShop = "none"
    MaxDeliveries = 2
    MaxEdits = 2
    MaxStops = 1
    s1 = s1
    s2 = s2
    Servers = {s1, s2}
    MaxCrashes = 1
    RowIds = {1, 2, 3}
    Canonicals <- MCCanonicals
    Filters = {"any", "856"}
    PageSizes = {2}
    MaxSaves = 2
    MaxTime = 1
    Tenants = {"t1"}
    Flats <- MCFlats
    ConnectorIds = {"c1"}
    Bindings <- MCBindings
    FirstFlats <- MCFirstFlats
    FirstHeaders <- MCFirstHeaders
    FirstParts <- MCFirstParts
    MaxWrites = 2
    MaxHydrates = 2
    MaxRestarts = 1
    Accounts <- MCAccounts
    Relationships = {"r1", "r2"}
    MaxLogins = 1
    MaxKeys = 1
    MaxRequests = 1
    MaxChanges = 2
SPECIFICATION PlatformSpec
SYMMETRY ServersAlike
INVARIANTS
    PlatformTypeOK
    SentDocumentTellsAll HouseFormatServes NumbersTellInterchangesApart WireReadsBack
    SetIsAccountedFor CorrelationFindsOverCommitment
    PlacedAgainOnlyUnawares AnsweredIsPlacedOrHeld VendorOrdersAreSound
    DatabaseFitsServers
    RowsTellTheDocument ListTellsTheTable
    RegistriesAreSound
    AccessIsEntitled
CHECK_DEADLOCK FALSE
