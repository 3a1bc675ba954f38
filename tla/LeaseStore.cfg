SPECIFICATION Spec
CONSTANTS
    d1 = d1
    d2 = d2
    d3 = d3
    DisplayIds <- MCDisplayIds
    LeaseIds = {l1, l2}
    Capabilities = {o1, o2}
    Edids <- MCEdids
    RetainedEdid <- MCRetainedEdid
    EphemeralEdid <- MCEphemeralEdid
    MaxPermanent = 1
    MaxTemporary = 5
    MaxIndex = 3
    DefaultTimeout = 1
    MinTimeout = 1
    MaxTimeout = 1
    RequestedTimeouts = {5}
    NoDisplay = NoDisplay
    NoLease = NoLease
    NoCapability = NoCapability
    NoConnector = NoConnector
    MaxGeneration = 3
    MaxEphemeral = 2
    MaxTime = 2
    MaxClockLag = 1
SYMMETRY Symmetry
CHECK_DEADLOCK FALSE
INVARIANTS
    TypeOK
    ConnectorsSafe
    IdentitiesUnique
    LeasesMatch
PROPERTIES
    GenerationFencesLifetime
    ReservationHonoured
    ClaimsRespected
