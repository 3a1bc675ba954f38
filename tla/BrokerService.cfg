CONSTANTS
    s1 = s1
    s2 = s2
    MaxDisplays = 2
    Settings = {s1, s2}
    BadSettings = BadSettings
    Unparsable = Unparsable
    NoProfile = NoProfile
    Clients = {c1, c2}
    CommandLine = {c1}
    Handler = Handler
    NoClient = NoClient
    Commands <- MCCommands
    NoCommand = NoCommand
    NotSaved = NotSaved
    FirstSaved <- MCFirstSaved
    ForeignManifests <- MCForeignManifests
    Images = {i1, i2}
    OwnImage = i1
    NoImage = NoImage
    RestoreAttempts = 2
    MaxCommands = 2
    MaxControls = 2
    MaxFaults = 2
SPECIFICATION FairSpec
INVARIANTS AnsweredSettingsKept
PROPERTIES SettingsRestored StopCompletes
CHECK_DEADLOCK FALSE
