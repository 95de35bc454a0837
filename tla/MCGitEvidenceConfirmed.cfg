SPECIFICATION EvidenceSpec
CONSTANTS
    Versions = {v1}
    None = None
    Bindings = {b1}
    Links = {l1}
    NoLink = NoLink
    Deleted = Deleted
    MaxSyncs = 1
    MaxPushes = 0
    MaxRevision = 1
    MaxSource = 3
    MaxCrashes = 0
PROPERTIES ConfirmationSurvivesPass
CHECK_DEADLOCK FALSE
