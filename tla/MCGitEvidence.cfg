SPECIFICATION EvidenceSpec
CONSTANTS
    Versions = {v1, v2}
    None = None
    Bindings = {b1}
    Links = {l1}
    NoLink = NoLink
    Deleted = Deleted
    MaxSyncs = 2
    MaxPushes = 1
    MaxRevision = 2
    MaxSource = 3
    MaxCrashes = 1
SYMMETRY Interchangeable
INVARIANTS HostedAuthorityJustified PatchesBelongToFiles LocalFilesAreOfTheirRevision
CHECK_DEADLOCK FALSE
