SPECIFICATION ChangeSpec
CONSTANTS
    Versions = {v1, v2}
    None = None
    Bindings = {b1, b2}
    Links = {l1, l2}
    NoLink = NoLink
    Deleted = Deleted
    MaxSyncs = 2
    MaxPushes = 1
    MaxRevision = 2
SYMMETRY Interchangeable
INVARIANTS CacheHeadAgrees ArrivalOrderIrrelevant ConfirmedLinksCurrent HostedAuthorityJustified
CHECK_DEADLOCK FALSE
