CONSTANTS
    MaxVersion = 3
    MaxFaults = 1
    MaxRemovals = 2
    Writes = {"append"}
    Authoritative = FALSE
    Collaborates = TRUE
    Faults = {"inventory", "read", "error", "database"}
    Handlers = {"delete", "remove"}
SPECIFICATION Spec
INVARIANTS TypeOK WatermarkHonest SkipSound
PROPERTIES TombstoneKept NoFalseTombstone Converges
