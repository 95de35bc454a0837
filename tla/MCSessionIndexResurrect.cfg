CONSTANTS
    MaxVersion = 2
    MaxFaults = 0
    MaxRemovals = 1
    Writes = {"append"}
    Authoritative = FALSE
    Collaborates = FALSE
    Faults = {}
    Handlers = {"delete"}
SPECIFICATION Spec
INVARIANTS DeletedStaysDeleted
