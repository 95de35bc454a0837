CONSTANTS
    MaxVersion = 3
    MaxFaults = 1
    MaxRemovals = 1
    Writes = {"append", "rewrite", "stealth"}
    Authoritative = TRUE
    Collaborates = FALSE
    Faults = {"inventory", "read", "error", "database", "crash"}
    Handlers = {"delete"}
SPECIFICATION Spec
INVARIANTS VerifiedHonest
PROPERTIES Converges
