SPECIFICATION StreamsSpec
CONSTANTS
    Agents = {claude, codex}
    Callers = {watcher1, watcher2}
    Cancellable = TRUE
    PipeRoom = 2
    MaxChunks = 2
    MaxRequests = 2
INVARIANT StaleRowCleared
CHECK_DEADLOCK FALSE
