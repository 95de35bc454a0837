SPECIFICATION StreamsSpec
CONSTANTS
    Agents = {claude, codex}
    Callers = {watcher1, watcher2}
    Cancellable = TRUE
    PipeRoom = 2
    MaxChunks = 2
    MaxRequests = 2
INVARIANTS TypeOK NoLostRequest GenerationWhole
PROPERTIES RequestServed ReconcileRecurs StopsWhenCancelled TailCatchesUp PingsAreServed GenerationAlwaysEnds
CHECK_DEADLOCK FALSE
