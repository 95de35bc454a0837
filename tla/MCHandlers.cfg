SPECIFICATION HandlersSpec
CONSTANTS
    Fast = 2
    Slow = 5
    MaxCalling = 2
    MaxIdle = 7
    Sessions = {"a", "b", "c"}
    Renders = {"x", "y"}
    MaxVersion = 3
    MaxGrowth = 1
    MaxDrift = 1
    MaxBytes = 6
    Resumes = {"x", "y"}
    MaxLaunches = 1
    MaxOutside = 1
    Profiles = {"p", "q"}
    Requests = {"x", "y"}
    Names = {1, 2, 3}
    Ids = {1, 2, 3}
    None = 0
    MaxDelegations = 3
INVARIANTS HandlersTypeOK NothingForgotten NeverLate BooksBalance CachedTranscriptCurrent RevocationHolds LaunchesExclusive ProjectionIsForest
PROPERTIES Throttled RevisionsImmutable
CHECK_DEADLOCK FALSE
