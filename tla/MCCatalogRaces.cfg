SPECIFICATION Spec
CONSTANTS
    Calls = {1, 2, 3, 4}
    Menu <- RaceMenu
    Values <- MCValues
    Null = Null
    NoRow = NoRow
    IntMax = 4
    InitialMovies <- TwoMovies
    FirstFreeId = 3
    DatabaseCanFail = TRUE
INVARIANTS TypeOK UniqueTitleYear IdsBelowSequence CreatedIdsDistinct
INVARIANTS AcknowledgedCreateStays OnlyAskedValues RemovedOnce
