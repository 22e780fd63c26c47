SPECIFICATION Spec
CONSTANTS
    Calls = {1, 2}
    Menu <- NullMenu
    Values <- MCValues
    Null = Null
    NoRow = NoRow
    IntMax = 3
    InitialMovies <- TwoMovies
    FirstFreeId = 3
    DatabaseCanFail = FALSE
INVARIANT NullIsAValidationError
