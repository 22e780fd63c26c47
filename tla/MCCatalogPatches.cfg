SPECIFICATION Spec
CONSTANTS
    Calls = {1, 2}
    Menu <- TwoPatchesMenu
    Values <- MCValues
    Null = Null
    NoRow = NoRow
    IntMax = 3
    InitialMovies <- TwoMovies
    FirstFreeId = 3
    DatabaseCanFail = FALSE
PROPERTY UpdatesOnlyProvidedFields
