SPECIFICATION Spec
CONSTANTS
    Calls = {1, 2, 3, 4}
    Menu <- PerMovieMenu
    Values <- MCValues
    Null = Null
    NoRow = NoRow
    IntMax = 3
    InitialMovies <- TwoMovies
    FirstFreeId = 3
    DatabaseCanFail = TRUE
PROPERTY ImplementsAtomicCatalog
