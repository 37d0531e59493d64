SPECIFICATION MCSpec
CONSTANTS
    NumChecks = 3
    NumRules = 2
    Ids = {1, 2, 3}
    Paths <- MCPaths
    Names <- MCNames
    Dirs <- MCDirs
    Mangled <- MCMangled
    Begins <- MCBegins
    Matches <- MCMatches
    About <- MCAbout
    Repositories <- MCRepositories
    OptionsFor <- MCOptionsFor
    Runs = {r1, r2, r3}
    MaxEdits = 2
    MaxHistory = 2
    NoRun = NoRun
SYMMETRY Symmetry
INVARIANTS
    SelectionIsRight
    PlanIsRight
    StatusIsHonest
    HistoryIsRight
CHECK_DEADLOCK FALSE
