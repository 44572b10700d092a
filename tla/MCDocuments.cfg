SPECIFICATION MCSpec
CONSTANTS
    Texts <- MCTexts
    Scalars <- MCScalars
    MinimumNodes = 1
    Growth <- MCGrowth
    MaxKey = 3
    MaxRevision = 2
    Foreign <- MCForeign
INVARIANTS IntegrityIsKept CursorsAreExact BakingKeepsTheTree BlocksAreTrees
CHECK_DEADLOCK FALSE
