SPECIFICATION Spec
CONSTANTS
    n1 = n1
    v1 = v1
    Names = {n1}
    Handles = {3, 4, 5, 6}
    Values = {v1}
    Size = 2
    MaxCount = 2
    FilesFail = TRUE
    MaxIncidents = 1
INVARIANT ResetCostsNothing
PROPERTIES KeepsPromises ComesBack
