SPECIFICATION SpecWipes
CONSTANTS
    Encrypted = TRUE
    VirtualAB = TRUE
    Faults <- Failures
    Others = {"/cache"}
INVARIANTS WipesTypeOK SuccessMeansWiped SecretsOutliveData
PROPERTIES ErasedOnlyIdle FormatEnds OnlyAskedFor
