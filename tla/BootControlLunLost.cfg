SPECIFICATION Spec
CONSTANTS
    InitTables <- MCOneTable
    DevInfoUsable = TRUE
    Platform = "malibu"
    Requests <- AllRequests
    Faults = {"lunWrite"}
    Blank = Blank
    Empty = Empty
    Junk = {j1, j2}
    Invalid = Invalid
    Reach = {}
INVARIANT SwitchCompletes
