SPECIFICATION Spec
CONSTANTS
    InitTables <- MCTables
    DevInfoUsable = TRUE
    Platform = "zuma"
    Requests <- AllRequests
    Faults = {"devinfoWrite", "lunOpen", "otp", "kill", "power"}
    Blank = Blank
    Empty = Empty
    Junk = {j1, j2}
    Invalid = Invalid
    Reach = {}
INVARIANTS IInv PromisesKept SwitchCompletes
PROPERTY BlownAfterMarked
