SPECIFICATION FairSpec
CONSTANTS
    InitTables <- MCSwitched
    DevInfoUsable = FALSE
    Platform = "malibu"
    Requests <- MovingOn
    Faults = {"devPath", "gptLoad", "gptEntries", "gptBackup", "gptWrite", "lunOpen", "kill", "power"}
    Blank = Blank
    Empty = Empty
    Junk = {j1}
    Invalid = Invalid
    Reach = {"backupEntries", "backupHeader"}
PROPERTIES BackupTouchedLast CallsEnd
