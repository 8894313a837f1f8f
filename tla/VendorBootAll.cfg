SPECIFICATION Spec
CONSTANTS
    Requests <- AllRequests
    Faults <- Noticed
INVARIANTS FirstStageKept BothMeansBoth InstalledMeansDone
PROPERTIES RunningSlotUntouched StaysReflashed
