SPECIFICATION FairSpec
CONSTANTS
    Libs <- MCLibs
    Roots <- MCRoots
    Optional = {"es1"}
    Needs <- MCNeeds
    Shared <- MCShared
    Phones <- MCPhones
    Ramdisk <- MCRamdisk
    Tries = 3
    StagingFaults <- AllButPartialCopy
INVARIANTS WholeOrAbsent OneThingLeft
PROPERTY BootGoesOn
CHECK_DEADLOCK FALSE
