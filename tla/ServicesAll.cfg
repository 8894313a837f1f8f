SPECIFICATION Spec
CONSTANTS
    Files = {"recovery_weaver", "libvold"}
    Packed = {"recovery_weaver", "libvold"}
    Phones <- MCPhones
    HALs = {"weaver", "keymint", "compat"}
    Tries = 3
    Mistakes = 2
INVARIANTS
    SnapshotIsTheImage
    PackedOrWhole
    RightKeyOpens
PROPERTIES
    NobodyWaitsForEver
