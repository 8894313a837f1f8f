SPECIFICATION Spec
CONSTANTS
    Users <- MCUsers
    Owner = "u0"
    Secret <- MCSecret
    Zoned = "zoned_device"
    Expansions = {"exp"}
    FileEncryption <- MCFileEncryption
    MetadataEncryption <- MCMetadataEncryption
    Faults = {"key", "mount", "checkpoint", "bind", "dirs", "detach"}
INVARIANTS
    TypeOK
    KeysAreReal
    DecryptedMeansMapped
    NoFalseFailure
    RekeyOwed
    WritesLast
PROPERTIES
    ComesToAnEnd
CHECK_DEADLOCK FALSE
