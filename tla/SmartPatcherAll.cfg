SPECIFICATION Spec
CONSTANTS
    Tokens <- MCTokens
    Undecodable <- MCUndecodable
    Patches <- MCPatches
    Upstreams <- MCUpstreams
INVARIANTS
    AppliedOrReported
    NothingElseChanges
PROPERTIES
    RerunIsQuiet
