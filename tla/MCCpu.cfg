CONSTANT Backends = {"aarch64", "x86_64", "x86"}
SPECIFICATION FairSpec
INVARIANTS
    KnownException
PROPERTIES
    SourcesKept
    DecDelivered
