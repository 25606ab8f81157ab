\* one edge and one level line, raised by the CPU thread and the event loop
CONSTANTS
    Backends = {"aarch64"}
    Irqs = {"cuda", "ide"}
    Level = {"ide"}
    Devices = {"cudaLoop"}
    CPU = "cpu"
    Raises <- MCRaises
    Acks <- AllAcks
SPECIFICATION LineSpec
INVARIANTS
    NoStrandedInterrupt
    NoSpuriousInterrupt
PROPERTIES
    ClearedByCpuOnly
    Spec
