\* Two senders, three targets on one port, batches of 3, 2 probes per target.
CONSTANTS
    Senders = {1, 2}
    IPs = {1, 2, 3}
    Ports = {7}
    Listed = {1, 3}
    PacketStreams = 2
    Capacity = 3
    MaxTargets <- MCMaxTargets
    MaxPackets <- MCMaxPackets
    MaxRuntime = TRUE
    InitMayFail = TRUE
    ShardChoices <- MCShards
    NoThread = NoThread
    Ipv6Modes = {FALSE, TRUE}
    Ipv6Targets <- MCIpv6Targets
    Ipv6Port = 7
SPECIFICATION Spec
INVARIANTS
    TypeOK
    BatchWithinCapacity
    FlushAccounting
    ProbesOnOwnListedTargets
    NoDuplicateProbe
    PacketBudget
    FileCoverage
PROPERTIES
    CallbackAfterInit
    ScanRefinement
