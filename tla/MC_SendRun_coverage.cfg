\* Shards run to their end with no budget: is every target probed?
CONSTANTS
    Senders = {1, 2}
    IPs = {1, 2, 3}
    PacketStreams = 2
    Capacity = 3
    NoThread = NoThread
    Ipv6Modes = {FALSE}
    Ipv6Targets <- MCIpv6Targets
    Ipv6Port = 7
    Ports = {7}
    Listed = {1, 3}
    MaxTargets <- NoLimit
    MaxPackets <- NoLimit
    MaxRuntime = FALSE
    InitMayFail = FALSE
    ShardChoices <- MCShards
SPECIFICATION Spec
INVARIANT ShardCoverage
