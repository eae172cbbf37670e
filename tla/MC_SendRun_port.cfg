\* Two ports and a list of IPs: the skip loop and current_port.
CONSTANTS
    Senders = {1, 2}
    IPs = {1, 2, 3}
    PacketStreams = 2
    Capacity = 3
    NoThread = NoThread
    Ipv6Modes = {FALSE}
    Ipv6Targets <- MCIpv6Targets
    Ipv6Port = 7
    Ports = {7, 8}
    Listed = {2, 3}
    MaxTargets <- NoLimit
    MaxPackets <- NoLimit
    MaxRuntime = FALSE
    InitMayFail = FALSE
    ShardChoices <- MCTwoPortShards
SPECIFICATION Spec
INVARIANT NoDuplicateProbe
