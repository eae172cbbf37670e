\* The dns module (58-byte probes) or the ipv6_udp module with the probe
\* arguments of MCProbeArgs.  The command line gives no rate (-1), 0, a
\* sleep-mode rate or a spin-mode rate, with or without a bandwidth: 672000
\* bit/s is 1000 pps for the floored 84-byte frame, 100 bit/s rounds down
\* to 0 and is raised to 1 pps.  MAX_PACKET_SIZE is zmap's 4096 bytes.
\* Normal work of 1 tick, and stalls of 12 ticks: longer than the spin
\* period, shorter than the sleep period.
CONSTANTS
    TicksPerSec = 16000
    RateArgs <- MCRateArgs
    Bandwidths = {0, 100, 672000}
    ProbeModules = {"dns", "ipv6_udp"}
    ProbeArgs <- MCProbeArgs
    DnsPayloadLen = 16
    MAX_PACKET_SIZE = 4096
    Senders = 2
    PacketStreams = 1
    SlowRate = 1000
    Works = {1, 12}
    NormalWork = 1
    MaxSignals = 3
SPECIFICATION Spec
\* send_init exits on a fatal configuration, and the process ends there.
CHECK_DEADLOCK FALSE
INVARIANTS
    TypeOK
    SleepWithinPeriod
    AcceptedConfigNeverFails
PROPERTIES
    RateLimitRestored
    SpinFollowsRate
