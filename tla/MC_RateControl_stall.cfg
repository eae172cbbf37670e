\* A sleep-mode thread (1000 pps given on the command line, a 32-tick
\* period) and stalls of 40 ticks, longer than the period: does the pacing
\* come back once the stalls end?
CONSTANTS
    TicksPerSec = 16000
    RateArgs = {1000}
    Bandwidths = {0}
    ProbeModules = {"dns"}
    ProbeArgs <- MCDefaultArgs
    DnsPayloadLen = 16
    MAX_PACKET_SIZE = 4096
    Senders = 2
    PacketStreams = 1
    SlowRate = 1000
    Works = {1, 40}
    NormalWork = 1
    MaxSignals = 3
SPECIFICATION Spec
PROPERTY RateLimitRestored
