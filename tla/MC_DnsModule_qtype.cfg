\* A reply with a qtype or qclass no question asked for, classified a
\* success (module_dns.c:1016 reads the tail from dns_packets[i]).
CONSTANTS
    ExampleCom = ExampleCom
    AIo = AIo
    Elsewhere = Elsewhere
    Domains <- MCDomains
    QTypes <- MCQTypes
    QnameLen <- MCQnameLen
    PacketStreams = 4
    ForeignNames = {Elsewhere}
    OtherQTypes = {16}
    UdpLens <- MCUdpLens
    IcmpLens <- MCIcmpLens
    HeaderLens = {5, 15}
    IcmpTypes = {3, 8}
SPECIFICATION Spec
INVARIANT
    SuccessEchoesQuestion
CHECK_DEADLOCK FALSE
