\* Two questions, four probes; replies over every combination of id, qname,
\* qtype, qclass, length and capture, and ICMP errors (and echo replies)
\* over header lengths and captured lengths.
CONSTANTS
    ExampleCom = ExampleCom
    AIo = AIo
    Elsewhere = Elsewhere
    Domains <- MCDomains
    QTypes <- MCQTypes
    QnameLen <- MCQnameLen
    PacketStreams = 4
    ForeignNames = {Elsewhere}
    OtherQTypes = {16}
    UdpLens <- MCUdpLens
    IcmpLens <- MCIcmpLens
    HeaderLens = {5, 15}
    IcmpTypes = {3, 8}
SPECIFICATION Spec
INVARIANTS
    TypeOK
    MatchAssertHolds
    EchoAccepted
    IcmpQuoteWithinReply
CHECK_DEADLOCK FALSE
