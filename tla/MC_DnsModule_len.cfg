\* A reply whose UDP length is short of the question it matched by the
\* UDP header, classified a success (module_dns.c:946, 1001).
CONSTANTS
    ExampleCom = ExampleCom
    AIo = AIo
    Elsewhere = Elsewhere
    Domains <- MCDomains
    QTypes <- MCQTypes
    QnameLen <- MCQnameLen
    PacketStreams = 4
    ForeignNames = {Elsewhere}
    OtherQTypes = {16}
    UdpLens <- MCUdpLens
    IcmpLens <- MCIcmpLens
    HeaderLens = {5, 15}
    IcmpTypes = {3, 8}
SPECIFICATION Spec
INVARIANT
    SuccessWithinReply
CHECK_DEADLOCK FALSE
