\* The same payloads checked against in_checksum (packet.h:89).
CONSTANTS
    Words <- MCWords
    Bytes <- MCBytes
    MaxWords = 4
    SrcAddr <- MCSrcAddr
    DstAddr <- MCDstAddr
    Src6 <- MCSrc6
    Dst6 <- MCDst6
    PortsFirst = 100
    NumPortsRange = {1, 2, 3, 5}
    StreamsRange = {1, 2, 3, 4}
    V1s = {0, 1, 2, 3, 4}
    NoByte = NoByte
SPECIFICATION Spec
INVARIANT
    InChecksumCorrect
CHECK_DEADLOCK FALSE
