\* Payloads of up to four words, port ranges of one to five ports with up to
\* as many probes per target, and validation words around every window.
CONSTANTS
    Words <- MCWords
    Bytes <- MCBytes
    MaxWords = 4
    SrcAddr <- MCSrcAddr
    DstAddr <- MCDstAddr
    Src6 <- MCSrc6
    Dst6 <- MCDst6
    PortsFirst = 100
    NumPortsRange = {1, 2, 3, 5}
    StreamsRange = {1, 2, 3, 4}
    V1s = {0, 1, 2, 3, 4}
    NoByte = NoByte
SPECIFICATION Spec
INVARIANTS
    TypeOK
    PseudoChecksumsCorrect
    PortWindowExact
CHECK_DEADLOCK FALSE
