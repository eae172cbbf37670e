------------------------------ MODULE Checksum ------------------------------
(***************************************************************************)
(* The checksum and source-port helpers of src/src/probe_modules/packet.h: *)
(* in_checksum / in_icmp_checksum (one carry fold), tcp_checksum and       *)
(* ipv6_payload_checksum (pseudo header, two carry folds), and the source  *)
(* port window of get_src_port and check_dst_port.                         *)
(*                                                                         *)
(* A packet is built word by word: the state is the payload so far, as the *)
(* 16-bit words the code reads (host order, little-endian as on the x86    *)
(* builds), and a trailing odd byte.  The code's result on every payload   *)
(* is compared with the Internet checksum of RFC 1071 computed by          *)
(* end-around-carry addition.  The accumulator is an unsigned long, which  *)
(* never overflows for packets of this size, so its sums are exact.        *)
(***************************************************************************)
EXTENDS Integers, Sequences, SequencesExt

CONSTANTS
    Words,          \* 16-bit words a payload is built from
    Bytes,          \* values of a trailing odd byte
    MaxWords,       \* bound on the payload length in words
    SrcAddr,        \* the IPv4 source address as two words
    DstAddr,        \* the IPv4 destination address as two words
    Src6,           \* the IPv6 source address as eight words
    Dst6,           \* the IPv6 destination address as eight words
    PortsFirst,     \* zconf.source_port_first
    NumPortsRange,  \* values of num_ports
    StreamsRange,   \* values of zconf.packet_streams
    V1s,            \* values of validation[1]
    NoByte          \* no trailing odd byte

ASSUME /\ Words \subseteq 0..65535 /\ Bytes \subseteq 0..255
       /\ MaxWords \in Nat /\ NoByte \notin Bytes

Word16 == 65536
IPPROTO_TCP == 6
IPPROTO_UDP == 17

-----------------------------------------------------------------------------
(* Arithmetic of the C code.                                               *)

\* htons on a little-endian host: the two bytes swapped.
Htons(x) == ((x % 256) * 256) + (x \div 256)

\* sum += *w++ over the words, in the unsigned long accumulator.
WordsSum(ws) == FoldLeft(LAMBDA a, b : a + b, 0, ws)

\* The trailing byte: *(unsigned char *)ip_pkt, or *w & ntohs(0xFF00),
\* both the byte at the lower address, which is the word's low half.
OddValue(odd) == IF odd = NoByte THEN 0 ELSE odd

\* len in bytes of the payload.
ByteLen(ws, odd) == 2 * Len(ws) + (IF odd = NoByte THEN 0 ELSE 1)

\* sum = (sum >> 16) + (sum & 0xffff)
FoldOnce(s) == (s \div Word16) + (s % Word16)

\* Mutant: the second fold left out.
FoldTwiceAsOnce(s) == FoldOnce(s)

\* sum = (sum >> 16) + (sum & 0xFFFF); sum += (sum >> 16)
FoldTwice(s) == FoldOnce(s) + (FoldOnce(s) \div Word16)

\* Mutant: the complement taken of the whole sum, without the cast's
\* truncation to 16 bits.
Complement16NoCast(s) == (Word16 - 1) - s

\* (unsigned short)(~sum): the low 16 bits of the complement.
Complement16(s) == (Word16 - 1) - (s % Word16)

\* in_checksum(ip_pkt, len), and in_icmp_checksum, its copy.
InChecksum(ws, odd) == Complement16(FoldOnce(WordsSum(ws) + OddValue(odd)))

\* tcp_checksum(len_tcp, saddr, daddr, tcp_pkt): the segment, then the
\* pseudo header of both addresses, htons(len_tcp) and htons(6).
TcpChecksum(ws, odd) ==
    Complement16(FoldTwice(WordsSum(ws) + OddValue(odd)
                           + WordsSum(SrcAddr) + WordsSum(DstAddr)
                           + Htons(ByteLen(ws, odd)) + Htons(IPPROTO_TCP)))

\* ipv6_payload_checksum(len, saddr, daddr, w, IPPROTO_UDP): the pseudo
\* header of both addresses, htons(len) and htons(proto), then the payload.
Ipv6PayloadChecksum(ws, odd) ==
    Complement16(FoldTwice(WordsSum(Src6) + WordsSum(Dst6)
                           + Htons(ByteLen(ws, odd)) + Htons(IPPROTO_UDP)
                           + WordsSum(ws) + OddValue(odd)))

-----------------------------------------------------------------------------
(* The source port window.                                                 *)

\* get_src_port(num_ports, probe_num, validation)
GetSrcPort(np, n, v1) == PortsFirst + ((v1 + n) % np)

\* Mutant: the wrapped window tested as if it did not wrap.
CheckDstPortNoWrap(port, np, s, v1) ==
    LET toValidate == port - PortsFirst
        min == v1 % np
        max == (v1 + s - 1) % np
    IN  /\ port >= PortsFirst /\ port <= PortsFirst + np - 1
        /\ toValidate <= max /\ toValidate >= min

\* check_dst_port(port, num_ports, validation): zconf.source_port_last is
\* source_port_first + num_ports - 1.
CheckDstPort(port, np, s, v1) ==
    LET toValidate == port - PortsFirst
        min == v1 % np
        max == (v1 + s - 1) % np
    IN  /\ port >= PortsFirst /\ port <= PortsFirst + np - 1
        /\ IF min <= max
             THEN toValidate <= max /\ toValidate >= min
             ELSE (toValidate <= max) # (toValidate >= min)

-----------------------------------------------------------------------------

VARIABLES
    words,      \* the payload's words so far
    odd,        \* its trailing odd byte, or NoByte
    numPorts,   \* num_ports of the scan
    streams,    \* zconf.packet_streams of the scan
    v1          \* validation[1] of the target

vars == <<words, odd, numPorts, streams, v1>>

\* A scan's port configuration: as many probes per target as source ports
\* at most; one target's validation word.
Init ==
    /\ words = <<>>
    /\ odd = NoByte
    /\ numPorts \in NumPortsRange
    /\ streams \in {s \in StreamsRange : s <= numPorts}
    /\ v1 \in V1s

\* The packet gains a word.
AppendWord(w) ==
    /\ odd = NoByte
    /\ Len(words) < MaxWords
    /\ words' = Append(words, w)
    /\ UNCHANGED <<odd, numPorts, streams, v1>>

\* The packet ends in an odd byte.
AppendOddByte(b) ==
    /\ odd = NoByte
    /\ odd' = b
    /\ UNCHANGED <<words, numPorts, streams, v1>>

Next ==
    \/ \E w \in Words : AppendWord(w)
    \/ \E b \in Bytes : AppendOddByte(b)

Spec == Init /\ [][Next]_vars

-----------------------------------------------------------------------------
(* The reference: RFC 1071's one's-complement sum with end-around carry.   *)

OnesAdd(a, b) == LET s == a + b IN IF s >= Word16 THEN s - (Word16 - 1) ELSE s

RefChecksum(ws) == (Word16 - 1) - FoldLeft(OnesAdd, 0, ws)

\* The payload as words, the odd byte padded with a zero byte.
PaddedWords == IF odd = NoByte THEN words ELSE Append(words, odd)

-----------------------------------------------------------------------------
(* Properties.                                                             *)

\* The state, and the results of every checksum routine, are in range.
TypeOK ==
    /\ words \in Seq(Words) /\ Len(words) <= MaxWords
    /\ odd \in Bytes \cup {NoByte}
    /\ numPorts \in NumPortsRange /\ streams \in StreamsRange
    /\ v1 \in V1s
    /\ \A c \in {InChecksum(words, odd), TcpChecksum(words, odd),
                 Ipv6PayloadChecksum(words, odd)} : c \in 0..(Word16 - 1)

\* in_checksum gives the Internet checksum of every payload (it is the IP
\* header checksum of every packet, zmap_ip_checksum, and the ICMP one).
InChecksumCorrect == InChecksum(words, odd) = RefChecksum(PaddedWords)

\* tcp_checksum and ipv6_payload_checksum give the Internet checksum of
\* the pseudo header and the payload, whatever the carries.
PseudoChecksumsCorrect ==
    /\ TcpChecksum(words, odd) =
         RefChecksum(PaddedWords \o SrcAddr \o DstAddr
                     \o << Htons(ByteLen(words, odd)), Htons(IPPROTO_TCP) >>)
    /\ Ipv6PayloadChecksum(words, odd) =
         RefChecksum(Src6 \o Dst6
                     \o << Htons(ByteLen(words, odd)), Htons(IPPROTO_UDP) >>
                     \o PaddedWords)

\* check_dst_port accepts exactly the source ports get_src_port gave the
\* target's probes: every reply to a probe passes, and no other port does.
PortWindowExact ==
    \A port \in PortsFirst - 1 .. PortsFirst + numPorts :
        CheckDstPort(port, numPorts, streams, v1)
            <=> \E n \in 0..streams - 1 :
                    port = GetSrcPort(numPorts, n, v1)

=============================================================================
