----------------------------- MODULE DnsModule -----------------------------
(***************************************************************************)
(* The DNS probe module, src/src/probe_modules/module_dns.c: the question   *)
(* packets built at start-up (build_global_dns_packets), the probe a       *)
(* sender builds for probe number n (dns_make_packet with                  *)
(* get_dns_question_index_by_probe_num), and the receiver's handling of a   *)
(* captured reply: dns_validate_packet, then dns_process_packet's          *)
(* classification into success / app_success.                              *)
(*                                                                         *)
(* Names are abstract: a configured domain is a model value whose encoded  *)
(* qname length is QnameLen[d].  With dnsippadding dns_make_packet writes  *)
(* the target's address over the first 16 bytes of the qname, so a qname   *)
(* is a record of those 16 bytes (the configured ones, the target's        *)
(* address, or anything else) and the domain.  A reply is a record of the  *)
(* fields the module reads.  Its echoed question stands for whatever bytes *)
(* lie at that offset of the capture, inside the UDP length or not.        *)
(***************************************************************************)
EXTENDS Integers, Sequences, FiniteSets, Functions, IcmpHelper

CONSTANTS
    Domains,        \* the configured domains, in order (a sequence)
    QTypes,         \* their qtypes (a sequence of the same length)
    QnameLen,       \* [domain -> length of its encoded qname]
    PacketStreams,  \* zconf.packet_streams: probes per target
    ForeignNames,   \* domains the module was not configured with
    OtherQTypes,    \* qtypes no question asked for
    UdpLens,        \* UDP lengths a reply can declare
    IcmpLens,       \* captured lengths of an ICMP reply
    HeaderLens,     \* ip_hl values of the outer and the quoted IP header
    IcmpTypes       \* ICMP types a reply can carry

NumQuestions == Len(Domains)

ASSUME /\ NumQuestions > 0 /\ Len(QTypes) = NumQuestions
       /\ PacketStreams \in Nat \ {0}
       \* dns_global_initialize refuses probe counts that are not a
       \* multiple of the number of questions.
       /\ PacketStreams % NumQuestions = 0

UdpHeaderLen == 8       \* sizeof(struct udphdr)
DnsHeaderLen == 12      \* sizeof(dns_header)
TailLen == 4            \* sizeof(dns_question_tail)
QClassIN == 1
QRAnswer == 1           \* DNS_QR_ANSWER
Prefixes == {"qname", "address", "other"}
RcodeNoErr == 0         \* DNS_RCODE_NOERR

-----------------------------------------------------------------------------
(* Start-up: build_global_dns_packets.                                     *)

\* dns_packet_lens[i] = sizeof(dns_header) + qname_lens[i] + sizeof(tail)
DnsPacketLen(i) == DnsHeaderLen + QnameLen[Domains[i]] + TailLen

\* dns_packets[i]: the question of the query, qtype and qclass IN.
DnsPackets ==
    [i \in 1..NumQuestions |->
        [domain |-> Domains[i], qtype |-> QTypes[i], qclass |-> QClassIN]]

\* Mutant: the question index taken modulo one too many.
QuestionIndexOffByOne(n) == (n % (NumQuestions + 1)) + 1

\* get_dns_question_index_by_probe_num (0-based in C, 1-based here).
QuestionIndex(n) == (n % NumQuestions) + 1

-----------------------------------------------------------------------------
(* Replies.                                                                *)

\* A UDP reply whose ports udp_do_validate_packet accepts, over every
\* combination of the fields the module reads.
UdpReplies ==
    [proto : {"udp"},
     portsOk : {TRUE},                  \* udp_do_validate_packet's verdict
     idOurs : BOOLEAN,                  \* id = validation[2] & 0xFFFF
     prefix : Prefixes,
     domain : Range(Domains) \cup ForeignNames,
     qtype : Range(QTypes) \cup OtherQTypes,
     qclass : {QClassIN, 3},
     udpLen : UdpLens,
     captured : BOOLEAN,                \* len >= udp_len
     qr : {0, 1},
     rcode : {0, 2}]

\* The fields of a reply the module never reads past its first checks.
SomeReply == CHOOSE r \in UdpReplies : TRUE

\* ICMP replies over every combination of the fields icmp_helper_validate
\* and fs_populate_icmp_from_iphdr read.  portsOk stands for the rest of
\* udp_do_validate_packet's verdict: the quoted probe's destination is
\* allowed and its ports are ours.
IcmpReplies ==
    [proto : {"icmp"}, portsOk : BOOLEAN, ihl : HeaderLens,
     innerIhl : HeaderLens, len : IcmpLens, icmpType : IcmpTypes]

\* Replies with the wrong ports: the module reads nothing more of them than
\* their protocol and udp_do_validate_packet's verdict.
Reply ==
    UdpReplies \cup IcmpReplies \cup {[SomeReply EXCEPT !.portsOk = FALSE]}

\* udp_do_validate_packet on an ICMP reply (module_udp.c, not part of the
\* sources): icmp_helper_validate with the length of a UDP header, then
\* the quoted ports.
UdpDoValidateIcmp(r) ==
    /\ IcmpHelperValidate(r.ihl, r.len, UdpHeaderLen, r.icmpType, r.innerIhl, TRUE)
    /\ r.portsOk

\* Mutant: the length check left out of dns_validate_packet.
DnsValidateNoLen(r) ==
    /\ r.proto = "icmp" => UdpDoValidateIcmp(r)
    /\ r.proto = "udp" => r.portsOk /\ r.captured

\* dns_validate_packet: the UDP/ICMP checks, then for UDP a UDP length at
\* least one question's dns_packet_lens, and all of it captured.
Matches(r) == {i \in 1..NumQuestions : r.udpLen >= DnsPacketLen(i)}

DnsValidate(r) ==
    /\ r.proto = "icmp" => UdpDoValidateIcmp(r)
    /\ r.proto = "udp" =>
          /\ r.portsOk
          /\ Matches(r) # {}
          /\ r.captured

\* Mutant: the offset's ternary the wrong way round.
QnameMatchesSwapped(r, i, pad) ==
    /\ r.domain = Domains[i]
    /\ pad => r.prefix = "qname"

\* strcmp(qnames[i] + offset, qname_p + offset) == 0, offset 16 with
\* dnsippadding: the first 16 bytes are not compared then.
QnameMatches(r, i, pad) ==
    /\ r.domain = Domains[i]
    /\ ~pad => r.prefix = "qname"

\* The qtype and qclass test reads tail_p, which points into dns_packets[i].
TailMatches(r, i) ==
    /\ DnsPackets[i].qtype = QTypes[i]
    /\ DnsPackets[i].qclass = QClassIN

\* dns_process_packet's loop over the questions: is_valid.
IsValid(r, pad) ==
    \E i \in Matches(r) :
        /\ r.idOurs
        /\ QnameMatches(r, i, pad)
        /\ TailMatches(r, i)

\* The record dns_process_packet writes: classification, success,
\* app_success, whether the DNS sections were parsed, and whether one of
\* its asserts failed: assert(match > 0) for UDP, and for ICMP the
\* asserts of fs_populate_icmp_from_iphdr that get_icmp_header and
\* get_inner_ip_header did not return NULL.
DnsProcess(r, pad) ==
    IF r.proto = "udp"
    THEN [classification |-> "dns",
          success |-> IsValid(r, pad),
          appSuccess |-> IsValid(r, pad) /\ r.qr = QRAnswer
                                             /\ r.rcode = RcodeNoErr,
          parsed |-> IsValid(r, pad),
          assertFails |-> Matches(r) = {}]
    ELSE [classification |-> "icmp", success |-> FALSE,
          appSuccess |-> FALSE, parsed |-> FALSE,
          assertFails |-> FsPopulateIcmpFails(r.ihl, r.len)]

-----------------------------------------------------------------------------

VARIABLES
    padding,    \* zconf.dnsippadding
    sent,       \* the probes built: probe number -> question index
    reply,      \* the last reply the receiver captured
    record      \* what the module did with it: dropped, or the record written

vars == <<padding, sent, reply, record>>

NoReply == [proto |-> "none"]

Record ==
    [classification : {"none", "dropped", "dns", "icmp"}, success : BOOLEAN,
     appSuccess : BOOLEAN, parsed : BOOLEAN, assertFails : BOOLEAN]

\* No record yet, or a reply dns_validate_packet dropped.
NoRecord(c) ==
    [classification |-> c, success |-> FALSE, appSuccess |-> FALSE,
     parsed |-> FALSE, assertFails |-> FALSE]

Init ==
    /\ padding \in BOOLEAN
    /\ sent = [n \in {} |-> 0]
    /\ reply = NoReply
    /\ record = NoRecord("none")

\* dns_make_packet for probe number n: the question by probe number, copied
\* from dns_packets, source port get_src_port(num_ports, n, validation).
MakePacket(n) ==
    /\ n \notin DOMAIN sent
    /\ sent' = [m \in DOMAIN sent \cup {n} |->
                    IF m = n THEN QuestionIndex(n) ELSE sent[m]]
    /\ UNCHANGED <<padding, reply, record>>

\* The receiver captures a reply from the target and hands it to
\* dns_validate_packet, and a valid one to dns_process_packet.  Handling a
\* reply keeps no state, so a behaviour follows one reply.
Receive(r) ==
    /\ DOMAIN sent # {}
    /\ reply = NoReply
    /\ reply' = r
    /\ record' = IF DnsValidate(r) THEN DnsProcess(r, padding) ELSE NoRecord("dropped")
    /\ UNCHANGED <<padding, sent>>

Next ==
    \/ \E n \in 0..PacketStreams - 1 : MakePacket(n)
    \/ \E r \in Reply : Receive(r)

Spec == Init /\ [][Next]_vars

-----------------------------------------------------------------------------
(* Properties.                                                             *)

TypeOK ==
    /\ padding \in BOOLEAN
    /\ DOMAIN sent \subseteq 0..PacketStreams - 1
    /\ \A n \in DOMAIN sent : sent[n] \in 1..NumQuestions
    /\ reply \in Reply \cup {NoReply}
    /\ record \in Record

Processed == record.classification \in {"dns", "icmp"}

\* Whatever dns_validate_packet lets through, dns_process_packet finds at
\* least one question the UDP length covers (its assert(match > 0) holds),
\* and finds the ICMP and quoted IP headers of an ICMP error
\* (fs_populate_icmp_from_iphdr's asserts hold).
MatchAssertHolds == Processed => ~record.assertFails

\* The reply a resolver gives to probe n (our id, the question that probe
\* asked echoed in full, as sent, with or without the address padding) is
\* accepted and classified a success.
EchoOf(n) ==
    [proto |-> "udp", portsOk |-> TRUE, idOurs |-> TRUE,
     prefix |-> IF padding THEN "address" ELSE "qname",
     domain |-> Domains[sent[n]], qtype |-> QTypes[sent[n]],
     qclass |-> QClassIN,
     udpLen |-> UdpHeaderLen + DnsPacketLen(sent[n]),
     captured |-> TRUE, qr |-> QRAnswer, rcode |-> RcodeNoErr]

EchoAccepted ==
    \A n \in DOMAIN sent :
        DnsValidate(EchoOf(n)) /\ DnsProcess(EchoOf(n), padding).success

\* A reply classified a success echoes one of the configured questions:
\* its qname, qtype and qclass (the specification's validation rule).
SuccessEchoesQuestion ==
    Processed /\ record.success =>
        \E i \in 1..NumQuestions :
            /\ reply.domain = Domains[i]
            /\ reply.qtype = QTypes[i]
            /\ reply.qclass = QClassIN

\* A reply classified a success holds the whole question it matched within
\* its UDP length: header, qname, qtype and qclass after the UDP header.
SuccessWithinReply ==
    Processed /\ record.success =>
        \E i \in 1..NumQuestions :
            /\ reply.domain = Domains[i]
            /\ reply.udpLen >= UdpHeaderLen + DnsPacketLen(i)

\* An ICMP error the module records quotes, inside what was captured, the
\* whole IP header of the probe (its ip_hl, whatever the responder wrote
\* there) and the 8-byte UDP header behind it, whose ports
\* udp_do_validate_packet compared: the recheck of icmp_helper_validate
\* with the quoted header's own length, on a size_t that can wrap.
IcmpQuoteWithinReply ==
    record.classification = "icmp" =>
        4 * reply.ihl + ICMP_HEADER_SIZE + 4 * reply.innerIhl + UdpHeaderLen
            <= reply.len

=============================================================================
