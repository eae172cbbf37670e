--------------------------- MODULE MC_DnsModule ---------------------------
(* Two questions, "A,000.000.000.000.example.com" and                     *)
(* "AAAA,000.000.000.000.a.io" (the 16-byte placeholder dnsippadding       *)
(* overwrites with the target's address), asked by four probes per       *)
(* target.                                                                 *)
EXTENDS DnsModule

CONSTANTS ExampleCom, AIo, Elsewhere

MCDomains == << ExampleCom, AIo >>
MCQTypes == << 1, 28 >>                 \* DNS_QTYPE_A, DNS_QTYPE_AAAA
\* domain_to_qname: strlen(domain) + 2.
MCQnameLen == [d \in {ExampleCom, AIo} |-> IF d = ExampleCom THEN 29 ELSE 22]

\* dns_packet_lens: 45 for example.com, 38 for a.io.  UDP lengths below
\* both, at the shorter one, at the longer one, and both with the UDP
\* header added.
MCUdpLens == {36, 38, 45, 46, 53}

\* ICMP replies with an outer and a quoted header of 5 or 15 words: each
\* length icmp_helper_validate's two checks compare with (56, 96, 136)
\* and one byte less.
MCIcmpLens == {55, 56, 95, 96, 135, 136}
====
