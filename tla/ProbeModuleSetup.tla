-------------------------- MODULE ProbeModuleSetup --------------------------
(***************************************************************************)
(* The set-up of a probe module as the sender sees it: the static          *)
(* max_packet_length of the module's descriptor, what global_initialize    *)
(* (called by send_init) leaves in it, what prepare_packet (called by      *)
(* send_run before its first probe) writes into the packet template, and   *)
(* the length make_packet gives every probe.  Two modules: dns             *)
(* (module_dns.c), which computes max_packet_length in global_initialize,  *)
(* and ipv6_udp (send.c 560-1353), which computes it in prepare_packet.    *)
(*                                                                         *)
(* The ipv6_udp probe arguments are abstracted to their kind and length:   *)
(* [kind |-> k, len |-> n] stands for "k:..." with n characters after the  *)
(* colon (text, hex) or a file of n bytes (file).  The kinds "nocolon",    *)
(* "nofile" (fopen fails), "badhex" (a non-hex digit) and "unknown" (any   *)
(* other prefix) are the arguments the parser rejects.                     *)
(***************************************************************************)
EXTENDS Integers

CONSTANTS
    ProbeModules,     \* subset of {"dns", "ipv6_udp"}
    ProbeArgs,        \* the ipv6_udp --probe-args, abstracted
    DnsPayloadLen,    \* the longest DNS question packet, max_payload_len
    MAX_PACKET_SIZE   \* the size of a batch slot's buffer

ASSUME /\ ProbeModules \subseteq {"dns", "ipv6_udp"}
       /\ \A a \in ProbeArgs : a.len \in Nat
       /\ DnsPayloadLen \in Nat /\ MAX_PACKET_SIZE \in Nat

ETHER_HDR == 14
IP_HDR    == 20
IP6_HDR   == 40
UDP_HDR   == 8
Uint16    == 65536

MAX_UDP_PAYLOAD_LEN == 1472

\* strlen("GET / HTTP/1.1\r\nHost: www\r\n\r\n")
DefaultMsgLen == 29

\* .max_packet_length of module_dns (0, "set in init") and of
\* module_ipv6_udp (1).
StaticMaxPacketLength(m) == IF m = "dns" THEN 0 ELSE 1

\* dns_global_initialize: the longest question plus the Ethernet, IPv4
\* and UDP headers.
DnsMaxPacketLength == DnsPayloadLen + ETHER_HDR + IP_HDR + UDP_HDR

-----------------------------------------------------------------------------
(* ipv6_udp_global_initialize.                                             *)

\* The arguments that end in log_fatal (which exits).  "template" is read
\* and then refused: templates are not supported over IPv6.
Ipv6FatalKinds == {"nocolon", "nofile", "template", "badhex", "unknown"}

\* udp_send_msg_len as the argument sets it: the default message without
\* arguments, strlen of the text, what fread reads of the file (at most
\* MAX_UDP_PAYLOAD_LEN), half the hex digits (an odd last digit dropped).
Ipv6ReadLen(a) ==
    CASE a.kind = "none" -> DefaultMsgLen
      [] a.kind = "text" -> a.len
      [] a.kind = "file" -> IF a.len < MAX_UDP_PAYLOAD_LEN THEN a.len
                            ELSE MAX_UDP_PAYLOAD_LEN
      [] a.kind = "hex"  -> a.len \div 2

\* Mutant: the reduction to MAX_UDP_PAYLOAD_LEN left out.
ClampMsgLenMissing(n) == n

\* "reducing UDP payload to 1472 bytes to fit on the wire"
ClampMsgLen(n) == IF n > MAX_UDP_PAYLOAD_LEN THEN MAX_UDP_PAYLOAD_LEN ELSE n

\* The outcome of global_initialize for module m and argument a: "exit"
\* (template-fields prints the field list and exits), "fatal", or "ok"
\* with the message length and the max_packet_length it leaves.
GlobalInitialize(m, a) ==
    CASE m = "dns" ->
           [status |-> "ok", msgLen |-> 0, maxLen |-> DnsMaxPacketLength]
      [] a.kind = "template-fields" ->
           [status |-> "exit", msgLen |-> 0, maxLen |-> StaticMaxPacketLength(m)]
      [] a.kind \in Ipv6FatalKinds ->
           [status |-> "fatal", msgLen |-> 0, maxLen |-> StaticMaxPacketLength(m)]
      [] OTHER ->
           [status |-> "ok", msgLen |-> ClampMsgLen(Ipv6ReadLen(a)),
            maxLen |-> StaticMaxPacketLength(m)]

-----------------------------------------------------------------------------
(* prepare_packet and make_packet.                                         *)

\* ipv6_udp_prepare_packet: the uint16 payload_len of the IPv6 and UDP
\* headers, and the max_packet_length it sets (the assert compares it
\* with MAX_PACKET_SIZE).  dns_prepare_packet leaves max_packet_length.
PreparedUdpLen(m, msgLen) ==
    IF m = "dns" THEN 0 ELSE (UDP_HDR + msgLen) % Uint16
PreparedMaxLen(m, msgLen, maxLen) ==
    IF m = "dns" THEN maxLen ELSE ETHER_HDR + IP6_HDR + UDP_HDR + msgLen

\* *buf_len as make_packet sets it for the longest probe: the headers plus
\* udp_send_msg_len for ipv6_udp, the longest question for dns.
ProbeLength(m, msgLen) ==
    IF m = "dns" THEN DnsMaxPacketLength
    ELSE ETHER_HDR + IP6_HDR + UDP_HDR + msgLen

=============================================================================
