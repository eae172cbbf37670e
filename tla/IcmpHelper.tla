----------------------------- MODULE IcmpHelper -----------------------------
(***************************************************************************)
(* How a probe module accepts an ICMP error that quotes one of its probes  *)
(* (icmp_helper_validate in src/src/probe_modules/packet.c) and then reads *)
(* the quoted probe out of it (fs_populate_icmp_from_iphdr, with the       *)
(* get_icmp_header and get_inner_ip_header helpers of packet.h).          *)
(*                                                                         *)
(* A reply is abstracted to the fields the checks read: the outer and the *)
(* quoted IPv4 header lengths in words (ip_hl, 0..15, as the 4-bit field   *)
(* arrives), the captured length, the ICMP type, and whether the quoted    *)
(* destination is allowed by the blocklist.  len is a uint32 and          *)
(* inner_packet_len a size_t: a difference that goes below 0 wraps to a    *)
(* value larger than any packet, which SizeMax stands for.                 *)
(***************************************************************************)
EXTENDS Integers

ICMP_HEADER_SIZE == 8
ICMP_UNREACH_HEADER_SIZE == 8
IP_HDR_SIZE == 20       \* sizeof(struct ip)
ICMP_STRUCT_SIZE == 28  \* sizeof(struct icmp) with glibc's headers

\* ICMP_UNREACH, ICMP_SOURCEQUENCH, ICMP_REDIRECT, ICMP_TIMXCEED: the errors
\* that quote the IP header and 8 bytes of the packet that caused them.
IcmpErrorTypes == {3, 4, 5, 11}

\* A size_t larger than every captured length.
SizeMax == 2147483647

\* a - b in unsigned arithmetic.
USub(a, b) == IF a >= b THEN a - b ELSE SizeMax

\* Mutant: the recheck of the quoted packet's length left out.
IcmpHelperValidateNoRecheck(ihl, len, minL4, type, innerIhl, allowed) ==
    /\ len >= 4 * ihl + ICMP_HEADER_SIZE + IP_HDR_SIZE + minL4
    /\ type \in IcmpErrorTypes
    /\ allowed

\* icmp_helper_validate(ip_hdr, len, min_l4_len, ...) = PACKET_VALID: the
\* reply holds an ICMP header and a quoted IP header with min_l4_len bytes
\* after it, it is one of the four errors, the quoted packet leaves room
\* for its own header length, and its destination is allowed.
IcmpHelperValidate(ihl, len, minL4, type, innerIhl, allowed) ==
    LET innerPacketLen == USub(len, 4 * ihl + ICMP_HEADER_SIZE) IN
    /\ len >= 4 * ihl + ICMP_HEADER_SIZE + IP_HDR_SIZE + minL4
    /\ type \in IcmpErrorTypes
    /\ innerPacketLen >= 4 * innerIhl + minL4
    /\ allowed

\* get_icmp_header(ip, len) does not return NULL.
GetIcmpHeaderOk(ihl, len) == 4 * ihl + ICMP_STRUCT_SIZE <= len

\* get_inner_ip_header(icmp, len) does not return NULL; it is given the
\* whole reply's len, not what is left after the outer header.
GetInnerIpHeaderOk(len) == len >= ICMP_UNREACH_HEADER_SIZE + IP_HDR_SIZE

\* fs_populate_icmp_from_iphdr(ip, len, fs): one of its assert(icmp) and
\* the dereference of ip_inner finds a NULL header.
FsPopulateIcmpFails(ihl, len) ==
    ~(GetIcmpHeaderOk(ihl, len) /\ GetInnerIpHeaderOk(len))

=============================================================================
