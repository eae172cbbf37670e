---------------------------- MODULE MC_Checksum ----------------------------
(* Payloads of up to four words drawn from values whose sums carry out of *)
(* 16 bits once, twice or not at all.  The addresses are chosen so that    *)
(* with some of those payloads the first carry fold of the pseudo-header   *)
(* checksums carries out of 16 bits again.                                 *)
EXTENDS Checksum

MCWords == {1, 32768, 65535}
MCBytes == {1, 255}
MCSrcAddr == << 65535, 65535 >>
MCDstAddr == << 65535, 62980 >>
MCSrc6 == << 65535, 65535, 0, 0, 0, 0, 0, 60167 >>
MCDst6 == << 65535, 65535, 0, 0, 0, 0, 65535, 65535 >>
====
