--------------------------- MODULE MC_DnsResponse ---------------------------
(* Replies crafted to reach every branch of the name decoder and of the    *)
(* record walk: compression pointers back, to a pointer, into the bytes    *)
(* past the datagram and to themselves; a label loop that fills the name   *)
(* buffer; a label cut short by the end of the section; every rdata type   *)
(* the answer parser distinguishes; counts larger than the records sent    *)
(* and bytes left over after the last record.                              *)
EXTENDS DnsResponse

\* A header with id 0, flags 0x8180 and the four counts.
Hdr(qd, an, ns, ar) == << 0, 0, 129, 128, 0, qd, 0, an, 0, ns, 0, ar >>
\* A label of n bytes, all 'a'.
Lbl(n) == << n >> \o [k \in 1..n |-> 97]
Ptr(o) == << PtrMark + o \div 256, o % 256 >>
QTail(t) == << 0, t, 0, 1 >>
ATail(t, rl) == << 0, t, 0, 1, 0, 0, 0, 60, rl \div 256, rl % 256 >>

\* "a.b" A?, answered by an A record under a pointer; one answer more is
\* announced than sent.
MsgA == Hdr(1, 2, 0, 0) \o << 1, 97, 1, 98, 0 >> \o QTail(1)
        \o Ptr(12) \o ATail(1, 4) \o << 1, 2, 3, 4 >>
\* A CNAME to "d" + pointer, an MX with preference and a compressed
\* exchange, and a TXT record under the root name.
MsgRdata == Hdr(1, 1, 1, 1) \o << 1, 99, 1, 98, 0 >> \o QTail(5)
        \o Ptr(12) \o ATail(5, 4) \o << 1, 100 >> \o Ptr(14)
        \o Ptr(14) \o ATail(15, 6) \o << 0, 10, 1, 101 >> \o Ptr(12)
        \o << 0 >> \o ATail(16, 3) \o << 2, 102, 102 >>
\* A short MX, an AAAA of the wrong length and an NS whose rdata is not
\* a name, after a question whose qtype the parser does not know.
MsgUnparsed == Hdr(1, 3, 0, 0) \o << 1, 97, 0 >> \o QTail(99)
        \o Ptr(12) \o ATail(15, 2) \o << 0, 1 >>
        \o Ptr(12) \o ATail(28, 4) \o << 1, 2, 3, 4 >>
        \o Ptr(12) \o ATail(2, 1) \o << 5 >>
\* An answer whose owner points to the pointer of the first answer.
MsgPtrToPtr == Hdr(1, 2, 0, 0) \o << 1, 97, 0 >> \o QTail(1)
        \o Ptr(12) \o ATail(1, 4) \o << 1, 2, 3, 4 >>
        \o Ptr(19) \o ATail(1, 4) \o << 1, 2, 3, 4 >>
\* An answer whose owner points to itself.
MsgPtrLoop == Hdr(1, 1, 0, 0) \o << 1, 97, 0 >> \o QTail(1)
        \o Ptr(19) \o ATail(1, 4) \o << 1, 2, 3, 4 >>
\* A question of a 62-byte label and a pointer back to it: every level of
\* recursion writes 63 characters until the buffer is full.
MsgLabelLoop == Hdr(1, 0, 0, 0) \o Lbl(62) \o Ptr(12) \o QTail(1)
\* A question whose only label runs to the end of the message.
MsgCutLabel == Hdr(1, 0, 0, 0) \o Lbl(3)
\* A question name with no qtype and qclass after it.
MsgNoTail == Hdr(1, 0, 0, 0) \o << 1, 97, 0 >>
\* An answer whose owner points past the DNS message, into the 8 bytes
\* the pointer bound still admits; two bytes of padding follow the answer.
MsgPastEnd == Hdr(1, 1, 0, 0) \o << 1, 97, 0 >> \o QTail(1)
        \o Ptr(37) \o ATail(1, 4) \o << 1, 2, 3, 4 >> \o << 0, 0 >>

MCMessages == { MsgA, MsgRdata, MsgUnparsed, MsgPtrToPtr, MsgPtrLoop,
                MsgLabelLoop, MsgCutLabel, MsgNoTail, MsgPastEnd }

\* A TXT answer with rdlength 0.
MsgEmptyTxt == Hdr(1, 1, 0, 0) \o << 1, 97, 0 >> \o QTail(16)
        \o Ptr(12) \o ATail(16, 0)

MCMessagesTxt == MCMessages \cup { MsgEmptyTxt }

\* Zeroed buffer bytes, or bytes that read as the name "x".
MCFills == { [k \in 1..8 |-> 0], << 1, 120, 0, 0, 0, 0, 0, 0 >> }
====
