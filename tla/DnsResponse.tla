----------------------------- MODULE DnsResponse -----------------------------
(***************************************************************************)
(* The decoding of a DNS reply in src/src/probe_modules/module_dns.c: once *)
(* dns_process_packet has found a reply valid it walks the four sections   *)
(* of the message (lines 1072-1128), calling process_response_question and *)
(* process_response_answer for each record, which decode the owner name,   *)
(* and for NS, CNAME and MX answers the name in the rdata, with get_name / *)
(* get_name_helper, following compression pointers recursively.            *)
(*                                                                         *)
(* One reply is decoded per behaviour.  The payload the code indexes is    *)
(* the DNS message (udp_len - 8 bytes, header included) followed by the 8  *)
(* bytes past the datagram that the pointer bound payload_len = udp_len    *)
(* still admits; what those bytes hold depends on the capture buffer and   *)
(* is a nondeterministic choice.  Names are the byte sequences the code    *)
(* writes into its MAX_NAME_LENGTH buffer; rdata other than names is left  *)
(* out, only whether it is parsed is kept.                                 *)
(***************************************************************************)
EXTENDS Integers, Sequences, SequencesExt

CONSTANTS
    Messages,   \* DNS messages: byte sequences, 12-byte header included
    Fills       \* the 8 bytes that follow the datagram in the buffer

ASSUME /\ \A m \in Messages : m \in Seq(0..255) /\ Len(m) >= 12
       /\ \A f \in Fills : f \in Seq(0..255) /\ Len(f) = 8

MAX_LABEL_RECURSION == 10
MAX_NAME_LENGTH == 512
DnsHeaderLen == 12
QuestionTailLen == 4        \* sizeof(dns_question_tail): qtype, qclass
AnswerTailLen == 10         \* sizeof(dns_answer_tail): type, class, ttl, rdlength
UdpHdrPtrSize == 8          \* sizeof(udp_hdr), a pointer, on the LP64 builds
PtrMark == 192              \* 0xc0
Dot == 46                   \* '.'

\* dns_qtype values the answer parser distinguishes.
QTypeA == 1
QTypeNS == 2
QTypeCNAME == 5
QTypeMX == 15
QTypeTXT == 16
QTypeAAAA == 28

\* The byte at offset o of a buffer, and the 16-bit field there (ntohs).
Byte(p, o) == p[o + 1]
Word(p, o) == Byte(p, o) * 256 + Byte(p, o + 1)

-----------------------------------------------------------------------------
(* get_name_helper                                                         *)

\* What a call returns (bytes_consumed, 0 on failure), the characters it
\* wrote into the name buffer on the way, failed or not, and whether it
\* reached the assert(0) after the loop.
Res(n, w, f) == [n |-> n, name |-> w, fault |-> f]

\* Mutant: the room for the label checked without its terminating byte.
LabelFitsDataOffByOne(byte, dl) == byte <= dl

\* (byte + 1) > data_len fails: the label and one more byte must remain.
LabelFitsData(byte, dl) == byte + 1 <= dl

\* Mutant: the name buffer not checked before the memcpy.
LabelFitsNameUnchecked(byte, nl) == TRUE

\* byte > name_len fails: "Exceeded static name field allocation."
LabelFitsName(byte, nl) == byte <= nl

\* Mutant: a pointer counted as one byte.
PointerConsumedOne(bc) == bc + 1

\* bytes_consumed += 2 for the pointer that ends the name.
PointerConsumed(bc) == bc + 2

RECURSIVE GetNameHelper(_, _, _, _, _, _), NameLoop(_, _, _, _, _, _, _)

\* get_name_helper(payload + d, data_len, payload, payload_len, name,
\* name_len, recursion_level): the zero-length and recursion checks.
GetNameHelper(p, pl, d, dl, nl, lvl) ==
    IF dl = 0 \/ nl = 0 \/ pl = 0 \/ lvl > MAX_LABEL_RECURSION
      THEN Res(0, <<>>, FALSE)
      ELSE NameLoop(p, pl, d, dl, nl, lvl, 0)

\* One pass of its while loop at data offset d, with data_len dl, name_len
\* nl (a uint16_t) and bytes_consumed bc.
NameLoop(p, pl, d, dl, nl, lvl, bc) ==
  LET byte == Byte(p, d) IN
  IF dl = 0 THEN Res(0, <<>>, TRUE)
  ELSE IF byte >= PtrMark THEN
    LET offset == (byte % 4) * 256 + Byte(p, d + 1)
        dot == lvl > 0 \/ bc > 0
        ds == IF dot THEN <<Dot>> ELSE <<>>
        r == GetNameHelper(p, pl, offset, pl - offset, nl - Len(ds), lvl + 1)
    IN  IF dl < 2 \/ offset >= pl \/ (dot /\ nl < 1) THEN Res(0, <<>>, FALSE)
        ELSE Res(IF r.n = 0 THEN 0 ELSE PointerConsumed(bc), ds \o r.name, r.fault)
  ELSE IF byte = 0 THEN Res(bc + 1, <<>>, FALSE)
  ELSE
    LET dl1 == dl - 1
        ds == IF bc > 0 THEN <<Dot>> ELSE <<>>
        nl1 == nl - Len(ds)
        rest == NameLoop(p, pl, d + 1 + byte, dl1 - byte, (nl1 - byte) % 65536,
                         lvl, bc + 1 + byte)
    IN  IF ~LabelFitsData(byte, dl1) \/ (bc > 0 /\ nl < 1) THEN Res(0, <<>>, FALSE)
        ELSE IF ~LabelFitsName(byte, nl1) THEN Res(0, ds, FALSE)
        ELSE Res(rest.n, ds \o SubSeq(p, d + 2, d + 1 + byte) \o rest.name,
                 rest.fault)

\* get_name(data, data_len, payload, payload_len, &bytes_consumed): NULL
\* when bytes_consumed is 0.
GetName(p, pl, d, dl) == GetNameHelper(p, pl, d, dl, MAX_NAME_LENGTH - 1, 0)

\* A name decoding as the properties see it: where it started, where its
\* data_len ended, and what get_name returned.
Call(d, dl, g) == [at |-> d, end |-> d + dl, n |-> g.n, name |-> g.name,
                   fault |-> g.fault]

\* The rdata branch of process_response_answer for an answer of type t
\* whose rdlength bytes start at rd: whether rdata_is_parsed, whether the
\* code crashes, and the rdata name decoded, if any.
Rdata(p, pl, t, rd, rl) ==
    LET NoName == {}
        Named(d, dl) == LET g == GetName(p, pl, d, dl)
                        IN [parsed |-> g.n > 0, crash |-> FALSE,
                            calls |-> {Call(d, dl, g)}]
    IN CASE t \in {QTypeNS, QTypeCNAME} -> Named(rd, rl)
         [] t = QTypeMX /\ rl > 4      -> Named(rd + 2, rl - 2)
         [] t = QTypeTXT               ->
              \* memcpy(txt, rdata + 1, rdlength - 1): rdlength 0 makes the
              \* length (size_t)-1, a copy that runs off the heap.
              IF rl >= 1 /\ rl - 1 # Byte(p, rd)
                THEN [parsed |-> FALSE, crash |-> FALSE, calls |-> NoName]
                ELSE [parsed |-> TRUE, crash |-> rl - 1 < 0, calls |-> NoName]
         [] t = QTypeA                 -> [parsed |-> rl = 4, crash |-> FALSE, calls |-> NoName]
         [] t = QTypeAAAA              -> [parsed |-> rl = 16, crash |-> FALSE, calls |-> NoName]
         [] OTHER                      -> [parsed |-> FALSE, crash |-> FALSE, calls |-> NoName]

-----------------------------------------------------------------------------
(* The section walk of dns_process_packet.                                 *)

\* dns_questions, dns_answers, dns_authorities, dns_additionals; 5 is the
\* end of the walk.
Sections == 1..4
Done == 5

VARIABLES
    payload,    \* the bytes the parser may index from dns_hdr
    udpLen,     \* udp_len, the datagram's length with its UDP header
    pos,        \* data, as an offset from dns_hdr
    dataLen,    \* data_len, a uint16_t
    sec,        \* the section being walked, or Done
    i,          \* the loop index within it
    err,        \* err
    rrs,        \* the records added to the output lists
    calls,      \* every get_name call so far (for the properties)
    crashed     \* the process died in the parser

vars == <<payload, udpLen, pos, dataLen, sec, i, err, rrs, calls, crashed>>

\* qdcount, ancount, nscount, arcount: ntohs of the header words 2 to 5.
Count(s) == Word(payload, 2 + 2 * s)

\* A valid reply of udp_len = Len(m) + 8 bytes: data starts after the DNS
\* header and data_len = udp_len - sizeof(udp_hdr) - sizeof(dns_header).
Init ==
    /\ \E m \in Messages, f \in Fills :
         /\ payload = m \o f
         /\ udpLen = Len(m) + 8
    /\ pos = DnsHeaderLen
    /\ dataLen = (udpLen - UdpHdrPtrSize - DnsHeaderLen) % 65536
    /\ sec = 1
    /\ i = 0
    /\ err = FALSE
    /\ rrs = <<>>
    /\ calls = <<>>
    /\ crashed = FALSE

\* Mutant: only the name checked against data_len, not the tail after it.
QuestionFitsNameOnly(n, dl) == n <= dl

\* (bytes_consumed + sizeof(dns_question_tail)) > *data_len fails.
QuestionFits(n, dl) == n + QuestionTailLen <= dl

\* process_response_question: the name, then the qtype and qclass that must
\* follow it within data_len; on success the question joins the list and
\* data moves past it.
ProcessQuestion ==
    /\ sec = 1 /\ i < Count(1) /\ ~err
    /\ LET g == GetName(payload, udpLen, pos, dataLen)
           ok == g.n > 0 /\ QuestionFits(g.n, dataLen)
       IN /\ err' = ~ok
          /\ calls' = Append(calls, Call(pos, dataLen, g))
          /\ IF ok
               THEN /\ rrs' = Append(rrs, [sec |-> 1, name |-> g.name,
                                           type |-> Word(payload, pos + g.n),
                                           parsed |-> FALSE])
                    /\ pos' = pos + g.n + QuestionTailLen
                    /\ dataLen' = dataLen - g.n - QuestionTailLen
               ELSE UNCHANGED <<rrs, pos, dataLen>>
    /\ i' = i + 1
    /\ UNCHANGED <<payload, udpLen, sec, crashed>>

\* *data_len - bytes_consumed - sizeof(dns_answer_tail) - rdlength
AnswerDataLen(dl, n, rl) == dl - n - AnswerTailLen - rl

\* process_response_answer for an answer, authority or additional record:
\* the owner name, the fixed tail and the rdlength bytes of rdata must fit
\* in data_len; then the rdata is parsed by type and data moves past it.
ProcessAnswer ==
    /\ sec \in 2..4 /\ i < Count(sec) /\ ~err
    /\ LET g == GetName(payload, udpLen, pos, dataLen)
           t == pos + g.n
           rl == Word(payload, t + 8)
           fits == /\ g.n > 0
                   /\ g.n + AnswerTailLen <= dataLen
                   /\ rl + g.n + AnswerTailLen <= dataLen
           rd == Rdata(payload, udpLen, Word(payload, t), t + AnswerTailLen, rl)
       IN IF ~fits
            THEN /\ err' = TRUE
                 /\ calls' = Append(calls, Call(pos, dataLen, g))
                 /\ UNCHANGED <<rrs, pos, dataLen, crashed>>
            ELSE /\ calls' = Append(calls, Call(pos, dataLen, g))
                           \o SetToSeq(rd.calls)
                 /\ crashed' = rd.crash
                 /\ rrs' = Append(rrs, [sec |-> sec, name |-> g.name,
                                        type |-> Word(payload, t),
                                        parsed |-> rd.parsed])
                 /\ pos' = t + AnswerTailLen + rl
                 /\ dataLen' = AnswerDataLen(dataLen, g.n, rl)
                 /\ UNCHANGED err
    /\ i' = i + 1
    /\ UNCHANGED <<payload, udpLen, sec>>

\* A section's loop ends when its count is reached or a record failed.
NextSection ==
    /\ sec \in 1..3
    /\ i >= Count(sec) \/ err
    /\ sec' = sec + 1
    /\ i' = 0
    /\ UNCHANGED <<payload, udpLen, pos, dataLen, err, rrs, calls, crashed>>

\* After the additionals: unconsumed data is a parse error.
Finish ==
    /\ sec = 4
    /\ i >= Count(sec) \/ err
    /\ sec' = Done
    /\ err' = (err \/ dataLen # 0)
    /\ UNCHANGED <<payload, udpLen, pos, dataLen, i, rrs, calls, crashed>>

\* A crash ends the process: nothing follows it.
Next ==
    /\ ~crashed
    /\ \/ ProcessQuestion
       \/ ProcessAnswer
       \/ NextSection
       \/ Finish

Spec == Init /\ [][Next]_vars
-----------------------------------------------------------------------------
(* The reference: RFC 1035 section 4.1.4 decoding of a compressed name.    *)

\* The DNS message itself, without the bytes past the datagram.
Msg == SubSeq(payload, 1, udpLen - 8)

RefBad == [ok |-> FALSE, labels |-> <<>>, len |-> 0]

\* A pointer's target starts with a label, not with a pointer or the root.
StartsWithLabel(m, t) == t < Len(m) /\ Byte(m, t) \in 1..63

\* The name encoded at offset o of m, whose in-place encoding must end
\* before end: its labels, and the bytes it takes in place.  Labels are at
\* most 63 bytes, pointers go back to a label of the message, and at most
\* MAX_LABEL_RECURSION of them are followed; anything else is not decoded.
RECURSIVE RefDecode(_, _, _, _)
RefDecode(m, end, o, hops) ==
    IF o >= end THEN RefBad
    ELSE LET b == Byte(m, o) IN
      CASE b = 0 -> [ok |-> TRUE, labels |-> <<>>, len |-> 1]
        [] b >= PtrMark ->
             IF o + 1 >= end THEN RefBad
             ELSE LET t == (b % 64) * 256 + Byte(m, o + 1)
                  IN  IF t >= o \/ hops >= MAX_LABEL_RECURSION
                         \/ ~StartsWithLabel(m, t)
                        THEN RefBad
                        ELSE [RefDecode(m, Len(m), t, hops + 1) EXCEPT !.len = 2]
        [] b <= 63 ->
             IF o + b + 1 >= end THEN RefBad
             ELSE LET r == RefDecode(m, end, o + b + 1, hops)
                  IN  [r EXCEPT !.labels = <<SubSeq(m, o + 2, o + b + 1)>> \o @,
                                !.len = 1 + b + @]
        [] OTHER -> RefBad

\* The presentation form: the labels joined by dots.
DottedName(ls) ==
    IF ls = <<>> THEN <<>>
    ELSE FoldLeft(LAMBDA a, l : a \o <<Dot>> \o l, Head(ls), Tail(ls))

-----------------------------------------------------------------------------
(* Properties.                                                             *)

TypeOK ==
    /\ payload \in Seq(0..255)
    /\ udpLen = Len(payload)
    /\ pos \in DnsHeaderLen..udpLen /\ dataLen \in 0..65535
    /\ sec \in 1..Done /\ i \in Nat
    /\ err \in BOOLEAN /\ crashed \in BOOLEAN
    /\ rrs \in Seq([sec : Sections, name : Seq(0..255), type : 0..65535,
                    parsed : BOOLEAN])

\* get_name_helper never falls out of its loop into assert(0): each label
\* check leaves at least one byte for what follows, so the loop always
\* ends at a pointer, a null byte or an error, whatever the reply holds.
NoAssertFailure == \A k \in DOMAIN calls : ~calls[k].fault

\* No get_name call writes more than MAX_NAME_LENGTH - 1 characters into
\* its buffer, on the paths that fail included: the labels and dots that
\* pointer chains and pointer loops add up over the recursion levels stay
\* within the buffer, leaving the final byte for the terminator that
\* get_name asserts.
NameWithinBuffer ==
    \A k \in DOMAIN calls : Len(calls[k].name) <= MAX_NAME_LENGTH - 1

\* Every name that RFC 1035 decodes (pointers back to a label, at most
\* MAX_LABEL_RECURSION of them) get_name decodes to the same dotted name,
\* consuming exactly its in-place encoding, so the parser stays aligned on
\* the record that follows.
NamesDecodeAsRFC ==
    \A k \in DOMAIN calls :
        LET c == calls[k]
            r == RefDecode(Msg, c.end, c.at, 0)
        IN  r.ok => c.n = r.len /\ c.name = DottedName(r.labels)

\* A reply never crashes the process while its records are parsed.
NoCrash == ~crashed

====
