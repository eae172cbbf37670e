# TLA+ models of the ZMap sender and probe modules

This directory holds TLA+ models of the sources under `src/`: the scan engine's sender
threads (`src/src/send.c`), the IPv6 UDP probe module (appended to the same file), the
DNS probe module with the probe-module registry (`src/src/probe_modules/module_dns.c`),
and the packet helpers (`packet.h`, `packet.c`). Each model is checked with TLC.
The cyclic-group iterator, the shards, the receiver and the monitor are described by
`spec.md` but not present in `src/`. Where the models need them they are reduced to
what the sender sees of them.

## Inventory

| Part | Source | State | Operations | Hard behaviour |
|---|---|---|---|---|
| Sender threads | `send.c` 215-543 `send_run` | per thread: current target, shard position, batch, `packets_sent`, `packets_failed`, `targets_scanned`; shared: `send_mutex`, `zrecv.complete` | lock and init (may fail), first target, stop checks, probe streams into the batch, `send_batch` or dry-run print, advance with list-of-IPs skip or from the IPv6 target file, cleanup flush and callback | threads racing on the mutex and on the stop flags; partial `send_batch` results; skip loops over the shard; the final flush |
| Rate controller | `send.c` 55-69, 263-302, 338-386 | `zconf.rate` (shared, written by signal handlers), per thread `delay`, `sleep_time`, `count`, `interval` | SIGUSR1/SIGUSR2 (±5% with int truncation), spin-mode measurement, sleep-mode EMA | integer truncation to 0, division by a rate below the sender count, a signal ignored by the sleep mode |
| Sender set-up | `send.c` 72-203 `send_init` | `zconf.rate`, `zconf.bandwidth`, subshard checks | rate and bandwidth exclusive, bandwidth to rate, default rate, negative rate fatal, signal handlers installed | rounding to 0, minimum frame size, a uint32 quotient that becomes rate 0 (unlimited), signals before the handlers exist |
| DNS probe module | `module_dns.c` 1-1224 | per-question packets and lengths, qtype string map | global init, make_packet (question chosen by probe number), validate_packet, process_packet, get_name_helper | the qtype map initialised only at index 0, a qtype/qclass check that compares the query with itself, UDP length arithmetic that wraps, recursive name decoding with a depth limit |
| DNS reply decoding | `module_dns.c` 208-575, 1076-1123 | the reply's bytes, `data`, `data_len`, `err`, the output lists | `get_name_helper` (recursive), `get_name`, `process_response_question`, `process_response_answer`, the section loops | compression pointers and loops, one name buffer shared by every recursion level, rdata lengths of 0 |
| IPv6 UDP probe module | `send.c` 560-1353 | payload message and its length, `max_packet_length`, source port range | global_initialize (probe arguments), prepare_packet, make_packet, validate_packet, process_packet (UDP reply or ICMPv6 error) | a `max_packet_length` set only after `send_init` has used it, a 16-bit length, a payload bound sized for IPv4, a zero checksum, a data length clamped by wrapping bounds |
| Packet helpers | `packet.h`, `packet.c` | none (pure functions) | `in_checksum`, `tcp_checksum`, `ipv6_payload_checksum`, `check_dst_port`, `get_src_port`, `icmp_helper_validate`, `fs_populate_icmp_from_iphdr`, header builders and printers | carry folding, port windows that wrap, a quoted header length chosen by the responder |
| Iterator, shards, receiver, monitor, transport | not in `src/` | described in `spec.md` | | the sender sees a shard as a finite sequence of disjoint targets, the receiver as the `zrecv.complete` flag, and the transport as `send_batch` results |

How the parts interact: the orchestrator starts `zconf.senders` threads, each with its own
shard. A thread asks the probe module (DNS or IPv6 UDP) to build each probe into a batch
slot. It hands full batches to `send_batch`. Signal handlers change `zconf.rate` under the
running controllers. The receiver validates each reply with the probe module's
`validate_packet` and classifies it with `process_packet`. It sets `zrecv.complete` when the
cooldown ends, and the senders stop on that flag.

## Modules

### SendRun (`SendRun.tla`, `MC_SendRun.tla`)

This module models `send_run`, one process per sender thread.

- `pc` follows the thread through the function:
  - `idle` → `init` (holding `send_mutex`);
  - then `failed` or `start`;
  - `start` → `loop` ↔ `stream` → `cleanup` → `done`.
- Each action is one stretch of straight-line code between two points where another thread
  or the environment can matter:
  - `Lock` (218-220), `InitFail` (222-226), `InitOk` (228-260), `Start` (304-337);
  - `StopSending` and `BeginTarget` (the five stop checks 388-421);
  - `SendProbe` (one iteration of the `packet_streams` loop, with the batch flush in both
    dry-run and real mode, 422-486);
  - `AdvanceTarget` (488-519, the list-of-IPs skip loop included), `Cleanup` (521-543);
  - in an IPv6 scan, `StartIpv6` (310-318) and `AdvanceTargetIpv6` (488-497) in place of
    `Start` and `AdvanceTarget`: both read the next line of the target file (`ReadTarget`)
    and go to cleanup when there is none.
- The IPv6 target file is one sequence of addresses shared by all threads, with one cursor
  `fileLine`. Its reader (`ipv6_target_file.c`) is not in `src/`; `spec.md` says the code
  "serializes on a single file reader", so a read is one atomic step. `fileEnd` records the
  threads whose read failed.
- The shard is a finite sequence of `[ip, port]` targets per thread.
  - `pos` is its position, and `pos > Len(shard)` is `ZMAP_SHARD_DONE`.
  - The MC module enumerates every split of three targets between two threads, in every
    order. The shards are disjoint, as the iterator guarantees.
- `send_batch` is modelled by its results: -1, or any number of packets accepted from 0 to
  the batch length.
- Ghost variables:
  - `emitted` counts packets the transport accepted (or dry-run printed);
  - `probes` records every probe built.
- The environment may set `zrecv.complete` or let the max-runtime clock expire at any time.
- Fairness: weak fairness per sender thread. These are OS threads, which the scheduler
  keeps running. Nothing obliges the receiver or the clock to act.

Runs:

- `sender` (pass, `MC_SendRun.cfg`): two threads, three targets on one port, a list of
  IPs without address 2, `packet_streams = 2`, batches of 3, a packet budget of 3 for
  thread 1 and a target budget of 2 for thread 2. The budgets make both budget stops fire.
  With 3 packets and 2 streams the packet budget overshoots. Dry-run, list mode,
  max-runtime and init failure are all enabled. The same run also covers IPv6 scans over a
  three-line target file (the shard and the IPv4 list play no part there, so one choice of
  them stands for all).
  - `BatchWithinCapacity`: a batch never overruns its capacity.
  - `FlushAccounting`: every counted packet is failed, accepted or still in the batch.
  - `ProbesOnOwnListedTargets`: probes go only to the thread's own (listed) targets.
  - `NoDuplicateProbe`: no probe to a real address is built twice.
  - `PacketBudget`: a thread overshoots `max_packets` by less than `packet_streams`.
  - `CallbackAfterInit`: an initialised thread always runs its callback.
  - `FileCoverage`: when every thread returned because the IPv6 target file ran out, every
    address in the file was probed. The threads read from the file in any interleaving.
  - `ScanRefinement`: the threads implement the abstract shard walk `SenderScan` (below).
- `sender_coverage` (violation of `ShardCoverage`): the first target of a shard is never
  probed, because `current_ip` starts at 0 (send.c:319).
- `sender_list_port` (violation of `NoDuplicateProbe`): the skip loop keeps the port of a
  skipped candidate (send.c:509). The run uses two ports and a fixed pair of shards.

Three targets and two threads are enough to show these cases:

- a first target, a skipped unlisted target and a last target;
- a batch that fills (3 slots, 2 probes per target) and one left partial at cleanup;
- two threads that can both claim the same probe.

The model also contains two behaviours that no run checks any longer (they are listed as
hazards): the cleanup flush's shortfall is never added to `packets_failed` (send.c:522),
and a thread whose `send_run_init` fails returns without its shard callback (send.c:225).

### SenderScan (`SenderScan.tla`)

This module is the abstract specification of what a sender thread promises about its probes.
It has no batches, budgets, locks or stop conditions. Each thread does the following:

- it walks its own shard forwards;
- it probes each target it reaches with probe numbers `0 .. packet_streams - 1`, in order
  and back to back;
- in list mode it probes only listed targets;
- it reports completion (`Finish`) only between two targets.

A thread may stop early and may skip targets. It must never go back, repeat a target, leave a
target half probed, or probe after it reported. `SendRun` instantiates it with
`INSTANCE SenderScan WITH`. The refinement mapping has two parts:

- a thread's probes to real addresses (`SelectSeq` drops the probes to 0.0.0.0 of the first
  pass);
- `cbDone` as the set of finished threads.

The run then checks `Scan!Spec` as the property `ScanRefinement`. The stop checks run once
per target. The code's comment at send.c:397 says "before sending each packet"; a mutant that
stops there breaks the refinement, because it leaves a target half probed. An IPv6 scan walks
no shard, so there the mapping keeps no probes. `FileCoverage` and `NoDuplicateProbe` cover
that case instead.

### RateControl (`RateControl.tla`, `MC_RateControl.tla`)

This module models the rate controller of one sender thread (`send.c` 263-302 and 338-386)
and the SIGUSR1/SIGUSR2 handlers that change `zconf.rate` under it (55-69). It starts from
`send_init`: the call of the probe module's `global_initialize` (106-116), then the rate
part (117-163, 196-199), which turns the command line into `zconf.rate`. It includes the
part of `send_run` before the first probe: `prepare_packet` (251-260) and the length check
on the probes (446-455). `ProbeModuleSetup` gives the probe modules' side.

- `ProbeGlobalInit` is `global_initialize` for the chosen module (`ProbeModules`). It fails
  (`fatal`), exits after listing the template fields (`exit`), or leaves the module's
  `max_packet_length` and the ipv6_udp message length.

- `SendInit` is that part of `send_init`, from the command-line `rate` (`RateArgs`, -1 when
  unset) and a bandwidth chosen from `Bandwidths`:
  - a rate and a bandwidth together are fatal (`mode` becomes `fatal`, a state with no
    successor: the process has exited, so the runs do not check deadlock);
  - a bandwidth becomes `bandwidth / pkt_len`, where `FrameBits` is the probe's
    `max_packet_length` plus 24 bytes of framing, floored at an 84-byte frame, and a
    quotient of 0 is raised to 1 pkt/s (`BandwidthRate`);
  - an unset rate becomes `DefaultRate` (10000 pps), and a negative one is fatal.
  - The uint32 check on the quotient, and the conversion of a large quotient to int, are
    not modelled: TLC's integers are 31 bits, and the bandwidths of the model give
    quotients far below that. Both are listed as hazards.
- The signal handlers exist only once `send_init` has installed them
  (`HandlersInstalled`).
- `StartController` first runs `prepare_packet`. For ipv6_udp this sets the 16-bit
  `payload_len` and `max_packet_length`, and asserts the latter fits `MAX_PACKET_SIZE`.
  `NDEBUG` builds leave the assert out, so the model takes both builds. A probe longer
  than `MAX_PACKET_SIZE` then ends the scan at send.c:449 (`oversize`).

- Time is counted in ticks. One pass of the send loop costs the busy-wait or the sleep,
  plus the work of building and sending the target's probes.
  - The environment chooses the work from `Works`: normal work, or a stall (a blocked
    send, a descheduled thread).
  - With these durations the observed rates are exact rationals, and the model keeps the
    code's integer truncations.
- `mode` is then `start`, `sleep`, `spin` or `unlimited`:
  - `StartController` computes the initial `sleep_time` or `delay`. A rate of 0 means no
    pacing at all (send.c:279), the `unlimited` mode;
  - `SleepPace` is the EMA update of `sleep_time`;
  - `SpinPace` is one measured spin-mode adjustment, with the doubling/halving nudge and
    the floor at 1;
  - `SigIncrease` and `SigDecrease` are the ±5 % handlers, with truncation to int.
- A rate below `zconf.senders` makes the spin multiplier's divisor 0. The conversion of the
  infinite result to `uint32` is undefined; the model takes both outcomes the x86-64 builds
  give (0 and all ones). TLC's largest integer, 2^31 - 1, stands for the all-ones value.
- Only one thread is modelled: the others share only `zconf.rate`, which the signals
  already change at any time.
- Fairness: weak fairness of the controller. The thread runs its loop while the scan
  lasts. Signals and stalls come from outside and need not happen.

Runs:

- `rate` (pass): command-line rates unset, 0, 1000 and 4400 pps, each with no bandwidth,
  with 100 bit/s (below one 84-byte frame per second, so raised to 1 pkt/s) and with
  672000 bit/s (1000 pps). The dns probe is 58 bytes long, so the frame floor applies.
  The ipv6_udp module runs with eight probe arguments: none, texts of 1 and 5000 bytes,
  9 hex digits, a 2000-byte file, `template-fields`, a missing colon, and a template. This
  reaches both fatal exits' checks, the unlimited mode, sleep mode at 1 and 1000 pps, and
  spin mode at 4400 and 10000 pps. Up to three signals; stalls longer than the spin
  period but shorter than the sleep period.
  - `SleepWithinPeriod`: `sleep_time` never exceeds the target period.
  - `AcceptedConfigNeverFails`: a configuration that `send_init` accepted never ends the
    scan through the assert or the oversize check. For ipv6_udp the probe arguments
    include a 5000-byte text, so this rests on the reduction to 1472 bytes (send.c:770).
    Its mutant removes that reduction.
  - `RateLimitRestored`: once the stalls end for good, pacing comes back and stays.
  - `SpinFollowsRate`: once the stalls end for good, every spin-mode pass (busy wait plus
    work) lasts between half and twice the period that the current `zconf.rate /
    zconf.senders` asks for. Spin mode reads `zconf.rate` at every measurement
    (send.c:364), so the bound holds after any signals. Its mutant measures against
    the rate `send_run` started with, as sleep mode does (send.c:271). That mutant
    fails once three SIGUSR1 signals have raised the rate by 16%.
  - The rate 4400 is chosen on purpose. When `delay *= multiplier` truncates back to the
    old delay, the code doubles or halves it (send.c:368), so for most rates the
    controller never settles. At 4400 pps it cycles between 6 and 12 iterations, and a
    pass takes up to 1.8 times the period. 4000 pps would have hidden this: there the
    delay settles at 7, a pass of exactly one period.
- `rate_sleep_stall` (violation of `RateLimitRestored`): a sleep-mode thread whose passes
  stall for longer than its period truncates `sleep_time` to 0. The EMA multiplies 0 by
  anything and keeps it there, so the thread is never paced again (send.c:345). Spin mode
  guards against exactly this with its floor at 1 (send.c:374-379).

### ProbeModuleSetup (`ProbeModuleSetup.tla`)

This module holds the operators for the part of a probe module that the sender depends on.
It has no variables; RateControl holds the state.

- `StaticMaxPacketLength` is the descriptor's initial `max_packet_length`: 0 for dns,
  1 for ipv6_udp (send.c:1335).
- `GlobalInitialize` is what `global_initialize` leaves:
  - dns: `max_packet_length` is the longest question plus 42 bytes of headers
    (module_dns.c:702);
  - ipv6_udp: the message length from the probe arguments (`Ipv6ReadLen`), reduced to
    1472 bytes (`ClampMsgLen`), or a fatal or exiting argument (`Ipv6FatalKinds`,
    `template-fields`).
  - Probe arguments are abstracted to their kind and length.
- `PreparedUdpLen` and `PreparedMaxLen` are `ipv6_udp_prepare_packet`'s uint16
  `payload_len` and `max_packet_length`.
- `ProbeLength` is the `*buf_len` of `make_packet`.

What the composition shows without a run: ipv6_udp sets `max_packet_length` only in
`prepare_packet`, after `send_init` has converted a bandwidth with it. With ipv6_udp and a
bandwidth, the rate run reaches a state where 672000 bit/s became 1000 pps of 91-byte
probes, which is 920000 bit/s. This is listed as a hazard (send.c:126).

### DnsModule (`DnsModule.tla`, `MC_DnsModule.tla`)

This module models `module_dns.c`:

- the question packets built at start-up (`build_global_dns_packets`);
- `dns_make_packet`'s choice of question by probe number
  (`get_dns_question_index_by_probe_num`);
- the receiver's `dns_validate_packet` and `dns_process_packet` classification.

Names are abstract:

- A configured domain is a model value with the length of its encoded qname.
- A reply is a record of exactly the fields the module reads:
  - the id;
  - the qname's first 16 bytes (the configured ones, the target's address, or others)
    and the rest of it;
  - the qtype and qclass;
  - the UDP length, and whether the capture holds all of it;
  - `qr` and `rcode`.
- An ICMP error is a record of the outer and the quoted IP header lengths (`ip_hl`, 5 or
  15 words), the captured length and the ICMP type, and whether the quoted destination
  and ports pass `udp_do_validate_packet`. The checks on it come from `IcmpHelper`.
- A UDP reply with the wrong ports is one more record, which validation drops.

State and actions:

- `MakePacket(n)` records the question of probe `n`.
- `Receive(r)` runs validation and, for a valid reply, the classification, and stores the
  record written. Handling a reply keeps no state, so each behaviour follows one reply.
  The runs disable deadlock checking, because a behaviour ends once the probes are built
  and its reply handled.
- `dns_global_initialize` refuses a probe count that is not a multiple of the number of
  questions; the module assumes it.

Runs:

- `dns` (pass): two questions ("A" and "AAAA", with the 16-byte address placeholders
  `dnsippadding` overwrites), four probes, padding on or off, and every reply over the
  fields above (about 4,400 replies, 96 of them ICMP errors).
  - `MatchAssertHolds`: `dns_process_packet`'s `assert(match > 0)` holds on whatever
    validation lets through.
  - `EchoAccepted`: a resolver's echo of any probe's question is classified a success.
  - `IcmpQuoteWithinReply`: an ICMP error that is recorded quotes the probe's whole IP
    header, at the length its own `ip_hl` gives, and the 8-byte UDP header behind it,
    all inside the capture. `MatchAssertHolds` also covers the ICMP branch: the asserts
    of `fs_populate_icmp_from_iphdr` hold on every ICMP error validation accepts.
  - ICMP lengths are 55, 56, 95, 96, 135 and 136. These are the three thresholds that
    the two checks of `icmp_helper_validate` compute for header lengths 5 and 15, and
    one byte less than each.
- `dns_qtype` (violation of `SuccessEchoesQuestion`): `tail_p` points into
  `dns_packets[i]`, the query itself, so the qtype/qclass check always holds. A reply with
  any qtype or qclass is a success (module_dns.c:1013).
- `dns_udp_len` (violation of `SuccessWithinReply`): `udp_len` includes the 8-byte UDP
  header but is compared with `dns_packet_lens[i]`, which does not. A reply 8 bytes too
  short to hold the question is accepted (module_dns.c:946, 1000).

### IcmpHelper (`IcmpHelper.tla`)

Pure operators for how a probe module accepts an ICMP error that quotes one of its
probes (packet.c, packet.h):

- `IcmpHelperValidate` is `icmp_helper_validate`. It checks three things:
  - the reply has room for the outer header, the ICMP header, a 20-byte quoted header
    and `min_l4_len`;
  - the ICMP type is one of the four errors;
  - the rest of the reply, `inner_packet_len`, has room for the quoted header at its own
    `ip_hl` and `min_l4_len`. This is a size_t difference, and `USub` models its wrap.
- `GetIcmpHeaderOk` and `GetInnerIpHeaderOk` are the NULL checks of `get_icmp_header`
  and `get_inner_ip_header`.
- `FsPopulateIcmpFails` is the case where `fs_populate_icmp_from_iphdr` finds a NULL
  header.

`udp_do_validate_packet` lives in module_udp.c, which is not among the sources. The model
takes it from `spec.md`: `DnsModule.UdpDoValidateIcmp` calls `icmp_helper_validate` with
the size of a UDP header, then compares the quoted ports. The `dns` run checks these
operators through `DnsModule`.

### DnsResponse (`DnsResponse.tla`, `MC_DnsResponse.tla`)

This module models what `dns_process_packet` does with a valid reply's DNS message
(module_dns.c 1076-1123): the four section loops over `qdcount`, `ancount`, `nscount` and
`arcount`, each calling `process_response_question` (382-427) or
`process_response_answer` (429-575) until the count is reached or a record fails, then the
unconsumed-bytes check.

- The payload is the DNS message (header included) followed by 8 more bytes. The code
  bounds pointers by `payload_len = udp_len`, which counts the UDP header although
  `payload` starts at the DNS header, so those 8 bytes past the datagram can be read. What
  they hold depends on the capture buffer; `Fills` offers zeros or the bytes of a name.
- `get_name_helper` and its `while` loop are two mutually RECURSIVE operators
  (`GetNameHelper`, `NameLoop`). Each one returns:
  - `bytes_consumed`;
  - the characters written into the 512-byte name buffer, also on paths that fail;
  - whether the loop fell through to `assert(0)`.

  `name_len` is a `uint16_t` and keeps its width.
- `Rdata` is the rdata branch for each type:
  - NS and CNAME decode a name;
  - MX with `rdlength > 4` decodes a name after the preference;
  - TXT checks its length byte;
  - A and AAAA check their length;
  - anything else is left unparsed.

  Only whether the rdata is parsed is kept. The formatting (MX preference, `inet_ntoa`)
  is left out.
- The actions are `ProcessQuestion`, `ProcessAnswer` (answers, authorities and
  additionals), `NextSection` (the `for` condition `i < count && !err`) and `Finish`.
  `calls` records every `get_name` call for the properties.
- `RefDecode` is the reference: RFC 1035 §4.1.4 decoding, with 14-bit pointers to an
  earlier label and at most `MAX_LABEL_RECURSION` hops.

Runs:

- `dns_parse` (pass): nine crafted replies, each with both fills.
  - The replies: a compressed A answer with an over-announced count; CNAME, MX and TXT
    answers; unparsed rdata; a pointer to a pointer; a pointer to itself; a 62-byte label
    looping through a pointer (it fills 504 of the 511 characters); a label cut by the end
    of the message; a question without its tail; a pointer past the datagram.
  - `NoAssertFailure`: `get_name_helper` never reaches `assert(0)`.
  - `NameWithinBuffer`: no call writes more than 511 characters.
  - `NamesDecodeAsRFC`: every RFC-decodable name gives the RFC's dotted name and in-place
    length.
- `dns_txt_crash` (violation of `NoCrash`): a TXT answer with `rdlength` 0 fails the
  guard `rdlength >= 1 && ...`, so the else branch runs `memcpy(txt, rdata + 1,
  rdlength - 1)` with a length of `(size_t)-1`. One such reply crashes the scanner
  (module_dns.c:528).

What the parse shows beyond the runs, listed as hazards:

- A pointer reached before any label at recursion level 1 or deeper adds a dot. A pointer
  to a pointer decodes to ".a", and a pointer to the root name leaves a trailing dot
  (module_dns.c:258). `NamesDecodeAsRFC` constrains only pointers to labels.
- The pointer offset keeps 2 bits of the first byte (`byte & 0x03`), so offsets of 1024
  and more are misread (module_dns.c:244). The crafted messages are shorter than that, and
  replies to zmap's queries, which carry no EDNS option, stay within 512 bytes.
- `data_len` is computed with `sizeof(udp_hdr)`, the size of a pointer, and wraps for a
  `udp_len` under 20 (module_dns.c:1079). The model fixes the LP64 size of 8.

### Checksum (`Checksum.tla`, `MC_Checksum.tla`)

This module models the pure helpers of `packet.h` as operators:

- `in_checksum` and `in_icmp_checksum` (one carry fold), used by `zmap_ip_checksum` for
  every IP header;
- `tcp_checksum` and `ipv6_payload_checksum` (pseudo header, two folds);
- `get_src_port` and `check_dst_port`.

How they are checked:

- The state is a payload built word by word (`AppendWord`, `AppendOddByte`) together with
  a scan's port configuration.
- Each invariant compares the code's result on the current payload with the RFC 1071
  checksum, computed independently by end-around-carry addition.
- Words are host-order reads on a little-endian machine, so `htons` swaps bytes.
- The word values are chosen so that sums carry out of 16 bits once or twice. The
  addresses are chosen so that the pseudo-header sums reach the case where the first fold
  carries again.

Runs:

- `checksum` (pass):
  - `PseudoChecksumsCorrect`: `tcp_checksum` and `ipv6_payload_checksum` are correct.
  - `PortWindowExact`: for 1 to 5 source ports and up to as many probes per target,
    `check_dst_port` accepts exactly the probes' ports, the wrapped window included.
- `checksum_single_fold` (violation of `InChecksumCorrect`): the words 0x0001, 0xFFFF,
  0xFFFF sum to 0x1FFFF. One fold gives 0x10000, whose carry the cast drops, so the
  checksum is 0xFFFF instead of 0xFFFE (packet.h:89).

## Not modelled

What is left out, and why:

- **Iterator and shards** (spec.md 4.2 and 4.3; shard.c and cyclic.c are not in `src/`).
  `SendRun` takes a shard as any finite sequence of disjoint targets, which covers every
  shard the iterator can produce.
  - A model of the iterator written from `spec.md` would check the specification against
    itself, not this code.
  - Working it by hand shows one thing such a model would find. Section 4.2 ends a shard
    when its exponent returns to its start. With stride D = S·T, a shard then visits
    (p-1)/gcd(D, p-1) exponents. Whenever D does not divide p-1, shards whose offsets
    differ by a multiple of gcd(D, p-1) visit the same exponents. Example: p = 7 with
    S = T = 2 gives D = 4, and the shards with offsets 0 and 2 both visit e0, e0+2 and
    e0+4.
  - This contradicts the guarantee of section 3 that every index is visited by exactly
    one shard. The counting rule of section 3 (output k belongs to shard k mod S·T) does
    not have this problem.
- **Receiver, seen-set, cooldown, monitor, transport, validation PRF, blocklist, output,
  CLI**: not in `src/`. The sender sees them as the `zrecv.complete` flag, the results
  of `send_batch`, and a boolean "allowed" in replies.
- **IPv6 UDP make, validate and process** (send.c 829-988). Two hazards are listed for
  them: the zero checksum (send.c:872) and the data-length clamp (send.c:915).
  - Both are defects. A property about either would be a violation run, and all twelve
    run slots hold findings already.
  - What the rest of the scan depends on, namely the probe's length,
    `max_packet_length` and the payload length, is modelled in `ProbeModuleSetup`.
- **DNS argument parsing, the qtype name table, the field-set output, the probe-module
  registry, header writers and printers**: string handling and formatting. No property
  tells their states apart.
- **Wider integers**: TLC's integers are signed 32-bit. The uint32 wrap of
  `validation[1] + i` (packet.h:200) and bandwidth quotients above 2^31 (send.c:137) are
  listed as hazards without a property.
- **Long signal sequences**: reaching a rate below `zconf.senders` takes over a hundred
  SIGUSR2 signals (send.c:66). The rate run stops at three, where every other case the
  controller has is already reached.

## Plan

Done: `SendRun` (IPv4 shards and the IPv6 target file), its abstract specification
`SenderScan`, `RateControl` with `ProbeModuleSetup` (send_init and the probe modules'
set-up), `DnsModule` with `IcmpHelper` (ICMP errors), `DnsResponse`, `Checksum`, with the 12 runs above.

Still to do, most important first:

1. The port window when `packet_streams > num_ports`, and when `validation[1] + i` wraps
   at 2^32. Both are listed as hazards; the wrap needs a two-word uint32 encoding.
2. `Shard`/`Lifecycle`, modelled from `spec.md` because the code is not in `src/`: the
   cyclic iterator's coverage, and the receiver's dedup and cooldown. They compose with
   SendRun through its `probes` and `cbDone`.
3. A violation run for the bandwidth conversion with ipv6_udp (send.c:126). The rate run
   already reaches the state; it needs a run slot and a property stating spec.md's
   conversion.
4. `send_init` itself departs from `spec.md` in one place the model shows but no run
   checks: `spec.md` (section 7) makes a rate of 0 a fatal configuration error, while the
   code accepts it and sends unpaced. A violation run on it would need a run slot.
5. The rest of the IPv6 UDP module (see Not modelled), once a run slot is free for its
   two findings.

`SenderScan` lets a thread skip targets, so the refinement holds even though the first
target of every shard is skipped (`ShardCoverage`). A stronger abstract specification, in
which every listed target is probed exactly once, would fail on that skip.
