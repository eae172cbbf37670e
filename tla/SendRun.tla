------------------------------ MODULE SendRun ------------------------------
(***************************************************************************)
(* The sender threads of the scan engine: send_run() in src/src/send.c.    *)
(*                                                                         *)
(* Each sender thread owns one shard of the target space.  It initialises  *)
(* under the process-wide send_mutex, takes its first target (skipping     *)
(* targets that are not on the list of IPs when one is given), and then    *)
(* loops: check the stop conditions, build PacketStreams probes for the    *)
(* current target into the packet batch (handing the batch to send_batch,  *)
(* or printing it in dry-run mode, whenever it is full), count the target  *)
(* as scanned and advance the shard.  On the way out it flushes the        *)
(* partial batch and invokes the shard's completion callback.              *)
(*                                                                         *)
(* The shard itself (shard.c, not part of this repository's sources) is    *)
(* modelled by what the specification says it yields: a finite sequence   *)
(* of (ip, port) targets, disjoint between threads.  Time and the rate     *)
(* controller are left to the module RateControl; the wire is the         *)
(* count of packets each thread handed over successfully.                 *)
(*                                                                         *)
(* In an IPv6 scan (zconf.ipv6_target_filename) the threads take their     *)
(* targets instead from one target file, read line by line by a single     *)
(* serialised reader (ipv6_target_file.c, not in this repository), all on *)
(* the first target port.                                                  *)
(***************************************************************************)
EXTENDS Integers, Sequences, SequencesExt, FiniteSets

CONSTANTS
    Senders,        \* sender thread ids
    IPs,            \* destination addresses (positive integers; 0 is 0.0.0.0)
    Ports,          \* destination ports (positive integers)
    Listed,         \* the list-of-IPs bitmap (zsend.list_of_ips_pbm)
    PacketStreams,  \* zconf.packet_streams: probes per target
    Capacity,       \* zconf.batch: packets per batch
    MaxTargets,     \* [Senders -> Nat]: s->state.max_targets, 0 = no limit
    MaxPackets,     \* [Senders -> Nat]: s->state.max_packets, 0 = no limit
    MaxRuntime,     \* zconf.max_runtime # 0
    InitMayFail,    \* whether send_run_init (the socket set-up) can fail
    ShardChoices,   \* the possible assignments [Senders -> Seq(Targets)]
    Ipv6Modes,      \* the values of the file-global ipv6 flag of send.c
    Ipv6Targets,    \* the IPv6 target file, one address per line
    Ipv6Port,       \* zconf.ports->ports[0]
    NoThread        \* no thread holds send_mutex

ASSUME /\ IPs \subseteq Nat \ {0} /\ Ports \subseteq Nat \ {0}
       /\ Listed \subseteq IPs \cup {0}
       /\ PacketStreams \in Nat \ {0} /\ Capacity \in Nat \ {0}
       /\ MaxTargets \in [Senders -> Nat] /\ MaxPackets \in [Senders -> Nat]
       /\ MaxRuntime \in BOOLEAN /\ InitMayFail \in BOOLEAN
       /\ NoThread \notin Senders
       /\ Ipv6Modes \subseteq BOOLEAN /\ Ipv6Port \in Ports
       /\ Range(Ipv6Targets) \cap (IPs \cup {0}) = {}

Targets == [ip : IPs, port : Ports]

\* A probe as make_packet builds it: destination, port and probe number i.
Probe == [ip : IPs \cup Range(Ipv6Targets) \cup {0}, port : Ports \cup {0},
          stream : 0..PacketStreams - 1]

PCs == {"idle", "init", "start", "loop", "stream", "advance",
        "cleanup", "done", "failed"}

VARIABLES
    pc,         \* where each sender thread is in send_run
    mutex,      \* the holder of send_mutex, or NoThread
    shard,      \* the targets each thread's shard yields, in order
    pos,        \* the shard's position; pos > Len(shard) is ZMAP_SHARD_DONE
    curIp,      \* the local current_ip
    curPort,    \* the local current_port
    stream,     \* the probe number i of the inner loop
    batch,      \* the probes in the thread's batch (batch->len of them)
    sent,       \* s->state.packets_sent
    failed,     \* s->state.packets_failed
    scanned,    \* s->state.targets_scanned
    emitted,    \* packets send_batch accepted, or dry-run printed
    probes,     \* every probe the thread built, in order
    cbDone,     \* the threads whose shard callback s->cb has run
    complete,   \* zrecv.complete
    timedOut,   \* now() - zsend.start >= zconf.max_runtime
    dryrun,     \* zconf.dryrun
    listMode,   \* zconf.list_of_ips_filename # NULL
    ipv6,       \* the ipv6 flag send_init sets from zconf.ipv6_target_filename
    fileLine,   \* the next line of the IPv6 target file
    fileEnd     \* the threads whose ipv6_target_file_get_ipv6 returned an error

vars == <<pc, mutex, shard, pos, curIp, curPort, stream, batch, sent, failed,
          scanned, emitted, probes, cbDone, complete, timedOut, dryrun,
          listMode, ipv6, fileLine, fileEnd>>

-----------------------------------------------------------------------------
(* The shard as the sender sees it.                                        *)

ShardDone(t, k) == k > Len(shard[t])

\* What shard_get_next_target returns at position k: a done shard yields
\* no address (0).
IpAt(t, k) == IF k \in DOMAIN shard[t] THEN shard[t][k].ip ELSE 0
PortAt(t, k) == IF k \in DOMAIN shard[t] THEN shard[t][k].port ELSE 0

\* Mutant: the skip loop's "not found" result taken as a position.
NextListedNoEnd(t, k) ==
    SelectInSubSeq(shard[t], k, Len(shard[t]), LAMBDA x : x.ip \in Listed)

\* The pbm_check skip loop: the first position from k on whose address is
\* on the list, or the done position.
NextListed(t, k) ==
    LET j == SelectInSubSeq(shard[t], k, Len(shard[t]),
                            LAMBDA x : x.ip \in Listed)
    IN IF j = 0 THEN Len(shard[t]) + 1 ELSE j

-----------------------------------------------------------------------------
(* Initial state: every thread is about to lock send_mutex.                *)

\* The shard and the list-of-IPs bitmap (a bitmap of IPv4 addresses) play
\* no part in an IPv6 scan: there one choice of them stands for all.
Init ==
    /\ ipv6 \in Ipv6Modes
    /\ shard \in IF ipv6 THEN {CHOOSE c \in ShardChoices : TRUE}
                          ELSE ShardChoices
    /\ dryrun \in BOOLEAN
    /\ listMode \in IF ipv6 THEN {FALSE} ELSE BOOLEAN
    /\ fileLine = 1
    /\ fileEnd = {}
    /\ pc = [t \in Senders |-> "idle"]
    /\ mutex = NoThread
    /\ pos = [t \in Senders |-> 1]
    /\ curIp = [t \in Senders |-> 0]
    /\ curPort = [t \in Senders |-> 0]
    /\ stream = [t \in Senders |-> 0]
    /\ batch = [t \in Senders |-> <<>>]
    /\ sent = [t \in Senders |-> 0]
    /\ failed = [t \in Senders |-> 0]
    /\ scanned = [t \in Senders |-> 0]
    /\ emitted = [t \in Senders |-> 0]
    /\ probes = [t \in Senders |-> <<>>]
    /\ cbDone = {}
    /\ complete = FALSE
    /\ timedOut = FALSE

Locals == <<pos, curIp, curPort, stream, batch, sent, failed, scanned,
            emitted, probes>>
Config == <<shard, dryrun, listMode, ipv6>>
Reader == <<fileLine, fileEnd>>

\* pthread_mutex_lock(&send_mutex); create_packet_batch(zconf.batch).
Lock(t) ==
    /\ pc[t] = "idle"
    /\ mutex = NoThread
    /\ mutex' = t
    /\ pc' = [pc EXCEPT ![t] = "init"]
    /\ UNCHANGED <<Locals, Config, Reader, cbDone, complete, timedOut>>

\* send_run_init(st) fails: unlock and return EXIT_FAILURE, without
\* running the shard callback.
InitFail(t) ==
    /\ InitMayFail
    /\ pc[t] = "init"
    /\ mutex' = NoThread
    /\ pc' = [pc EXCEPT ![t] = "failed"]
    /\ UNCHANGED <<Locals, Config, Reader, cbDone, complete, timedOut>>

\* Socket, MAC string and probe thread_initialize done: unlock, then
\* prepare_packet for every batch slot and set up the rate controller.
InitOk(t) ==
    /\ pc[t] = "init"
    /\ mutex' = NoThread
    /\ pc' = [pc EXCEPT ![t] = "start"]
    /\ UNCHANGED <<Locals, Config, Reader, cbDone, complete, timedOut>>

(***************************************************************************)
(* The first target.  current = shard_get_cur_target(s), but current_ip    *)
(* and current_port keep their initial 0.  With a list of IPs the skip     *)
(* loop tests current_ip (0) first, and then advances the shard, taking    *)
(* ip and port from each target, until a listed one or the shard's end.   *)
(***************************************************************************)
Start(t) ==
    /\ pc[t] = "start"
    /\ ~ipv6
    /\ IF listMode /\ 0 \notin Listed
         THEN LET j == NextListed(t, 2) IN
              /\ pos' = [pos EXCEPT ![t] = j]
              /\ curIp' = [curIp EXCEPT ![t] = IpAt(t, j)]
              /\ curPort' = [curPort EXCEPT ![t] = PortAt(t, j)]
              /\ pc' = [pc EXCEPT ![t] = IF ShardDone(t, j) THEN "cleanup"
                                                            ELSE "loop"]
         ELSE /\ pc' = [pc EXCEPT ![t] = "loop"]
              /\ UNCHANGED <<pos, curIp, curPort>>
    /\ UNCHANGED <<mutex, stream, batch, sent, failed, scanned, emitted,
                   probes, Config, Reader, cbDone, complete, timedOut>>

(***************************************************************************)
(* The IPv6 target file.  ipv6_target_file_get_ipv6 hands out the next    *)
(* line to whichever thread asks, and fails once the file is exhausted;   *)
(* the thread then goes to cleanup.  The address read is ipv6_dst, which   *)
(* the model keeps in curIp (current_ip itself stays 0 in an IPv6 scan).   *)
(***************************************************************************)

\* Mutant: the last line of the file taken for its end.
FileHasLineOffByOne == fileLine < Len(Ipv6Targets)

FileHasLine == fileLine <= Len(Ipv6Targets)

\* ipv6_target_file_get_ipv6(&ipv6_dst), then goto cleanup if it failed.
ReadTarget(t) ==
    \/ /\ FileHasLine
       /\ curIp' = [curIp EXCEPT ![t] = Ipv6Targets[fileLine]]
       /\ fileLine' = fileLine + 1
       /\ pc' = [pc EXCEPT ![t] = "loop"]
       /\ UNCHANGED fileEnd
    \/ /\ ~FileHasLine
       /\ fileEnd' = fileEnd \cup {t}
       /\ pc' = [pc EXCEPT ![t] = "cleanup"]
       /\ UNCHANGED <<curIp, fileLine>>

\* The first target of an IPv6 scan: read from the file; current_port is
\* the first target port (the malloc of probe_data is not modelled).
StartIpv6(t) ==
    /\ pc[t] = "start"
    /\ ipv6
    /\ ReadTarget(t)
    /\ curPort' = [curPort EXCEPT ![t] = IF FileHasLine THEN Ipv6Port ELSE @]
    /\ UNCHANGED <<mutex, pos, stream, batch, sent, failed, scanned, emitted,
                   probes, Config, cbDone, complete, timedOut>>

\* Mutant: the max_packets check left out of the loop.
ShouldStopNoPacketBudget(t) ==
    \/ complete
    \/ timedOut
    \/ MaxTargets[t] > 0 /\ scanned[t] >= MaxTargets[t]
    \/ ~ipv6 /\ ShardDone(t, pos[t])

\* The checks at the top of the send loop, in the code's order.
ShouldStop(t) ==
    \/ complete
    \/ timedOut
    \/ MaxTargets[t] > 0 /\ scanned[t] >= MaxTargets[t]
    \/ MaxPackets[t] > 0 /\ sent[t] >= MaxPackets[t]
    \/ ~ipv6 /\ ShardDone(t, pos[t])

\* Mutant: the stop checks made before each packet, as the code's comment
\* on them says, rather than before each target.
StopSendingMidTarget(t) ==
    /\ pc[t] \in {"loop", "stream"}
    /\ ShouldStop(t)
    /\ pc' = [pc EXCEPT ![t] = "cleanup"]
    /\ UNCHANGED <<mutex, Locals, Config, Reader, cbDone, complete, timedOut>>

StopSending(t) ==
    /\ pc[t] = "loop"
    /\ ShouldStop(t)
    /\ pc' = [pc EXCEPT ![t] = "cleanup"]
    /\ UNCHANGED <<mutex, Locals, Config, Reader, cbDone, complete, timedOut>>

BeginTarget(t) ==
    /\ pc[t] = "loop"
    /\ ~ShouldStop(t)
    /\ pc' = [pc EXCEPT ![t] = "stream"]
    /\ stream' = [stream EXCEPT ![t] = 0]
    /\ UNCHANGED <<mutex, pos, curIp, curPort, batch, sent, failed, scanned,
                   emitted, probes, Config, Reader, cbDone, complete, timedOut>>

(***************************************************************************)
(* One iteration of the packet_streams loop: make_packet into the next     *)
(* batch slot, batch->len++, and when the batch is full either print it    *)
(* (dry run) or send_batch it: rc < 0 counts the whole batch as failed,    *)
(* rc >= 0 counts batch->len - rc; the batch is reset.  packets_sent++.    *)
(***************************************************************************)
BatchOutcomes(n) == IF dryrun THEN {n} ELSE {-1} \cup 0..n

\* Mutant: the batch handed over only once it has overrun its capacity.
BatchFullOverrun(n) == n > Capacity

\* if (batch->len == batch->capacity)
BatchFull(n) == n = Capacity

\* Mutant: the success count rc booked as the failures.
FailuresOfSwapped(n, rc) == IF rc < 0 THEN n ELSE rc

\* packets_failed += batch->len (rc < 0) or batch->len - rc.
FailuresOf(n, rc) == IF rc < 0 THEN n ELSE n - rc

SendProbe(t) ==
    LET p == [ip |-> curIp[t], port |-> curPort[t], stream |-> stream[t]]
        b == Append(batch[t], p)
    IN
    /\ pc[t] = "stream"
    /\ stream[t] < PacketStreams
    /\ probes' = [probes EXCEPT ![t] = Append(@, p)]
    /\ sent' = [sent EXCEPT ![t] = @ + 1]
    /\ stream' = [stream EXCEPT ![t] = @ + 1]
    /\ \/ /\ ~BatchFull(Len(b))
          /\ batch' = [batch EXCEPT ![t] = b]
          /\ UNCHANGED <<failed, emitted>>
       \/ /\ BatchFull(Len(b))
          /\ \E rc \in BatchOutcomes(Len(b)) :
               /\ failed' = [failed EXCEPT ![t] = @ + FailuresOf(Len(b), rc)]
               /\ emitted' = [emitted EXCEPT ![t] = @ + IF rc < 0 THEN 0 ELSE rc]
          /\ batch' = [batch EXCEPT ![t] = <<>>]
    /\ UNCHANGED <<pc, mutex, pos, curIp, curPort, scanned, Config, Reader, cbDone,
                   complete, timedOut>>

\* Mutant: the list check left out of the advance (as in the IPv6 path).
AdvanceTargetNoSkip(t) ==
    /\ pc[t] = "stream"
    /\ stream[t] = PacketStreams
    /\ scanned' = [scanned EXCEPT ![t] = @ + 1]
    /\ pos' = [pos EXCEPT ![t] = @ + 1]
    /\ curIp' = [curIp EXCEPT ![t] = IpAt(t, pos[t] + 1)]
    /\ curPort' = [curPort EXCEPT ![t] = PortAt(t, pos[t] + 1)]
    /\ pc' = [pc EXCEPT ![t] = "loop"]
    /\ UNCHANGED <<mutex, stream, batch, sent, failed, emitted, probes,
                   Config, Reader, cbDone, complete, timedOut>>

\* Mutant: shard_get_cur_target where shard_get_next_target belongs.
AdvanceTargetStay(t) ==
    /\ pc[t] = "stream"
    /\ stream[t] = PacketStreams
    /\ scanned' = [scanned EXCEPT ![t] = @ + 1]
    /\ curIp' = [curIp EXCEPT ![t] = IpAt(t, pos[t])]
    /\ curPort' = [curPort EXCEPT ![t] = PortAt(t, pos[t])]
    /\ pc' = [pc EXCEPT ![t] = "loop"]
    /\ UNCHANGED <<mutex, pos, stream, batch, sent, failed, emitted, probes,
                   Config, Reader, cbDone, complete, timedOut>>

(***************************************************************************)
(* After the streams: targets_scanned++ and current = shard_get_next_target *)
(* with ip and port taken from it.  With a list of IPs and the shard not   *)
(* done, the skip loop advances while the address is not listed, updating  *)
(* current_ip only, and goes straight to cleanup if the shard runs out.    *)
(***************************************************************************)
AdvanceTarget(t) ==
    LET c == pos[t] + 1
        j == IF listMode /\ ~ShardDone(t, c) THEN NextListed(t, c) ELSE c
    IN
    /\ pc[t] = "stream"
    /\ ~ipv6
    /\ stream[t] = PacketStreams
    /\ scanned' = [scanned EXCEPT ![t] = @ + 1]
    /\ pos' = [pos EXCEPT ![t] = j]
    /\ curIp' = [curIp EXCEPT ![t] = IpAt(t, j)]
    /\ curPort' = [curPort EXCEPT ![t] = PortAt(t, c)]
    /\ pc' = [pc EXCEPT ![t] = IF j # c /\ ShardDone(t, j) THEN "cleanup"
                                                          ELSE "loop"]
    /\ UNCHANGED <<mutex, stream, batch, sent, failed, emitted, probes,
                   Config, Reader, cbDone, complete, timedOut>>

\* After the streams of an IPv6 scan: targets_scanned++ and the next line
\* of the target file, or cleanup when there is none.
AdvanceTargetIpv6(t) ==
    /\ pc[t] = "stream"
    /\ stream[t] = PacketStreams
    /\ ipv6
    /\ scanned' = [scanned EXCEPT ![t] = @ + 1]
    /\ ReadTarget(t)
    /\ UNCHANGED <<mutex, pos, curPort, stream, batch, sent, failed, emitted,
                   probes, Config, cbDone, complete, timedOut>>

\* Mutant: a cleanup path that returns without the shard callback.
CleanupNoCallback(t) ==
    /\ pc[t] = "cleanup"
    /\ batch' = [batch EXCEPT ![t] = <<>>]
    /\ pc' = [pc EXCEPT ![t] = "done"]
    /\ UNCHANGED <<mutex, pos, curIp, curPort, stream, sent, failed, scanned,
                   emitted, probes, Config, Reader, cbDone, complete, timedOut>>

(***************************************************************************)
(* cleanup: send_batch the partial batch (its result is only logged) or    *)
(* print it in dry-run mode, free the batch, run the shard callback.       *)
(***************************************************************************)
Cleanup(t) ==
    /\ pc[t] = "cleanup"
    /\ \E rc \in BatchOutcomes(Len(batch[t])) :
         emitted' = [emitted EXCEPT ![t] = @ + IF rc < 0 THEN 0 ELSE rc]
    /\ batch' = [batch EXCEPT ![t] = <<>>]
    /\ cbDone' = cbDone \cup {t}
    /\ pc' = [pc EXCEPT ![t] = "done"]
    /\ UNCHANGED <<mutex, pos, curIp, curPort, stream, sent, failed, scanned,
                   probes, Config, Reader, complete, timedOut>>

-----------------------------------------------------------------------------
(* The rest of the process, as far as the senders see it.                  *)

\* The receiver sets zrecv.complete: cooldown over, or an orderly shutdown.
ReceiverComplete ==
    /\ ~complete
    /\ complete' = TRUE
    /\ UNCHANGED <<pc, mutex, Locals, Config, Reader, cbDone, timedOut>>

\* The clock passes zsend.start + zconf.max_runtime.
RuntimeExpires ==
    /\ MaxRuntime
    /\ ~timedOut
    /\ timedOut' = TRUE
    /\ UNCHANGED <<pc, mutex, Locals, Config, Reader, cbDone, complete>>

\* Every sender thread has returned: the orchestrator joins them.
Joined ==
    /\ \A t \in Senders : pc[t] \in {"done", "failed"}
    /\ UNCHANGED vars

Thread(t) ==
    \/ Lock(t) \/ InitFail(t) \/ InitOk(t) \/ Start(t) \/ StartIpv6(t)
    \/ StopSending(t) \/ BeginTarget(t) \/ SendProbe(t) \/ AdvanceTarget(t)
    \/ AdvanceTargetIpv6(t) \/ Cleanup(t)

Next ==
    \/ \E t \in Senders : Thread(t)
    \/ ReceiverComplete
    \/ RuntimeExpires
    \/ Joined

\* Sender threads are OS threads that the scheduler keeps running; nothing
\* obliges the receiver or the clock to act.
Fairness == \A t \in Senders : WF_vars(Thread(t))

Spec == Init /\ [][Next]_vars /\ Fairness

-----------------------------------------------------------------------------
(* Properties.                                                             *)

TypeOK ==
    /\ pc \in [Senders -> PCs]
    /\ mutex \in Senders \cup {NoThread}
    /\ pos \in [Senders -> Nat \ {0}]
    /\ curIp \in [Senders -> IPs \cup Range(Ipv6Targets) \cup {0}]
    /\ curPort \in [Senders -> Ports \cup {0}]
    /\ stream \in [Senders -> 0..PacketStreams]
    /\ batch \in [Senders -> Seq(Probe)]
    /\ \A t \in Senders : sent[t] \in Nat /\ failed[t] \in Nat
                          /\ scanned[t] \in Nat /\ emitted[t] \in Nat
    /\ probes \in [Senders -> Seq(Probe)]
    /\ cbDone \subseteq Senders
    /\ complete \in BOOLEAN /\ timedOut \in BOOLEAN
    /\ fileLine \in 1..Len(Ipv6Targets) + 1 /\ fileEnd \subseteq Senders

\* The batch buffer holds zconf.batch packets: send_run writes slot
\* batch->len and hands the batch over when batch->len == capacity, so the
\* length seen between two probes is always below the capacity.
BatchWithinCapacity == \A t \in Senders : Len(batch[t]) < Capacity

\* Every probe a running thread counted in packets_sent is accounted for:
\* either in packets_failed, or accepted by send_batch (printed, in dry-run
\* mode), or still waiting in the thread's batch.  This is the rc / rc < 0
\* bookkeeping after send_batch in the stream loop.
FlushAccounting ==
    \A t \in Senders : pc[t] # "done" =>
        sent[t] - failed[t] = emitted[t] + Len(batch[t])

\* A probe to a real address (not the 0.0.0.0 the loop starts from) is a
\* target of the thread's own shard and, when a list of IPs is given, on
\* the list: the pbm_check skip loops in send_run.  In an IPv6 scan it is
\* an address of the target file, on the first target port.
ProbesOnOwnListedTargets ==
    \A t \in Senders : \A i \in DOMAIN probes[t] :
        LET p == probes[t][i] IN
        p.ip # 0 =>
            IF ipv6
            THEN p.ip \in Range(Ipv6Targets) /\ p.port = Ipv6Port
            ELSE /\ [ip |-> p.ip, port |-> p.port] \in Range(shard[t])
                 /\ (listMode => p.ip \in Listed)

\* No probe (address, port, probe number) to a real address is built twice,
\* by the same thread or by two threads: shards are disjoint, the shard
\* never returns a target twice, and send_run sends each target once.
NoDuplicateProbe ==
    \A t1, t2 \in Senders :
        \A i \in DOMAIN probes[t1], j \in DOMAIN probes[t2] :
            /\ <<t1, i>> # <<t2, j>>
            /\ probes[t1][i].ip # 0
            => probes[t1][i] # probes[t2][j]

\* max_packets is checked once per target, before its packet_streams
\* probes, so a thread may overshoot its packet budget, but by fewer than
\* packet_streams packets.
PacketBudget ==
    \A t \in Senders : MaxPackets[t] > 0 =>
        sent[t] < MaxPackets[t] + PacketStreams

\* The targets a complete scan must probe: every target of every shard,
\* restricted to the list of IPs when one is given.
ToScan ==
    {x \in UNION {Range(shard[t]) : t \in Senders} :
        listMode => x.ip \in Listed}

Probed(x) ==
    \E t \in Senders : \E i \in DOMAIN probes[t] :
        probes[t][i].ip = x.ip /\ probes[t][i].port = x.port

\* When every sender returned because its shard ran out (not because of a
\* budget, the receiver or the clock), every target of the scan was probed:
\* the specification's "every index is visited exactly once".
ShardCoverage ==
    (~ipv6 /\ \A t \in Senders : pc[t] = "done" /\ ShardDone(t, pos[t]))
        => \A x \in ToScan : Probed(x)

\* In an IPv6 scan, when every sender returned because the target file ran
\* out, every address of the file was probed: a line read by one thread
\* (ipv6_target_file_get_ipv6 at the first target and after each target)
\* is probed by that thread before it reads again, whatever the other
\* threads read in between.
FileCoverage ==
    (ipv6 /\ fileEnd = Senders /\ \A t \in Senders : pc[t] = "done")
        => \A a \in Range(Ipv6Targets) :
              \E t \in Senders : \E i \in DOMAIN probes[t] : probes[t][i].ip = a

\* A sender thread that got past its initialisation eventually runs its
\* shard's completion callback (cleanup: s->cb(thread_id, arg)).
CallbackAfterInit == \A t \in Senders : pc[t] = "start" ~> t \in cbDone

\* The sender threads implement SenderScan: the probes of each thread to
\* real addresses walk its shard forwards, a target's packet_streams probes
\* numbered in order and back to back, only listed targets in list mode,
\* and the shard callback runs between two targets, after the last probe.
\* This is the shard walk of send_run (the skip loops, the stream loop, the
\* stop checks at the top of the send loop and the callback at cleanup).
\* An IPv6 scan walks no shard; there the mapping keeps no probes, and
\* FileCoverage and NoDuplicateProbe speak for it.
Scan == INSTANCE SenderScan WITH
    probes <- [t \in Senders |->
                 IF ipv6 THEN <<>> ELSE SelectSeq(probes[t], LAMBDA p : p.ip # 0)],
    finished <- cbDone

ScanRefinement == Scan!Spec

=============================================================================
