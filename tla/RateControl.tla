---------------------------- MODULE RateControl ----------------------------
(***************************************************************************)
(* The rate controller of one sender thread (send_run in src/src/send.c,   *)
(* lines 263-302 and 338-386) and the SIGUSR1/SIGUSR2 handlers that change *)
(* the global rate under it (lines 55-69), composed with the set-up that   *)
(* precedes it: send_init calls the probe module's global_initialize       *)
(* (106-116), turns the command line's rate or bandwidth into zconf.rate   *)
(* using the module's max_packet_length as it is then (117-163), and       *)
(* installs the signal handlers (196-199); send_run has the module prepare *)
(* its packet templates (251-260) and exits on an oversized probe          *)
(* (446-455).  The probe modules' side is ProbeModuleSetup.                *)
(*                                                                         *)
(* Time is counted in ticks, TicksPerSec of them to a second.  One pass of *)
(* the send loop costs the busy-wait (one tick per iteration of the delay  *)
(* loop) or the sleep, plus the work of building and sending the target's  *)
(* packet_streams probes, which the environment chooses from Works: normal *)
(* work, or a stall (a blocked send, a descheduled thread).  With these    *)
(* durations the observed rates of the code are exact rationals, and the   *)
(* model keeps the code's integer truncations:                             *)
(*   - sleep mode: last_rate = 1 / (t - last_time) over the last pass;     *)
(*   - spin mode: (count - last_count) / (t - last_time) over one measured *)
(*     pass, against zconf.rate / zconf.senders in integer division.       *)
(* The other senders only share zconf.rate, so one thread is modelled.     *)
(***************************************************************************)
EXTENDS Integers, ProbeModuleSetup

CONSTANTS
    TicksPerSec,    \* clock resolution of the model
    RateArgs,       \* zconf.rate as the command line leaves it (-1: unset)
    Bandwidths,     \* zconf.bandwidth in bit/s (0: unset)
    Senders,        \* zconf.senders
    PacketStreams,  \* zconf.packet_streams
    SlowRate,       \* slow_rate: per-thread rate below which sleep mode is used
    Works,          \* ticks of work per pass of the send loop
    NormalWork,     \* the work of a pass without a stall
    MaxSignals      \* bound on the rate signals delivered

ASSUME /\ RateArgs \subseteq Nat \cup {-1} /\ Bandwidths \subseteq Nat
       /\ Senders \in Nat \ {0}
       /\ PacketStreams \in Nat \ {0} /\ NormalWork \in Works
       /\ Works \subseteq Nat \ {0} /\ MaxSignals \in Nat

\* The largest uint32 delay; TLC's integers stop at 2^31 - 1, which stands
\* for it.
MaxUint32 == 2147483647

VARIABLES
    rate,       \* zconf.rate, written by the signal handlers
    signals,    \* rate signals delivered so far
    mode,       \* "init" in send_init, "fatal" if it exits, "start" before
                \* the controller is set up, then "sleep", "spin" or
                \* "unlimited"
    rate0,      \* zconf.rate when the thread computed send_rate
    sleepTime,  \* sleep_time, in ticks
    delay,      \* delay, busy-wait iterations per pass
    work,       \* the work of the current pass
    probeModule,    \* zconf.probe_module
    maxPacketLength,\* its max_packet_length field
    udpSendMsgLen,  \* udp_send_msg_len of the ipv6_udp module
    udpLen          \* payload_len in the prepared IPv6 and UDP headers

probeVars == <<probeModule, maxPacketLength, udpSendMsgLen, udpLen>>
vars == <<rate, signals, mode, rate0, sleepTime, delay, work, probeVars>>

\* The modes in which the process has exited: a fatal configuration, the
\* template-fields listing, a failed assert, an oversized probe.
Exited == {"fatal", "exit", "abort", "oversize"}

-----------------------------------------------------------------------------
(* The arithmetic of the code, with its truncations.                      *)

DefaultRate == 10000    \* the default 10K pps

\* The bits a probe takes on the wire: max_packet_length * 8 plus 24 bytes
\* of preamble, start of frame, CRC and inter-frame gap, floored at the
\* 84-byte minimum Ethernet frame.
FrameBits(len) ==
    LET b == len * 8 + 8 * 24 IN IF b < 84 * 8 THEN 84 * 8 ELSE b

\* zconf.rate = zconf.bandwidth / pkt_len, raised to 1 pkt/s when it is 0.
\* The quotients of the model stay below 2^31, where the uint32 check and
\* the conversion to int do not change it.
BandwidthRate(bw, len) ==
    IF bw \div FrameBits(len) = 0 THEN 1 ELSE bw \div FrameBits(len)

\* send_rate = zconf.rate / (zconf.senders * zconf.packet_streams) as a
\* double, compared with slow_rate.
IsSlow(r) == r < SlowRate * Senders * PacketStreams

\* zconf.rate += zconf.rate * 0.05, truncated back to int.
IncreasedRate(r) == r + r \div 20

\* zconf.rate -= zconf.rate * 0.05, truncated back to int (towards zero).
DecreasedRate(r) == r - (r + 19) \div 20

\* Mutant: the ratio last_rate / send_rate inverted.
SleepUpdateInverted(s, w) ==
    LET period == (TicksPerSec * Senders * PacketStreams) \div rate0
    IN  (s * (s + w + period)) \div (2 * period)

\* Mutant: the EMA's halving left out.
SleepUpdateNoHalf(s, w) ==
    (s * (TicksPerSec * Senders * PacketStreams + (s + w) * rate0))
        \div ((s + w) * rate0)

\* sleep_time *= ((last_rate / send_rate) + 1) / 2, where the last pass
\* lasted s + w ticks: last_rate / send_rate
\*   = TicksPerSec * senders * packet_streams / ((s + w) * rate0),
\* and the product is truncated to long long.
SleepUpdate(s, w) ==
    (s * (TicksPerSec * Senders * PacketStreams + (s + w) * rate0))
        \div (2 * (s + w) * rate0)

\* Mutant: no floor at 1 after the adjustment.
SpinUpdatesNoClamp(d, w, r) ==
    LET target == r \div Senders
        num    == PacketStreams * TicksPerSec
        den    == (d + w) * target
        scaled == IF target = 0 THEN {0, MaxUint32} ELSE {(d * num) \div den}
        Nudge(x) == IF x = d /\ num > den THEN 2 * d
                    ELSE IF x = d /\ num < den THEN d \div 2
                    ELSE x
    IN  {Nudge(x) : x \in scaled}

(***************************************************************************)
(* One spin-mode measurement: multiplier = observed / (rate / senders),    *)
(* the observed rate being packet_streams packets per pass of d + w ticks; *)
(* delay *= multiplier truncated to uint32; if that left delay unchanged,  *)
(* doubled or halved by the multiplier's side of 1; then floored at 1.    *)
(* A rate below zconf.senders makes the divisor 0 and the multiplier       *)
(* infinite, whose conversion to uint32 is undefined: the x86-64 builds    *)
(* give 0 or the full 32 bits.                                             *)
(***************************************************************************)
SpinUpdates(d, w, r) ==
    LET target == r \div Senders
        num    == PacketStreams * TicksPerSec
        den    == (d + w) * target
        scaled == IF target = 0 THEN {0, MaxUint32} ELSE {(d * num) \div den}
        Nudge(x) == IF x = d /\ num > den THEN 2 * d
                    ELSE IF x = d /\ num < den THEN d \div 2
                    ELSE x
    IN  {IF Nudge(x) = 0 THEN 1 ELSE Nudge(x) : x \in scaled}

-----------------------------------------------------------------------------

Init ==
    /\ rate \in RateArgs
    /\ signals = 0
    /\ mode = "init"
    /\ rate0 = 0
    /\ sleepTime = TicksPerSec
    /\ delay = 0
    /\ work \in Works
    /\ probeModule \in ProbeModules
    /\ maxPacketLength = StaticMaxPacketLength(probeModule)
    /\ udpSendMsgLen = 0
    /\ udpLen = 0

(***************************************************************************)
(* send_init 106-116: the probe module's global_initialize, whose failure *)
(* is fatal; the template-fields listing exits with status 0.             *)
(***************************************************************************)
ProbeGlobalInit ==
    /\ mode = "init"
    /\ \E a \in ProbeArgs :
         LET o == GlobalInitialize(probeModule, a) IN
         /\ mode' = CASE o.status = "ok"   -> "rateinit"
                       [] o.status = "exit" -> "exit"
                       [] OTHER             -> "fatal"
         /\ udpSendMsgLen' = o.msgLen
         /\ maxPacketLength' = o.maxLen
    /\ UNCHANGED <<rate, signals, rate0, sleepTime, delay, work, probeModule, udpLen>>

(***************************************************************************)
(* The rate part of send_init: rate and bandwidth together are fatal; a    *)
(* bandwidth is converted to a packet rate; the unset rate becomes the     *)
(* default; a negative rate is fatal ("rate impossibly slow").  The signal *)
(* handlers are installed at its end.                                      *)
(***************************************************************************)
SendInit ==
    /\ mode = "rateinit"
    /\ \E bw \in Bandwidths :
         \/ /\ bw > 0 /\ rate > 0
            /\ mode' = "fatal"
            /\ UNCHANGED rate
         \/ /\ ~(bw > 0 /\ rate > 0)
            /\ LET r1 == IF bw > 0 THEN BandwidthRate(bw, maxPacketLength) ELSE rate
                   r2 == IF r1 = -1 THEN DefaultRate ELSE r1
               IN  /\ rate' = r2
                   /\ mode' = IF r2 < 0 THEN "fatal" ELSE "start"
    /\ UNCHANGED <<signals, rate0, sleepTime, delay, work, probeVars>>

(***************************************************************************)
(* send_run up to its first probe.  prepare_packet fills the template of  *)
(* every batch slot (251-260): ipv6_udp_prepare_packet sets the headers'  *)
(* payload_len and max_packet_length and asserts that it fits              *)
(* MAX_PACKET_SIZE (the assert is compiled out under NDEBUG, so both       *)
(* builds are taken).  The controller is set up (263-302, rate > 0):       *)
(* delay = 10000; in sleep mode sleep_time = nsec_per_sec / send_rate; in  *)
(* spin mode the estimate over 10000 busy iterations, delay *= 1 / elapsed *)
(* / (rate / senders) (double division), which is TicksPerSec * senders / *)
(* rate, floored at 1; a rate of 0 sends unpaced.  Every probe make_packet *)
(* builds has the same length, so the check at 446-455 that exits on a    *)
(* probe longer than MAX_PACKET_SIZE fires on the first one or never.      *)
(***************************************************************************)
StartController ==
    LET ml == PreparedMaxLen(probeModule, udpSendMsgLen, maxPacketLength) IN
    /\ mode = "start"
    /\ rate0' = rate
    /\ udpLen' = PreparedUdpLen(probeModule, udpSendMsgLen)
    /\ maxPacketLength' = ml
    /\ \E asserts \in BOOLEAN :
         CASE asserts /\ ml > MAX_PACKET_SIZE ->
                 /\ mode' = "abort"
                 /\ UNCHANGED <<sleepTime, delay>>
           [] ProbeLength(probeModule, udpSendMsgLen) > MAX_PACKET_SIZE ->
                 /\ mode' = "oversize"
                 /\ UNCHANGED <<sleepTime, delay>>
           [] rate = 0 ->
                 /\ mode' = "unlimited"
                 /\ UNCHANGED <<sleepTime, delay>>
           [] IsSlow(rate) ->
                 /\ mode' = "sleep"
                 /\ sleepTime' = (TicksPerSec * Senders * PacketStreams) \div rate
                 /\ delay' = 10000
           [] OTHER ->
                 /\ mode' = "spin"
                 /\ delay' = LET d == (TicksPerSec * Senders) \div rate
                             IN IF d = 0 THEN 1 ELSE d
                 /\ UNCHANGED sleepTime
    /\ UNCHANGED <<rate, signals, work, probeModule, udpSendMsgLen>>

\* One pass in sleep mode: the EMA update of sleep_time from the duration of
\* the pass before, then nanosleep(sleep_time).
SleepPace ==
    /\ mode = "sleep"
    /\ sleepTime' = SleepUpdate(sleepTime, work)
    /\ UNCHANGED <<rate, signals, mode, rate0, delay, work, probeVars>>

\* Mutant: the adjustment against the rate send_run started with.
SpinPaceStale ==
    /\ mode = "spin"
    /\ delay' \in SpinUpdates(delay, work, rate0)
    /\ UNCHANGED <<rate, signals, mode, rate0, sleepTime, work, probeVars>>

\* One measured pass in spin mode: the busy wait, then the adjustment
\* against the rate as it is now.
SpinPace ==
    /\ mode = "spin"
    /\ delay' \in SpinUpdates(delay, work, rate)
    /\ UNCHANGED <<rate, signals, mode, rate0, sleepTime, work, probeVars>>

\* The handlers exist once send_init has installed them.
HandlersInstalled == mode \notin {"init", "rateinit"} \cup Exited

\* sig_handler_increase_speed (SIGUSR1).
SigIncrease ==
    /\ HandlersInstalled
    /\ signals < MaxSignals
    /\ rate' = IncreasedRate(rate)
    /\ signals' = signals + 1
    /\ UNCHANGED <<mode, rate0, sleepTime, delay, work, probeVars>>

\* sig_handler_decrease_speed (SIGUSR2).
SigDecrease ==
    /\ HandlersInstalled
    /\ signals < MaxSignals
    /\ rate' = DecreasedRate(rate)
    /\ signals' = signals + 1
    /\ UNCHANGED <<mode, rate0, sleepTime, delay, work, probeVars>>

\* The cost of the next pass changes: a stall begins or ends.
ChangeWork ==
    /\ mode \notin Exited
    /\ \E w \in Works \ {work} : work' = w
    /\ UNCHANGED <<rate, signals, mode, rate0, sleepTime, delay, probeVars>>

Controller == ProbeGlobalInit \/ SendInit \/ StartController \/ SleepPace \/ SpinPace

Next == Controller \/ SigIncrease \/ SigDecrease \/ ChangeWork

\* The sender thread runs its loop as long as the scan lasts; signals and
\* stalls come from outside and need not happen.
Spec == Init /\ [][Next]_vars /\ WF_vars(Controller)

-----------------------------------------------------------------------------
(* Properties.                                                             *)

\* The variables stay within the ranges of their C types.
TypeOK ==
    /\ rate \in Nat \cup RateArgs /\ signals \in 0..MaxSignals
    /\ mode \in {"init", "rateinit", "start", "sleep", "spin", "unlimited"} \cup Exited
    /\ sleepTime \in 0..TicksPerSec * Senders * PacketStreams
    /\ delay \in 0..MaxUint32
    /\ work \in Works
    /\ probeModule \in ProbeModules
    /\ maxPacketLength \in Nat /\ udpSendMsgLen \in Nat /\ udpLen \in 0..Uint16 - 1

\* A configuration that send_init accepts, probe arguments included, never
\* ends the scan later: prepare_packet's assert and send_run's check on the
\* probes' length (spec.md: an oversized packet is a module bug) never
\* fire.  For ipv6_udp this rests on global_initialize reducing the
\* payload of any argument to MAX_UDP_PAYLOAD_LEN.
AcceptedConfigNeverFails == mode \notin {"abort", "oversize"}

\* The sleep-mode EMA never sleeps longer than the target period
\* 1 / send_rate, so sleeping never makes the thread slower than its target.
SleepWithinPeriod ==
    mode = "sleep" =>
        sleepTime * rate0 <= TicksPerSec * Senders * PacketStreams

\* The controller still limits the rate: a positive sleep in sleep mode,
\* a positive busy-wait in spin mode.
Paced ==
    /\ mode = "sleep" => sleepTime > 0
    /\ mode = "spin" => delay > 0

\* Once the stalls are over for good, the send loop's pacing comes back and
\* stays: the controller never loses rate limiting for the rest of the scan
\* (the code's comment on the spin-mode floor at send.c:374-379).
RateLimitRestored == <>[](work = NormalWork) => <>[]Paced

\* A pass of the spin loop (the busy wait plus the work) lasts within a
\* factor of two of the period zconf.rate / zconf.senders asks for, as it
\* is now: packet_streams probes every PacketStreams * TicksPerSec / target
\* ticks.
SpinOnPeriod ==
    mode = "spin" =>
        LET target == rate \div Senders
            pass   == delay + work
            period == PacketStreams * TicksPerSec
        IN  2 * pass * target >= period /\ pass * target <= 2 * period

\* Once the stalls are over for good, the spin-mode controller settles on
\* the rate the last SIGUSR1/SIGUSR2 left in zconf.rate: spin mode re-reads
\* zconf.rate at every measurement (send.c:362), where the sleep mode
\* keeps the send_rate computed at the start (send.c:271).
SpinFollowsRate == <>[](work = NormalWork) => <>[]SpinOnPeriod

=============================================================================
