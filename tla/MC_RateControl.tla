-------------------------- MODULE MC_RateControl --------------------------
(* The controller of one of two senders, one probe per target, from the  *)
(* command line to the send loop.  16000 ticks to the second: 1000 pps is *)
(* a 32-tick period per thread (sleep mode), 4400 pps one of 7.3 ticks.  *)
EXTENDS RateControl

\* No rate given (-1), 0, a sleep-mode and a spin-mode rate.
MCRateArgs == {-1, 0, 1000, 4400}

\* ipv6_udp probe arguments: none (the default message), a 1-byte and a
\* 5000-byte text, 9 hex digits, a 2000-byte file, the field listing, and
\* two rejected ones.
MCProbeArgs ==
    { [kind |-> "none", len |-> 0], [kind |-> "text", len |-> 1],
      [kind |-> "text", len |-> 5000], [kind |-> "hex", len |-> 9],
      [kind |-> "file", len |-> 2000], [kind |-> "template-fields", len |-> 0],
      [kind |-> "nocolon", len |-> 0], [kind |-> "template", len |-> 100] }

\* The stall run: the default message only.
MCDefaultArgs == { [kind |-> "none", len |-> 0] }
====
