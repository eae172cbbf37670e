---------------------------- MODULE MC_SendRun ----------------------------
(* Model-checking instances of SendRun: two sender threads (thread ids 1   *)
(* and 2, as send_run numbers them) sharing a handful of targets.          *)
EXTENDS SendRun

\* All the ways the shards of two senders can split the targets: any order
\* of the targets, the first k for thread 1 and the rest for thread 2.
SplitShards(T) ==
    {[t \in {1, 2} |-> IF t = 1 THEN SubSeq(p, 1, k)
                                ELSE SubSeq(p, k + 1, Len(p))] :
        p \in SetToSeqs(T), k \in 0..Cardinality(T)}

\* Three addresses on one port; only addresses 1 and 3 are on the list.
MCTargets == [ip : {1, 2, 3}, port : {7}]
MCShards == SplitShards(MCTargets)

\* Thread 1 may send 3 packets: max_packets stops it after 4, one over the
\* budget; thread 2 may scan 2 targets; the other budget of each is unlimited.
MCMaxPackets == [t \in {1, 2} |-> IF t = 1 THEN 3 ELSE 0]
MCMaxTargets == [t \in {1, 2} |-> IF t = 2 THEN 2 ELSE 0]
NoLimit == [t \in {1, 2} |-> 0]

\* Three addresses on two ports, the list holding addresses 2 and 3.
\* Thread 1 reaches (3, 7) through the unlisted (1, 8); thread 2 owns (3, 8).
MCTwoPortShards ==
    {[t \in {1, 2} |->
        IF t = 1 THEN << [ip |-> 1, port |-> 7], [ip |-> 2, port |-> 7],
                         [ip |-> 1, port |-> 8], [ip |-> 3, port |-> 7] >>
                 ELSE << [ip |-> 2, port |-> 8], [ip |-> 3, port |-> 8] >>]}
\* An IPv6 target file of three addresses, shared by the two threads.
MCIpv6Targets == << 11, 12, 13 >>
====
