----------------------------- MODULE SenderScan -----------------------------
(***************************************************************************)
(* What a sender thread promises about the probes it builds, stated        *)
(* without batches, budgets, locks or the stop conditions: each thread     *)
(* walks its own shard forwards, probes a target it reaches with the       *)
(* probe numbers 0 .. packet_streams - 1 in order and before any other     *)
(* target, skips targets that are not on the list of IPs when one is       *)
(* given, and reports completion only between two targets.  It may stop   *)
(* early and may skip targets: what it must never do is go back, repeat a  *)
(* target, leave a target half probed, or probe after it reported.         *)
(*                                                                         *)
(* SendRun is checked to implement this specification (ScanRefinement in  *)
(* SendRun), the probes to 0.0.0.0 of the loop's first pass set aside.     *)
(***************************************************************************)
EXTENDS Integers, Sequences

CONSTANTS Senders, Listed, PacketStreams, ShardChoices

VARIABLES
    shard,      \* the targets each thread's shard yields, in order
    listMode,   \* a list of IPs is given
    probes,     \* the probes each thread built, in order
    finished    \* the threads that reported completion

vars == <<shard, listMode, probes, finished>>

Last(t) == probes[t][Len(probes[t])]

\* The thread is between two targets: it has probed none yet, or the last
\* probe it built was the last one of its target.
BetweenTargets(t) ==
    probes[t] = <<>> \/ Last(t).stream = PacketStreams - 1

\* The shard position of the target last probed (0 before the first).
LastPos(t) ==
    IF probes[t] = <<>> THEN 0
    ELSE CHOOSE k \in DOMAIN shard[t] :
            shard[t][k].ip = Last(t).ip /\ shard[t][k].port = Last(t).port

Init ==
    /\ shard \in ShardChoices
    /\ listMode \in BOOLEAN
    /\ probes = [t \in Senders |-> <<>>]
    /\ finished = {}

\* The next probe of the target being probed.
NextStream(t) ==
    /\ t \notin finished
    /\ ~BetweenTargets(t)
    /\ probes' = [probes EXCEPT ![t] = Append(@, [Last(t) EXCEPT !.stream = @ + 1])]
    /\ UNCHANGED <<shard, listMode, finished>>

\* The first probe of a target further on in the shard.
NewTarget(t) ==
    /\ t \notin finished
    /\ BetweenTargets(t)
    /\ \E k \in DOMAIN shard[t] :
         /\ k > LastPos(t)
         /\ listMode => shard[t][k].ip \in Listed
         /\ probes' = [probes EXCEPT ![t] = Append(@, [ip |-> shard[t][k].ip,
                                                       port |-> shard[t][k].port,
                                                       stream |-> 0])]
    /\ UNCHANGED <<shard, listMode, finished>>

\* The thread reports completion.
Finish(t) ==
    /\ t \notin finished
    /\ BetweenTargets(t)
    /\ finished' = finished \cup {t}
    /\ UNCHANGED <<shard, listMode, probes>>

Next == \E t \in Senders : NextStream(t) \/ NewTarget(t) \/ Finish(t)

Spec == Init /\ [][Next]_vars

=============================================================================
