-------------------------- MODULE MCStragglerReport --------------------------
(* Every choice of durations with a quiet node, and every history of the    *)
(* node's metrics with durations that have a straggler: the ranking does    *)
(* not look at the metrics, nor the root cause at the durations.            *)
EXTENDS StragglerReport

Vector(cpu, io, net) == [cpu_pct |-> cpu, iowait_pct |-> io, net_rx_bytes_s |-> net]
Quiet == Vector(1, 0, 2)
MCReadings == {Quiet, Vector(3, 0, 2), Vector(Unread, 2, 2), Vector(2, Unread, 5)}

Example == [n \in 1 .. 3 |-> IF n = 2 THEN 30 ELSE 1]

MCInit ==
    /\ Init
    /\ samples \in [1 .. MaxSamples -> IF durations = Example THEN Readings ELSE {Quiet}]
    /\ asked = 0 /\ cause = "None"
MCSpec == MCInit /\ [][GetStragglerReport]_rvars
=============================================================================
