-------------------------------- MODULE MCTSDB --------------------------------
(***************************************************************************)
(* A store with minutes of two time units and hours of four.  Two pairs;   *)
(* the rows of the first are in two minutes of one hour, and one of them   *)
(* is sent with two values.                                                *)
(***************************************************************************)
EXTENDS TSDB, TLC

CONSTANTS p, q      \* two pairs

MCPairs == {p, q}

Row(pair, ts, value) == [pair |-> pair, ts |-> ts, value |-> value]

MCRows == {Row(p, 1, 10), Row(p, 1, 20), Row(p, 2, 30), Row(q, 0, 10)}

MCWidth == ("1m" :> 2) @@ ("1h" :> 4)
=============================================================================
