---------------------------- MODULE MCEvalHarness ----------------------------
(* One host, where every two phases that overlap meet, and one trial of     *)
(* each kind.  The bounds are such that full marks pass and others do not.  *)
EXTENDS EvalHarness

MCHosts == {1}
MCFault == <<"cpu_contention", "io_stall", "none">>
MCTarget == <<1, 1, 1>>
MCDetectionBound == <<1, 4>>
MCFalseFlagBound == <<3, 4>>
MCNoFaultBound == <<9, 10>>
=============================================================================
