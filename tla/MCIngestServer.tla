---------------------------- MODULE MCIngestServer ----------------------------
(***************************************************************************)
(* Two clients of the ingestion service: one that frames correctly, and    *)
(* one that sends a batch of an unknown schema version, an unreadable      *)
(* payload and a frame with an unknown tag.                                *)
(***************************************************************************)
EXTENDS IngestServer

CONSTANTS good, bad     \* the two connections

Frame(tag, payload) == [tag |-> tag, payload |-> payload]

MCConns == {good, bad}

(* Sample 3 is valid, 5 has an unknown metric, 6 a bad time.                *)
MCFramesOf ==
    (good :> {Frame(1, <<1, 5, 6, 3>>), Frame(2, <<>>)}) @@
    (bad  :> {Frame(1, <<2>>), Frame(1, <<0>>), Frame(7, <<1>>)})

MCMaxFrames == (good :> 2) @@ (bad :> 1)
=============================================================================
