------------------------------ MODULE Pipeline ------------------------------
(***************************************************************************)
(* The path of a record from an agent to the store: AgentSender composed   *)
(* with the connection and the ingestion service behind it.  A frame that  *)
(* send() accepted is on the wire until handle_connection has decoded it   *)
(* and insert_samples has committed it (IngestServer and TSDB show these   *)
(* two in detail).  There is no acknowledgement: a connection that ends    *)
(* takes with it the frames the service has not handled.                   *)
(***************************************************************************)
EXTENDS AgentSender

VARIABLES
    wire,       \* batches sent on the live connection, not handled yet
    stored,     \* records in the samples table
    lost        \* history: records of batches that went with a connection

pipe  == <<wire, stored, lost>>
pvars == <<vars, pipe>>

OnWire == UNION {Range(wire[i]) : i \in DOMAIN wire}

PipeInit == Init /\ wire = <<>> /\ stored = {} /\ lost = {}

-----------------------------------------------------------------------------
(* A faulty variant of Handle: the frame read last is handled first.        *)
HandleLastFirst ==
    /\ wire # <<>>
    /\ stored' = stored \cup Range(wire[Len(wire)])
    /\ wire' = SubSeq(wire, 1, Len(wire) - 1)
    /\ UNCHANGED <<vars, lost>>

(* _drain_frames: one frame of the stream, decoded, validated and stored.   *)
Handle ==
    /\ wire # <<>>
    /\ stored' = stored \cup Range(Head(wire))
    /\ wire' = Tail(wire)
    /\ UNCHANGED <<vars, lost>>

(* A frame for a peer that has closed goes nowhere.                         *)
Transmit ==
    /\ SendOk
    /\ IF sock = "open"
         THEN wire' = Append(wire, batch) /\ UNCHANGED lost
         ELSE lost' = lost \cup Range(batch) /\ UNCHANGED wire
    /\ UNCHANGED stored

(* handle_connection raises or ends, or the service goes down; the agent    *)
(* may have disconnected by then.                                           *)
HandlerRaises ==
    /\ sock = "none" /\ wire # <<>> /\ faults < MaxFaults
    /\ faults' = faults + 1
    /\ UNCHANGED <<code, sock, listening, hist>>

ConnectionEnds ==
    /\ PeerClose \/ ServiceDown \/ HandlerRaises
    /\ wire' = <<>>
    /\ lost' = lost \cup OnWire
    /\ UNCHANGED stored

AgentOnly ==
    \/ Enqueue \/ RequestStop \/ Join \/ CheckRunning \/ TakeBatch
    \/ KeepConnection \/ ConnectOk \/ ConnectFail \/ SendFail \/ SendKilled
    \/ EraseSent \/ ServiceUp

PipeNext ==
    \/ AgentOnly /\ UNCHANGED pipe
    \/ Transmit \/ Handle \/ ConnectionEnds

PipeSpec == PipeInit /\ [][PipeNext]_pvars

(* As for the agent; and the service's event loop runs.                     *)
PipeFairSpec == PipeSpec /\ Fairness /\ WF_pvars(Handle)

-----------------------------------------------------------------------------
(* Properties.                                                              *)

(* The samples table, too, receives each record at most once, in order, in  *)
(* blocks of a batch: a send that failed never left a whole frame behind,   *)
(* so no retry stores a record twice.                                       *)
Delivery == INSTANCE RecordTransfer WITH sent <- stored
DeliverySpec == Delivery!Spec

(* A gap in the stored series has one of two causes: the agent counted a    *)
(* dropped record, or a connection took the record with it.  An operator    *)
(* who reads "dropped=0" and saw no reconnect has every record.             *)
GapsAreExplained ==
    LET gaps == {r \in 1 .. produced \ (stored \cup lost) : \E s \in stored : r < s}
    IN  Cardinality(gaps) <= dropped

(* While the agent runs, a queued record is eventually stored, unless the   *)
(* queue pushes it out or its connection ends with it under way.            *)
Left(r) == r \in stored \cup lost \/ (r \notin Range(queue) /\ r \notin sent)
QueuedIsStored ==
    \A r \in 1 .. MaxRecords :
        r \in Range(queue) ~> (Left(r) \/ main # "sampling")
=============================================================================
