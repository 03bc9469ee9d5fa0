----------------------------- MODULE IngestServer -----------------------------
(***************************************************************************)
(* The TCP side of the ingestion service (ingest_server.py, framing.py,    *)
(* validation.py): one handle_connection coroutine per client on one event *)
(* loop.  Each read returns some bytes, at whatever place the network cut  *)
(* them; _drain_frames then takes frame after frame from the front of the  *)
(* buffer without giving the loop away.                                    *)
(*                                                                         *)
(* A byte is a natural number.  A frame is a tag byte, the length of the   *)
(* payload (four bytes in the code, one here) and the payload.  A batch's  *)
(* payload is its schema version and its samples, a byte each; a phase     *)
(* event is its payload.  BadByte is what the protobuf parser cannot read. *)
(***************************************************************************)
EXTENDS Integers, Sequences, SequencesExt

CONSTANTS
    Conns,          \* the client connections
    FramesOf,       \* FramesOf[c]: the frames client c may send
    MaxFrames,      \* bound: MaxFrames[c] frames are sent in full by client c
    UnknownMetrics, \* samples whose metric_id is not in METRIC_ID_TO_NAME
    BadTimes,       \* samples before the epoch or over a day in the future
    BadByte         \* a byte that makes a payload unreadable

SampleBatchTag == 1     \* FRAME_TAG_SAMPLE_BATCH
PhaseEventTag  == 2     \* FRAME_TAG_PHASE_EVENT
KnownTags      == {SampleBatchTag, PhaseEventTag}
Supported      == {1}   \* SUPPORTED_SCHEMA_VERSIONS
HeaderLength   == 2     \* FRAME_HEADER_LENGTH

Frames == [tag : Nat, payload : Seq(Nat)]

ASSUME FramesAssumption == \A c \in Conns : FramesOf[c] \subseteq Frames
ASSUME MaxFramesAssumption == MaxFrames \in [Conns -> Nat]

VARIABLES
    pending,    \* bytes sent by the client and not read yet
    hungup,     \* the client has closed its end
    buffer,     \* handle_connection's buffer
    draining,   \* the event loop is inside _drain_frames of this connection
    status,     \* "open", or what closed the connection: "eof", "error", "reset"
    reasons,    \* the reason codes logged for this connection
    samples,    \* the rows of the samples table
    events,     \* the rows of the phase_events table
    sent,       \* history: the frames the client sent in full
    cut,        \* history: the bytes of the frame it did not finish
    handled     \* history: the frames decoded and handled

client == <<pending, hungup, sent, cut>>
vars == <<client, buffer, draining, status, reasons, samples, events, handled>>

Encode(f) == <<f.tag, Len(f.payload)>> \o f.payload

Init ==
    /\ pending = [c \in Conns |-> <<>>] /\ hungup = [c \in Conns |-> FALSE]
    /\ buffer = [c \in Conns |-> <<>>] /\ draining = [c \in Conns |-> FALSE]
    /\ status = [c \in Conns |-> "open"] /\ reasons = [c \in Conns |-> {}]
    /\ samples = {} /\ events = {}
    /\ sent = [c \in Conns |-> <<>>] /\ cut = [c \in Conns |-> <<>>]
    /\ handled = [c \in Conns |-> <<>>]

server == <<buffer, draining, status, reasons, samples, events, handled>>

-----------------------------------------------------------------------------
(* The client: sends frames, then closes its end, perhaps inside a frame.   *)

ClientSends(c) ==
    /\ ~hungup[c] /\ Len(sent[c]) < MaxFrames[c]
    /\ \E f \in FramesOf[c] :
         /\ pending' = [pending EXCEPT ![c] = @ \o Encode(f)]
         /\ sent' = [sent EXCEPT ![c] = Append(@, f)]
    /\ UNCHANGED <<hungup, cut, server>>

ClientHangsUp(c) ==
    /\ ~hungup[c]
    /\ \E f \in FramesOf[c] : \E n \in 0 .. Len(Encode(f)) - 1 :
         /\ cut' = [cut EXCEPT ![c] = SubSeq(Encode(f), 1, n)]
         /\ pending' = [pending EXCEPT ![c] = @ \o SubSeq(Encode(f), 1, n)]
    /\ hungup' = [hungup EXCEPT ![c] = TRUE]
    /\ UNCHANGED <<sent, server>>

-----------------------------------------------------------------------------
(* decode_frame and validate_batch.                                         *)

(* The frame at the front of b ends here, if b is long enough for a header. *)
FrameLength(b) == HeaderLength + b[2]

Complete(b) == Len(b) >= HeaderLength /\ Len(b) >= FrameLength(b)

FirstFrame(b) ==
    [tag |-> b[1], payload |-> SubSeq(b, HeaderLength + 1, FrameLength(b))]

Parses(payload) == BadByte \notin ToSet(payload)

(* A faulty variant: the time of a sample is not looked at.                 *)
AcceptedAtAnyTime(f) ==
    IF f.tag = SampleBatchTag /\ f.payload # <<>> /\ Head(f.payload) \in Supported
      THEN ToSet(Tail(f.payload)) \ UnknownMetrics
      ELSE {}

(* A faulty variant: one bad sample costs the whole batch.                  *)
AcceptedAllOrNothing(f) ==
    IF /\ f.tag = SampleBatchTag /\ f.payload # <<>> /\ Head(f.payload) \in Supported
       /\ ToSet(Tail(f.payload)) \cap (UnknownMetrics \cup BadTimes) = {}
      THEN ToSet(Tail(f.payload))
      ELSE {}

(* The samples of a batch that go to the store: none for an unknown schema  *)
(* version (an empty message has version 0), else all but the bad ones.     *)
Accepted(f) ==
    IF f.tag = SampleBatchTag /\ f.payload # <<>> /\ Head(f.payload) \in Supported
      THEN ToSet(Tail(f.payload)) \ (UnknownMetrics \cup BadTimes)
      ELSE {}

EventsIn(f) == IF f.tag = PhaseEventTag THEN {f.payload} ELSE {}

LoopFree == \A c \in Conns : ~draining[c]

-----------------------------------------------------------------------------
(* handle_connection.                                                       *)

(* reader.read returns n bytes and _drain_frames begins.                    *)
ReadChunk(c) ==
    /\ LoopFree /\ status[c] = "open" /\ pending[c] # <<>>
    /\ \E n \in 1 .. Len(pending[c]) :
         /\ buffer' = [buffer EXCEPT ![c] = @ \o SubSeq(pending[c], 1, n)]
         /\ pending' = [pending EXCEPT ![c] = SubSeq(@, n + 1, Len(@))]
    /\ draining' = [draining EXCEPT ![c] = TRUE]
    /\ UNCHANGED <<hungup, sent, cut, status, reasons, samples, events, handled>>

EofReasonOf(b) ==
    IF Len(b) >= HeaderLength THEN {"partial_frame"}
    ELSE IF Len(b) > 0 THEN {"truncated_frame"} ELSE {}

AtEof(c) == LoopFree /\ status[c] = "open" /\ pending[c] = <<>> /\ hungup[c]

(* Faulty variants: only a payload's bytes count as a partial frame; a      *)
(* connection with bytes left over waits for the rest of the frame.         *)
ReadEofReasonOffByOne(c) ==
    /\ AtEof(c)
    /\ status' = [status EXCEPT ![c] = "eof"]
    /\ reasons' = [reasons EXCEPT ![c] = @ \cup
                     IF Len(buffer[c]) > HeaderLength THEN {"partial_frame"}
                     ELSE IF Len(buffer[c]) > 0 THEN {"truncated_frame"} ELSE {}]
    /\ UNCHANGED <<client, buffer, draining, samples, events, handled>>

ReadEofWaitsForRest(c) ==
    /\ AtEof(c) /\ buffer[c] = <<>>
    /\ status' = [status EXCEPT ![c] = "eof"]
    /\ UNCHANGED <<client, buffer, draining, reasons, samples, events, handled>>

(* An empty read: log what is left over, and close.                         *)
ReadEof(c) ==
    /\ AtEof(c)
    /\ status' = [status EXCEPT ![c] = "eof"]
    /\ reasons' = [reasons EXCEPT ![c] = @ \cup EofReasonOf(buffer[c])]
    /\ UNCHANGED <<client, buffer, draining, samples, events, handled>>

(* The connection is reset: read raises, and the finally clause closes it.  *)
ReadReset(c) ==
    /\ LoopFree /\ status[c] = "open"
    /\ status' = [status EXCEPT ![c] = "reset"]
    /\ UNCHANGED <<client, buffer, draining, reasons, samples, events, handled>>

-----------------------------------------------------------------------------
(* _drain_frames, one turn of its loop at a time.                           *)

TagKnown(c) == buffer[c] # <<>> /\ buffer[c][1] \in KnownTags

(* An unknown tag is seen at the first byte; the buffer is thrown away and  *)
(* the connection stays open.                                               *)
UnknownTag(c) ==
    /\ draining[c] /\ buffer[c] # <<>> /\ ~TagKnown(c)
    /\ reasons' = [reasons EXCEPT ![c] = @ \cup {"unknown_frame_tag"}]
    /\ buffer' = [buffer EXCEPT ![c] = <<>>]
    /\ draining' = [draining EXCEPT ![c] = FALSE]
    /\ UNCHANGED <<client, status, samples, events, handled>>

(* No complete frame: back to the await.                                    *)
NeedMore(c) ==
    /\ draining[c]
    /\ buffer[c] = <<>> \/ (TagKnown(c) /\ ~Complete(buffer[c]))
    /\ draining' = [draining EXCEPT ![c] = FALSE]
    /\ UNCHANGED <<client, buffer, status, reasons, samples, events, handled>>

AtFrame(c) == draining[c] /\ TagKnown(c) /\ Complete(buffer[c])

RemoveFrame(c) ==
    buffer' = [buffer EXCEPT ![c] = SubSeq(@, FrameLength(@) + 1, Len(@))]

(* A faulty variant: what was read behind the first frame is thrown away.   *)
HandleFrameClearsBuffer(c) ==
    /\ AtFrame(c)
    /\ LET f == FirstFrame(buffer[c])
       IN  /\ Parses(f.payload)
           /\ samples' = samples \cup Accepted(f)
           /\ events' = events \cup EventsIn(f)
           /\ handled' = [handled EXCEPT ![c] = Append(@, f)]
    /\ buffer' = [buffer EXCEPT ![c] = <<>>]
    /\ UNCHANGED <<client, draining, status, reasons>>

(* A complete frame is removed, parsed, validated and stored.               *)
HandleFrame(c) ==
    /\ AtFrame(c)
    /\ LET f == FirstFrame(buffer[c])
       IN  /\ Parses(f.payload)
           /\ samples' = samples \cup Accepted(f)
           /\ events' = events \cup EventsIn(f)
           /\ handled' = [handled EXCEPT ![c] = Append(@, f)]
    /\ RemoveFrame(c)
    /\ UNCHANGED <<client, draining, status, reasons>>

(* ParseFromString raises, or the store does: nothing catches it before the *)
(* finally clause, so no reason is logged and the connection is closed.     *)
HandlerRaises(c) ==
    /\ AtFrame(c)
    /\ LET f == FirstFrame(buffer[c])
       IN  ~Parses(f.payload) \/ Accepted(f) # {} \/ EventsIn(f) # {}
    /\ RemoveFrame(c)
    /\ draining' = [draining EXCEPT ![c] = FALSE]
    /\ status' = [status EXCEPT ![c] = "error"]
    /\ UNCHANGED <<client, reasons, samples, events, handled>>

Serve(c) ==
    \/ ReadChunk(c) \/ ReadEof(c)
    \/ UnknownTag(c) \/ NeedMore(c) \/ HandleFrame(c) \/ HandlerRaises(c)

Next ==
    \E c \in Conns : ClientSends(c) \/ ClientHangsUp(c) \/ ReadReset(c) \/ Serve(c)

Spec == Init /\ [][Next]_vars

(* The event loop runs every coroutine that can run.                        *)
FairSpec == Spec /\ \A c \in Conns : WF_vars(Serve(c))

-----------------------------------------------------------------------------
(* Properties.                                                              *)

(* At most one coroutine is between two awaits, only on an open connection, *)
(* and no sample that fails validation gets into the table.                 *)
TypeOK ==
    /\ pending \in [Conns -> Seq(Nat)] /\ buffer \in [Conns -> Seq(Nat)]
    /\ cut \in [Conns -> Seq(Nat)]
    /\ sent \in [Conns -> Seq(Frames)] /\ handled \in [Conns -> Seq(Frames)]
    /\ hungup \in [Conns -> BOOLEAN] /\ draining \in [Conns -> BOOLEAN]
    /\ status \in [Conns -> {"open", "eof", "error", "reset"}]
    /\ reasons \in
         [Conns -> SUBSET {"partial_frame", "truncated_frame", "unknown_frame_tag"}]
    /\ \A c \in Conns : draining[c] => status[c] = "open"
    /\ \A c, d \in Conns : (draining[c] /\ draining[d]) => c = d
    /\ samples \subseteq Nat \ (UnknownMetrics \cup BadTimes)
    /\ events \subseteq Seq(Nat)

WellFramed(c) ==
    /\ \A i \in DOMAIN sent[c] : sent[c][i].tag \in KnownTags
    /\ cut[c] = <<>> \/ cut[c][1] \in KnownTags

(* However the network cuts the byte stream, a client that frames correctly *)
(* has its frames decoded as sent and in order; at its end all of them.     *)
DecodesWhatWasSent ==
    \A c \in Conns : WellFramed(c) =>
        /\ IsPrefix(handled[c], sent[c])
        /\ status[c] = "eof" => handled[c] = sent[c]

(* Whatever the other connections send and however theirs fail, a well      *)
(* framed connection that ended in order left each valid sample and event   *)
(* in the store: a bad sample costs the batch nothing but itself.           *)
CompleteFramesStored ==
    \A c \in Conns : (WellFramed(c) /\ status[c] = "eof") =>
        \A i \in DOMAIN sent[c] :
            LET f == sent[c][i]
            IN  /\ (f.tag = SampleBatchTag /\ f.payload # <<>> /\ f.payload[1] \in Supported) =>
                     \A j \in 2 .. Len(f.payload) :
                         f.payload[j] \in samples \cup UnknownMetrics \cup BadTimes
                /\ f.tag = PhaseEventTag => f.payload \in events

(* The reason logged at the end of a stream is the client's view of it: a   *)
(* frame cut behind its header is partial_frame, one cut inside the header  *)
(* truncated_frame, and a stream that ends with a frame has no reason.      *)
EofReasonIsTrue ==
    \A c \in Conns : (WellFramed(c) /\ status[c] = "eof") =>
        reasons[c] = IF cut[c] = <<>> THEN {}
                     ELSE IF Len(cut[c]) < HeaderLength THEN {"truncated_frame"}
                     ELSE {"partial_frame"}

(* A client that has closed its end does not keep a connection: the server  *)
(* reads it to the end and closes, however it was framed.                   *)
HangupIsNoticed == \A c \in Conns : hungup[c] ~> status[c] # "open"

(* The comment in _drain_frames: on an unknown tag "the connection is       *)
(* dropped rather than risk misinterpreting an arbitrary byte as a new      *)
(* header", so every frame handled is one the client sent.                  *)
NoByteIsMisread ==
    \A c \in Conns : \A i \in DOMAIN handled[c] : handled[c][i] \in ToSet(sent[c])
=============================================================================
