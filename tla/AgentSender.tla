---------------------------- MODULE AgentSender ----------------------------
(***************************************************************************)
(* The node agent's SampleSender (agent/src/sender.cpp) and the two        *)
(* threads that share it: main's sampling loop, which enqueues records and *)
(* finally calls Stop(), and the sender thread running RunLoop().          *)
(*                                                                         *)
(* Records are numbered in the order Enqueue() receives them, so a queue   *)
(* is a sequence of numbers.  The sender thread copies a batch from the    *)
(* front of the queue under queue_mutex_, releases the mutex, connects and *)
(* sends, and only then takes the mutex again to erase.  Enqueue() runs    *)
(* between any two of these steps.                                         *)
(*                                                                         *)
(* The network is the kernel's TCP socket as send() and connect() see it:  *)
(* the peer may close the connection, or the service may be down.          *)
(***************************************************************************)
EXTENDS Integers, Sequences, FiniteSets, Functions

CONSTANTS
    MaxQueueSize,   \* AgentConfig::max_queue_size
    MaxBatchSize,   \* kMaxBatchSize
    MaxRecords,     \* bound: records the sampling loop produces
    MaxFaults       \* bound: connection losses and service outages

ASSUME MaxQueueSizeAssumption == MaxQueueSize \in Nat \ {0}
ASSUME MaxBatchSizeAssumption == MaxBatchSize \in Nat \ {0}
ASSUME BoundsAssumption == MaxRecords \in Nat /\ MaxFaults \in Nat

VARIABLES
    main,       \* main(): sampling, in Stop()'s join, returned, or killed
    pc,         \* the sender thread's place in RunLoop
    running,    \* running_
    queue,      \* queue_
    dropped,    \* dropped_count_
    batch,      \* RunLoop's local copy of the front of the queue
    sock,       \* sock_fd_ and what the kernel knows of the peer
    listening,  \* the ingestion service accepts connections
    faults,     \* network faults so far (bounded by MaxFaults)
    produced,   \* history: records passed to Enqueue so far
    sent,       \* history: records of frames send() accepted completely
    evicted     \* history: records Enqueue popped from a full queue

code == <<main, pc, running, queue, dropped, batch>>
net  == <<sock, listening, faults>>
hist == <<produced, sent, evicted>>
vars == <<code, net, hist>>

MainStates   == {"sampling", "joining", "stopped", "killed"}
SenderStates == {"loop", "wait", "connect", "send", "erase", "done"}

(* "none": sock_fd_ < 0.  "halfclosed": the peer's FIN has arrived, the     *)
(* kernel still accepts data.  "broken": the reset that answers such data   *)
(* has arrived too.  "reset": the peer reset an open connection.            *)
SockStates == {"none", "open", "halfclosed", "broken", "reset"}

MinOf(a, b) == IF a < b THEN a ELSE b

Init ==
    /\ main = "sampling" /\ pc = "loop" /\ running = TRUE
    /\ queue = <<>> /\ dropped = 0 /\ batch = <<>>
    /\ sock = "none" /\ listening \in BOOLEAN /\ faults = 0
    /\ produced = 0 /\ sent = {} /\ evicted = {}

Alive == main # "killed"

-----------------------------------------------------------------------------
(* Faulty variants of the actions below, each a slip the C++ could have.    *)
(* No specification uses them: substituted for the action they vary, they   *)
(* show that the properties at the end of this module can fail.             *)

FullOffByOne == Len(queue) > MaxQueueSize

StopKeepsRunning ==
    /\ main = "sampling"
    /\ main' = "joining"
    /\ UNCHANGED <<pc, running, queue, dropped, batch, net, hist>>

TakeWholeQueue ==
    /\ Alive /\ pc = "wait"
    /\ batch' = queue
    /\ pc' = IF queue = <<>> THEN "loop" ELSE "connect"
    /\ UNCHANGED <<main, running, queue, dropped, net, hist>>

SendOkWithoutErase ==
    /\ Alive /\ pc = "send"
    /\ \/ sock = "open" /\ sock' = "open"
       \/ sock = "halfclosed" /\ sock' \in {"halfclosed", "broken"}
    /\ sent' = sent \cup Range(batch)
    /\ pc' = "loop"
    /\ UNCHANGED <<main, running, queue, dropped, batch, listening, faults,
                   produced, evicted>>

SendFailKeepsSocket ==
    /\ Alive /\ pc = "send" /\ sock = "reset"
    /\ pc' = "loop"
    /\ UNCHANGED <<main, running, queue, dropped, batch, net, hist>>

EraseEverything ==
    /\ Alive /\ pc = "erase"
    /\ queue' = <<>>
    /\ pc' = "loop"
    /\ UNCHANGED <<main, running, dropped, batch, net, hist>>

-----------------------------------------------------------------------------
(* The main thread.                                                         *)

Full == Len(queue) >= MaxQueueSize

(* Enqueue(): never waits; a full queue loses its oldest record first.      *)
Enqueue ==
    /\ main = "sampling"
    /\ produced < MaxRecords
    /\ produced' = produced + 1
    /\ queue' = Append(IF Full THEN Tail(queue) ELSE queue, produced + 1)
    /\ dropped' = IF Full THEN dropped + 1 ELSE dropped
    /\ evicted' = IF Full THEN evicted \cup {Head(queue)} ELSE evicted
    /\ UNCHANGED <<main, pc, running, batch, net, sent>>

(* A signal ends the sampling loop; Stop() clears running_ and joins.       *)
RequestStop ==
    /\ main = "sampling"
    /\ main' = "joining"
    /\ running' = FALSE
    /\ UNCHANGED <<pc, queue, dropped, batch, net, hist>>

(* thread_.join() returns once RunLoop has; Stop() then disconnects.        *)
Join ==
    /\ main = "joining"
    /\ pc = "done"
    /\ main' = "stopped"
    /\ sock' = "none"
    /\ UNCHANGED <<pc, running, queue, dropped, batch, listening, faults, hist>>

-----------------------------------------------------------------------------
(* The sender thread.                                                       *)

(* while (running_.load())                                                  *)
CheckRunning ==
    /\ Alive /\ pc = "loop"
    /\ pc' = IF running THEN "wait" ELSE "done"
    /\ UNCHANGED <<main, running, queue, dropped, batch, net, hist>>

(* wait_for() has ended, by its timeout or by Stop(): copy up to a batch    *)
(* from the front; the records stay in the queue.                           *)
TakeBatch ==
    /\ Alive /\ pc = "wait"
    /\ batch' = SubSeq(queue, 1, MinOf(Len(queue), MaxBatchSize))
    /\ pc' = IF queue = <<>> THEN "loop" ELSE "connect"
    /\ UNCHANGED <<main, running, queue, dropped, net, hist>>

(* ConnectIfNeeded(): keep the socket it has, open one, or fail.            *)
KeepConnection ==
    /\ Alive /\ pc = "connect" /\ sock # "none"
    /\ pc' = "send"
    /\ UNCHANGED <<main, running, queue, dropped, batch, net, hist>>

ConnectOk ==
    /\ Alive /\ pc = "connect" /\ sock = "none" /\ listening
    /\ sock' = "open"
    /\ pc' = "send"
    /\ UNCHANGED <<main, running, queue, dropped, batch, listening, faults, hist>>

ConnectFail ==
    /\ Alive /\ pc = "connect" /\ sock = "none"
    /\ pc' = "loop"
    /\ UNCHANGED <<main, running, queue, dropped, batch, net, hist>>

(* SendBatch() returned true: the kernel has the whole frame.  Data for a   *)
(* peer that has closed is answered by a reset, now or later.               *)
SendOk ==
    /\ Alive /\ pc = "send"
    /\ \/ sock = "open" /\ sock' = "open"
       \/ sock = "halfclosed" /\ sock' \in {"halfclosed", "broken"}
    /\ sent' = sent \cup Range(batch)
    /\ pc' = "erase"
    /\ UNCHANGED <<main, running, queue, dropped, batch, listening, faults,
                   produced, evicted>>

(* SendAll() saw send() fail: Disconnect(), the batch stays queued.         *)
SendFail ==
    /\ Alive /\ pc = "send" /\ sock = "reset"
    /\ sock' = "none"
    /\ pc' = "loop"
    /\ UNCHANGED <<main, running, queue, dropped, batch, listening, faults, hist>>

(* send(..., 0) on a broken connection raises SIGPIPE, whose default action *)
(* ends the process: main() handles SIGINT and SIGTERM only.                *)
SendKilled ==
    /\ Alive /\ pc = "send" /\ sock = "broken"
    /\ main' = "killed"
    /\ sock' = "none"
    /\ UNCHANGED <<pc, running, queue, dropped, batch, listening, faults, hist>>

(* Erase as many records from the front as were sent.                       *)
EraseSent ==
    /\ Alive /\ pc = "erase"
    /\ LET n == MinOf(Len(batch), Len(queue))
       IN  queue' = SubSeq(queue, n + 1, Len(queue))
    /\ pc' = "loop"
    /\ UNCHANGED <<main, running, dropped, batch, net, hist>>

-----------------------------------------------------------------------------
(* The environment.                                                         *)

(* The ingestion service closes this connection, cleanly or by a reset, or  *)
(* its reset for data that was under way when it closed arrives.            *)
PeerClose ==
    /\ faults < MaxFaults
    /\ \/ sock = "open" /\ sock' \in {"halfclosed", "reset"}
       \/ sock = "halfclosed" /\ sock' = "broken"
    /\ faults' = faults + 1
    /\ UNCHANGED <<code, listening, hist>>

(* The service goes down, and with it every connection, or comes back.      *)
ServiceDown ==
    /\ listening /\ faults < MaxFaults
    /\ listening' = FALSE
    /\ IF sock = "open" THEN sock' \in {"halfclosed", "reset"} ELSE sock' = sock
    /\ faults' = faults + 1
    /\ UNCHANGED <<code, hist>>

ServiceUp ==
    /\ ~listening
    /\ listening' = TRUE
    /\ UNCHANGED <<code, sock, faults, hist>>

-----------------------------------------------------------------------------
Sender ==
    \/ CheckRunning \/ TakeBatch
    \/ KeepConnection \/ ConnectOk \/ ConnectFail
    \/ SendOk \/ SendFail \/ SendKilled \/ EraseSent

Network == PeerClose \/ ServiceDown \/ ServiceUp

Next == Enqueue \/ RequestStop \/ Join \/ Sender \/ Network

Spec == Init /\ [][Next]_vars

(* The sender thread is scheduled, join() returns, the service comes back,  *)
(* and connecting to a service that is up does not fail forever.  Nothing   *)
(* is assumed of Enqueue, of the signal or of the faults.                   *)
Fairness ==
    /\ WF_vars(Sender) /\ WF_vars(Join) /\ WF_vars(ServiceUp)
    /\ SF_vars(ConnectOk)

-----------------------------------------------------------------------------
(* Properties.                                                              *)

TypeOK ==
    /\ main \in MainStates
    /\ pc \in SenderStates
    /\ running \in BOOLEAN
    /\ queue \in Seq(Nat)
    /\ dropped \in Nat
    /\ batch \in Seq(Nat) /\ Len(batch) <= MaxBatchSize
    /\ sock \in SockStates
    /\ listening \in BOOLEAN
    /\ faults \in 0 .. MaxFaults
    /\ produced \in 0 .. MaxRecords
    /\ sent \subseteq 1 .. produced
    /\ evicted \subseteq 1 .. produced

(* Number of records that left the queue's front so far. *)
Front == produced - Len(queue)

(* The queue is always the latest records, in order and without a gap, and  *)
(* never longer than max_queue_size, however Enqueue's pop_front and        *)
(* RunLoop's erase interleave.                                              *)
QueueIsLatest ==
    /\ Len(queue) <= MinOf(produced, MaxQueueSize)
    /\ \A i \in 1 .. Len(queue) : queue[i] = Front + i

(* Whenever no send is between send() and erase, dropped_count_ is exactly  *)
(* the number of records that have left the queue and never reached the     *)
(* wire: the race between Enqueue and RunLoop changes which record is lost, *)
(* never how many, so the "dropped=" figure main() logs is right.           *)
LossCounted ==
    pc # "erase" => Cardinality(sent) + dropped = Front

(* A batch about to be sent holds no record that was sent before, although  *)
(* failed sends are retried and batches stay queued until they are erased.  *)
NoResend == pc \in {"connect", "send"} => Range(batch) \cap sent = {}

(* What sender.hpp promises: a record that is neither queued nor sent was   *)
(* the oldest of a full queue and was dropped with a queue_overflow event.  *)
LostOnlyByEviction == 1 .. produced \subseteq Range(queue) \cup sent \cup evicted

(* What sender.hpp promises: a lost connection is followed by a reconnect;  *)
(* it does not end the agent.                                               *)
SurvivesPeerClose == Alive

(* Stop() returns, whatever the network did (unless SIGPIPE came first).    *)
StopReturns == main = "joining" ~> main \in {"stopped", "killed"}

(* The sent records leave at most once, in order, in blocks of a batch.     *)
Transfer == INSTANCE RecordTransfer
TransferSpec == Transfer!Spec
=============================================================================
