---------------------------- MODULE PipelineProofs ----------------------------
(***************************************************************************)
(* Proofs about Pipeline: what is proved of SampleSender alone holds of it *)
(* in front of the connection and the service, and what they do together:  *)
(* the samples table implements RecordTransfer too, and every gap in it    *)
(* was counted as dropped or went with a connection.                       *)
(***************************************************************************)
EXTENDS Pipeline, AgentSenderProofs

(* The batches on the wire are gap-free blocks of records, in order, and    *)
(* all of them come after what is stored.                                   *)
WireInv ==
    /\ wire \in Seq(Seq(Nat))
    /\ \A i \in 1 .. Len(wire) :
          /\ 1 <= Len(wire[i]) /\ Len(wire[i]) <= MaxBatchSize
          /\ \A k \in 1 .. Len(wire[i]) : wire[i][k] = wire[i][1] + k - 1
          /\ \A s \in stored : s < wire[i][1]
    /\ \A i, j \in 1 .. Len(wire) :
          i < j => wire[i][1] + Len(wire[i]) <= wire[j][1]

(* Whatever send() accepted is stored, on the wire, or lost.                *)
PlaceInv == sent = stored \cup lost \cup OnWire

PInv == Inv /\ WireInv /\ PlaceInv

-----------------------------------------------------------------------------
(* The records on a wire are those of its first batch and of the others.    *)
LEMMA WireTail ==
    ASSUME NEW w \in Seq(Seq(Nat)), w # <<>>
    PROVE  UNION {Range(w[i]) : i \in DOMAIN w} =
             Range(Head(w)) \cup (UNION {Range(Tail(w)[i]) : i \in DOMAIN Tail(w)})
<1>1. /\ Len(w) \in Nat \ {0} /\ DOMAIN w = 1 .. Len(w) /\ Head(w) = w[1]
      /\ DOMAIN Tail(w) = 1 .. Len(w) - 1
      /\ \A i \in 1 .. Len(w) - 1 : Tail(w)[i] = w[i + 1]
  OBVIOUS
<1>2. ASSUME NEW i \in DOMAIN w, i # 1 PROVE i - 1 \in DOMAIN Tail(w) /\ Tail(w)[i - 1] = w[i]
  BY <1>1, <1>2
<1>3. ASSUME NEW i \in DOMAIN Tail(w) PROVE i + 1 \in DOMAIN w /\ Tail(w)[i] = w[i + 1]
  BY <1>1
<1>4. 1 \in DOMAIN w
  BY <1>1
<1> QED BY <1>1, <1>2, <1>3, <1>4

-----------------------------------------------------------------------------
(* At first nothing is on the wire and nothing stored.                      *)
LEMMA PInitInv == PipeInit => PInv
<1> SUFFICES ASSUME PipeInit PROVE PInv
  OBVIOUS
<1>1. Inv
  BY InitInv DEF PipeInit
<1>2. wire = <<>> /\ stored = {} /\ lost = {} /\ sent = {}
  BY DEF PipeInit, Init
<1>3. WireInv
  BY <1>2 DEF WireInv
<1>4. PlaceInv
  BY <1>2 DEF PlaceInv, OnWire
<1> QED BY <1>1, <1>3, <1>4 DEF PInv

(* Every step but HandlerRaises is one of the agent and its network, and    *)
(* HandlerRaises is one more fault.                                         *)
LEMMA AgentInvKept == Inv /\ [PipeNext]_pvars => Inv'
<1>1. ASSUME Inv, HandlerRaises PROVE Inv'
  <2>1. /\ UNCHANGED <<code, sock, listening, hist>>
        /\ faults' \in 0 .. MaxFaults
    BY <1>1, BoundsAssumption DEF HandlerRaises, Inv, TypeOK
  <2>2. TypeOK'
    BY <1>1, <2>1 DEF Inv, TypeOK, code, hist
  <2> QED BY <1>1, <2>1, <2>2 DEF Inv, QueueIsLatest, Front, BatchInv, SentInv, CountInv,
        LossCounted, code, hist
<1>2. ASSUME [PipeNext]_pvars, ~HandlerRaises PROVE [Next]_vars
  BY <1>2 DEF PipeNext, AgentOnly, Transmit, Handle, ConnectionEnds, Next, Sender, Network, pvars
<1> QED BY <1>1, <1>2, StepInv

(* A step of the agent alone leaves wire and table alone.                   *)
LEMMA AgentOnlyPlaces ==
    ASSUME PInv, AgentOnly \/ UNCHANGED vars, UNCHANGED pipe PROVE WireInv' /\ PlaceInv'
<1>1. UNCHANGED sent
  BY DEF AgentOnly, Enqueue, RequestStop, Join, CheckRunning, TakeBatch, KeepConnection,
     ConnectOk, ConnectFail, SendFail, SendKilled, EraseSent, ServiceUp, vars, hist
<1> QED BY <1>1 DEF PInv, WireInv, PlaceInv, OnWire, pipe

(* The service stores the oldest frame on the wire.                         *)
LEMMA HandlePlaces == ASSUME PInv, Handle PROVE WireInv' /\ PlaceInv'
<1>1. /\ wire \in Seq(Seq(Nat)) /\ wire # <<>>
      /\ stored' = stored \cup Range(Head(wire)) /\ wire' = Tail(wire)
      /\ UNCHANGED <<vars, lost>>
  BY DEF PInv, WireInv, Handle
<1>2. /\ Len(wire) \in Nat \ {0} /\ Head(wire) = wire[1] /\ wire[1] \in Seq(Nat)
      /\ wire' \in Seq(Seq(Nat)) /\ Len(wire') = Len(wire) - 1
      /\ \A i \in 1 .. Len(wire) - 1 : wire'[i] = wire[i + 1]
      /\ \A i \in 1 .. Len(wire) : wire[i] \in Seq(Nat) /\ Len(wire[i]) \in Nat
  BY <1>1
<1>3. \A i \in 1 .. Len(wire) : wire[i][1] \in Nat
  BY <1>2 DEF PInv, WireInv
<1>4. Range(wire[1]) = wire[1][1] .. (wire[1][1] + Len(wire[1]) - 1)
  <2>1. 1 \in 1 .. Len(wire)
    BY <1>2
  <2>2. 1 <= Len(wire[1]) /\ \A k \in 1 .. Len(wire[1]) : wire[1][k] = wire[1][1] + k - 1
    BY <2>1 DEF PInv, WireInv
  <2> QED BY <1>2, <2>2, BatchRange
<1>5. WireInv'
  <2>1. ASSUME NEW i \in 1 .. Len(wire')
        PROVE  /\ 1 <= Len(wire'[i]) /\ Len(wire'[i]) <= MaxBatchSize
               /\ \A k \in 1 .. Len(wire'[i]) : wire'[i][k] = wire'[i][1] + k - 1
               /\ \A s \in stored' : s < wire'[i][1]
    <3>1. i + 1 \in 1 .. Len(wire) /\ 1 < i + 1 /\ wire'[i] = wire[i + 1]
      BY <1>2
    <3>2. \A s \in stored : s < wire[i + 1][1]
      BY <3>1 DEF PInv, WireInv
    <3>3. wire[1][1] + Len(wire[1]) <= wire[i + 1][1]
      <4>1. 1 \in 1 .. Len(wire)
        BY <1>2
      <4> QED BY <3>1, <4>1 DEF PInv, WireInv
    <3>4. \A s \in Range(wire[1]) : s < wire[i + 1][1]
      <4>1. wire[1][1] \in Nat /\ wire[i + 1][1] \in Nat /\ Len(wire[1]) \in Nat
        BY <1>2, <1>3, <3>1
      <4> QED BY <1>4, <3>3, <4>1
    <3>5. /\ 1 <= Len(wire[i + 1]) /\ Len(wire[i + 1]) <= MaxBatchSize
          /\ \A k \in 1 .. Len(wire[i + 1]) : wire[i + 1][k] = wire[i + 1][1] + k - 1
      BY <3>1 DEF PInv, WireInv
    <3> QED BY <1>1, <1>2, <3>1, <3>2, <3>4, <3>5
  <2>2. ASSUME NEW i \in 1 .. Len(wire'), NEW j \in 1 .. Len(wire'), i < j
        PROVE  wire'[i][1] + Len(wire'[i]) <= wire'[j][1]
    <3>1. /\ i + 1 \in 1 .. Len(wire) /\ wire'[i] = wire[i + 1]
          /\ j + 1 \in 1 .. Len(wire) /\ wire'[j] = wire[j + 1] /\ i + 1 < j + 1
      <4>1. i \in 1 .. Len(wire) - 1 /\ j \in 1 .. Len(wire) - 1
        BY <1>2
      <4>2. /\ i + 1 \in 1 .. Len(wire) /\ j + 1 \in 1 .. Len(wire)
            /\ i + 1 < j + 1
        BY <1>2, <2>2, <4>1
      <4>3. wire'[i] = wire[i + 1] /\ wire'[j] = wire[j + 1]
        BY <1>2, <4>1, Zenon
      <4> QED BY <4>2, <4>3
    <3> QED BY <3>1 DEF PInv, WireInv
  <2> QED BY <1>2, <2>1, <2>2 DEF WireInv
<1>6. PlaceInv'
  <2>1. OnWire = Range(Head(wire)) \cup OnWire'
    BY <1>1, WireTail DEF OnWire
  <2> QED BY <1>1, <2>1 DEF PInv, PlaceInv, vars, hist
<1> QED BY <1>5, <1>6

(* A frame sent on an open connection comes after all others.               *)
LEMMA TransmitPlaces == ASSUME PInv, Transmit PROVE WireInv' /\ PlaceInv'
<1>1. /\ pc = "send" /\ sent' = sent \cup Range(batch) /\ stored' = stored
      /\ \/ wire' = Append(wire, batch) /\ UNCHANGED lost
         \/ lost' = lost \cup Range(batch) /\ UNCHANGED wire
  BY DEF Transmit, SendOk
<1>2. /\ batch \in Seq(Nat) /\ Len(batch) \in Nat
      /\ 1 <= Len(batch) /\ Len(batch) <= MaxBatchSize
      /\ \A k \in 1 .. Len(batch) : batch[k] = batch[1] + k - 1
      /\ \A s \in sent : s < batch[1]
  BY <1>1 DEF PInv, Inv, TypeOK, BatchInv, SentInv
<1>3. batch[1] \in Nat
  BY <1>2
<1>4. CASE lost' = lost \cup Range(batch) /\ UNCHANGED wire
  <2>1. WireInv'
    BY <1>1, <1>4 DEF PInv, WireInv
  <2>2. OnWire' = OnWire
    BY <1>4 DEF OnWire
  <2>3. PlaceInv'
    BY <1>1, <1>4, <2>2 DEF PInv, PlaceInv
  <2> QED BY <2>1, <2>3
<1>5. CASE wire' = Append(wire, batch) /\ UNCHANGED lost
  <2>1. /\ wire \in Seq(Seq(Nat)) /\ Len(wire) \in Nat
        /\ wire' \in Seq(Seq(Nat)) /\ Len(wire') = Len(wire) + 1
        /\ \A i \in 1 .. Len(wire) : wire'[i] = wire[i]
        /\ wire'[Len(wire) + 1] = batch
    BY <1>2, <1>5 DEF PInv, WireInv
  <2>2. ASSUME NEW i \in 1 .. Len(wire) PROVE wire[i][1] + Len(wire[i]) <= batch[1]
    <3>1. /\ wire[i] \in Seq(Nat) /\ 1 <= Len(wire[i]) /\ Len(wire[i]) \in Nat
          /\ \A k \in 1 .. Len(wire[i]) : wire[i][k] = wire[i][1] + k - 1
      <4>1. wire[i] \in Seq(Nat)
        BY <2>1
      <4>2. /\ 1 <= Len(wire[i])
            /\ \A k \in 1 .. Len(wire[i]) : wire[i][k] = wire[i][1] + k - 1
        BY Zenon DEF PInv, WireInv
      <4> QED BY <4>1, <4>2
    <3>2. wire[i][1] \in Nat
      BY <3>1
    <3>3. wire[i][Len(wire[i])] = wire[i][1] + Len(wire[i]) - 1
      BY <3>1
    <3>4. wire[i][Len(wire[i])] \in sent
      <4>1. wire[i][Len(wire[i])] \in Range(wire[i])
        BY <3>1 DEF Range
      <4>2. wire[i][Len(wire[i])] \in OnWire
        BY <2>1, <4>1 DEF OnWire
      <4> QED BY <4>2 DEF PInv, PlaceInv
    <3>5. wire[i][Len(wire[i])] < batch[1]
      BY <1>2, <3>4
    <3> DEFINE a == wire[i][1]
               n == Len(wire[i])
               b == batch[1]
    <3>6. a \in Nat /\ n \in Nat /\ b \in Nat /\ a + n - 1 < b
      BY <1>3, <3>1, <3>2, <3>3, <3>5
    <3> HIDE DEF a, n, b
    <3>7. a + n <= b
      BY <3>6
    <3> QED BY <3>7 DEF a, n, b
  <2>3. \A s \in stored : s < batch[1]
    BY <1>2 DEF PInv, PlaceInv
  <2>4. ASSUME NEW i \in 1 .. Len(wire')
        PROVE  /\ 1 <= Len(wire'[i]) /\ Len(wire'[i]) <= MaxBatchSize
               /\ \A k \in 1 .. Len(wire'[i]) : wire'[i][k] = wire'[i][1] + k - 1
               /\ \A s \in stored' : s < wire'[i][1]
    <3>1. CASE i = Len(wire) + 1
      BY <1>1, <1>2, <2>1, <2>3, <3>1
    <3>2. CASE i # Len(wire) + 1
      <4>1. i \in 1 .. Len(wire) /\ wire'[i] = wire[i]
        BY <2>1, <3>2
      <4> QED BY <1>1, <4>1 DEF PInv, WireInv
    <3> QED BY <3>1, <3>2
  <2>5. ASSUME NEW i \in 1 .. Len(wire'), NEW j \in 1 .. Len(wire'), i < j
        PROVE  wire'[i][1] + Len(wire'[i]) <= wire'[j][1]
    <3>1. i \in 1 .. Len(wire) /\ wire'[i] = wire[i]
      BY <2>1, <2>5
    <3>2. CASE j = Len(wire) + 1
      BY <2>1, <2>2, <3>1, <3>2
    <3>3. CASE j # Len(wire) + 1
      <4>1. j \in 1 .. Len(wire) /\ wire'[j] = wire[j]
        BY <2>1, <3>3
      <4> QED BY <2>5, <3>1, <4>1 DEF PInv, WireInv
    <3> QED BY <3>2, <3>3
  <2>6. WireInv'
    BY <2>1, <2>4, <2>5 DEF WireInv
  <2>7. OnWire' = OnWire \cup Range(batch)
    <3>0. DOMAIN wire = 1 .. Len(wire) /\ DOMAIN wire' = 1 .. Len(wire')
      BY <2>1
    <3>1. /\ Len(wire) + 1 \in DOMAIN wire'
          /\ \A i \in DOMAIN wire : i \in DOMAIN wire' /\ wire'[i] = wire[i]
          /\ \A i \in DOMAIN wire' : i = Len(wire) + 1 \/ i \in DOMAIN wire
      BY <2>1, <3>0
    <3>2. \A r : (\E i \in DOMAIN wire' : r \in Range(wire'[i])) <=>
                   (\E i \in DOMAIN wire : r \in Range(wire[i])) \/ r \in Range(batch)
      BY <2>1, <3>1
    <3>3. /\ \A r : r \in OnWire <=> \E i \in DOMAIN wire : r \in Range(wire[i])
          /\ \A r : r \in OnWire' <=> \E i \in DOMAIN wire' : r \in Range(wire'[i])
      BY DEF OnWire
    <3> HIDE DEF OnWire
    <3> QED BY <3>2, <3>3
  <2>8. PlaceInv'
    BY <1>1, <1>5, <2>7 DEF PInv, PlaceInv
  <2> QED BY <2>6, <2>8
<1> QED BY <1>1, <1>4, <1>5

(* A connection that ends takes the wire with it.                           *)
LEMMA ConnectionEndsPlaces == ASSUME PInv, ConnectionEnds PROVE WireInv' /\ PlaceInv'
<1>1. /\ wire' = <<>> /\ lost' = lost \cup OnWire
      /\ UNCHANGED <<stored, sent>>
  BY DEF ConnectionEnds, PeerClose, ServiceDown, HandlerRaises, hist
<1>2. OnWire' = {}
  BY <1>1 DEF OnWire
<1> QED BY <1>1, <1>2 DEF PInv, PlaceInv, WireInv

(* Every step of agent, connection and service keeps PInv.                  *)
LEMMA PStepInv == PInv /\ [PipeNext]_pvars => PInv'
<1> SUFFICES ASSUME PInv, [PipeNext]_pvars PROVE PInv'
  OBVIOUS
<1>1. Inv'
  BY AgentInvKept DEF PInv
<1>2. WireInv' /\ PlaceInv'
  BY AgentOnlyPlaces, HandlePlaces, TransmitPlaces, ConnectionEndsPlaces
     DEF PipeNext, pvars
<1> QED BY <1>1, <1>2 DEF PInv

(* The pipeline keeps PInv, for every queue size and batch size.            *)
THEOREM PipeInvariance == PipeSpec => []PInv
BY PInitInv, PStepInv, PTL DEF PipeSpec

-----------------------------------------------------------------------------
(* SampleSender in front of the service is type-correct,                    *)
THEOREM PipeTypeCorrect == PipeSpec => []TypeOK
<1>1. PInv => TypeOK
  BY DEF PInv, Inv
<1> QED BY <1>1, PipeInvariance, PTL

(* its queue is the gap-free tail of the records, whatever the connection   *)
(* and the service's handler do,                                            *)
THEOREM PipeQueueStaysLatest == PipeSpec => []QueueIsLatest
<1>1. PInv => QueueIsLatest
  BY DEF PInv, Inv
<1> QED BY <1>1, PipeInvariance, PTL

(* and its "dropped=" count is exact.                                       *)
THEOREM PipeLossIsCounted == PipeSpec => []LossCounted
<1>1. PInv => LossCounted
  BY DEF PInv, Inv, CountInv
<1> QED BY <1>1, PipeInvariance, PTL

(* RunLoop puts no record on the wire twice, with the service behind it,    *)
THEOREM PipeNeverResent == PipeSpec => []NoResend
<1>1. PInv => NoResend
  BY BatchIsUnsent DEF PInv
<1> QED BY <1>1, PipeInvariance, PTL

(* and what send() accepted implements RecordTransfer there too.            *)
THEOREM PipeImplementsTransfer == PipeSpec => TransferSpec
<1>1. PipeInit => Transfer!Init
  BY DEF PipeInit, Init, Transfer!Init
<1>2. ASSUME PInv, [PipeNext]_pvars PROVE [Transfer!Next]_Transfer!vars
  <2>1. CASE [Next]_vars
    BY <1>2, <2>1, TransferStep DEF PInv
  <2>2. CASE HandlerRaises
    BY <2>2 DEF HandlerRaises, Transfer!vars, hist
  <2>3. [Next]_vars \/ HandlerRaises
    BY <1>2 DEF PipeNext, AgentOnly, Transmit, Handle, ConnectionEnds, Next, Sender,
       Network, pvars
  <2> QED BY <2>1, <2>2, <2>3
<1> QED BY <1>1, <1>2, PipeInvariance, PTL DEF PipeSpec, TransferSpec, Transfer!Spec

(* The samples table implements RecordTransfer for any queue, batch and     *)
(* number of faults: it receives each record at most once, in order, in     *)
(* blocks of a batch; Handle is the abstract Send.                          *)
THEOREM StoreImplementsTransfer == PipeSpec => DeliverySpec
<1>1. PipeInit => Delivery!Init
  BY DEF PipeInit, Init, Delivery!Init
<1>2. ASSUME PInv, [PipeNext]_pvars PROVE [Delivery!Next]_Delivery!vars
  <2>1. CASE Handle
    <3>1. /\ stored' = stored \cup Range(Head(wire)) /\ UNCHANGED produced
          /\ wire \in Seq(Seq(Nat)) /\ wire # <<>>
      BY <1>2, <2>1 DEF Handle, PInv, WireInv, vars, hist
    <3>2. /\ 1 \in 1 .. Len(wire) /\ Head(wire) = wire[1] /\ 1 \in DOMAIN wire
          /\ wire[1] \in Seq(Nat) /\ Len(wire[1]) \in Nat
      BY <3>1
    <3>3. /\ 1 <= Len(wire[1]) /\ Len(wire[1]) <= MaxBatchSize
          /\ \A k \in 1 .. Len(wire[1]) : wire[1][k] = wire[1][1] + k - 1
          /\ \A s \in stored : s < wire[1][1]
      BY <1>2, <3>2 DEF PInv, WireInv
    <3> DEFINE first == wire[1][1]
               last == wire[1][1] + Len(wire[1]) - 1
    <3>4. Range(wire[1]) = first .. last
      BY <3>2, <3>3, BatchRange
    <3>5. first \in Nat
      BY <3>2, <3>3
    <3>6. Range(wire[1]) \subseteq 1 .. produced
      <4>1. Range(wire[1]) \subseteq OnWire
        BY <3>2 DEF OnWire
      <4> QED BY <1>2, <4>1 DEF PInv, PlaceInv, Inv, TypeOK
    <3>7. /\ first \in 1 .. produced /\ last \in 1 .. produced
          /\ first <= last /\ last - first < MaxBatchSize
      <4>1. /\ last \in Nat /\ first <= last /\ last - first < MaxBatchSize
            /\ first \in first .. last /\ last \in first .. last
        BY <3>2, <3>3, <3>5, MaxBatchSizeAssumption
      <4> HIDE DEF first, last
      <4> QED BY <3>4, <3>6, <4>1
    <3>8. stored' = stored \cup first .. last /\ \A s \in stored : s < first
      BY <3>1, <3>2, <3>3, <3>4
    <3> HIDE DEF first, last
    <3>9. Delivery!Send
      BY <3>1, <3>7, <3>8 DEF Delivery!Send
    <3> QED BY <3>9 DEF Delivery!Next
  <2>2. CASE Enqueue /\ UNCHANGED pipe
    BY <2>2 DEF Enqueue, pipe, Delivery!Next, Delivery!Produce
  <2>3. CASE ~Handle /\ ~(Enqueue /\ UNCHANGED pipe)
    <3>1. UNCHANGED <<produced, stored>>
      BY <1>2, <2>3 DEF PipeNext, AgentOnly, Transmit, ConnectionEnds, SendOk, HandlerRaises,
         RequestStop, Join, CheckRunning, TakeBatch, KeepConnection, ConnectOk, ConnectFail,
         SendFail, SendKilled, EraseSent, PeerClose, ServiceDown, ServiceUp, pvars, pipe,
         vars, hist
    <3> QED BY <3>1 DEF Delivery!vars
  <2> QED BY <2>1, <2>2, <2>3
<1> QED BY <1>1, <1>2, PipeInvariance, PTL DEF PipeSpec, DeliverySpec, Delivery!Spec

-----------------------------------------------------------------------------
(* What is missing of 1 .. m in a set of records.                           *)
LEMMA Missing ==
    ASSUME NEW m \in Nat, NEW S \in SUBSET (1 .. m), NEW T \in SUBSET ((1 .. m) \ S)
    PROVE  Cardinality(T) <= m - Cardinality(S)
<1>1. IsFiniteSet(S) /\ Cardinality(S) \in Nat /\ IsFiniteSet(T) /\ Cardinality(T) \in Nat
  BY RecordsFinite
<1>2. Cardinality(S \cup T) = Cardinality(S) + Cardinality(T) - Cardinality(S \cap T)
  BY <1>1, FS_Union
<1>3. S \cap T = {} /\ Cardinality({}) = 0
  BY FS_EmptySet
<1>4. Cardinality(S \cap T) = 0
  BY <1>3
<1>5. IsFiniteSet(1 .. m) /\ Cardinality(1 .. m) = m
  <2>1. CASE m = 0
    BY <2>1, FS_Interval
  <2>2. CASE m # 0
    BY <2>2, FS_Interval
  <2> QED BY <2>1, <2>2
<1>6. Cardinality(S \cup T) <= Cardinality(1 .. m)
  BY <1>5, FS_Subset
<1> QED BY <1>1, <1>2, <1>4, <1>5, <1>6

(* A gap in the samples table below a stored record was dropped by Enqueue  *)
(* or lost with a connection, and the dropped count covers the former: no   *)
(* frame is overtaken, stored in part, or lost between the two processes.   *)
THEOREM GapsStayExplained == PipeSpec => []GapsAreExplained
<1>1. ASSUME PInv PROVE GapsAreExplained
  <2> DEFINE gaps == {r \in 1 .. produced \ (stored \cup lost) : \E s \in stored : r < s}
             m == IF pc = "erase" THEN Front + Len(batch) ELSE Front
  <2>1. /\ queue \in Seq(Nat) /\ batch \in Seq(Nat) /\ produced \in Nat /\ dropped \in Nat
        /\ sent \subseteq 1 .. produced /\ Len(queue) \in Nat /\ Len(batch) \in Nat
    BY <1>1 DEF PInv, Inv, TypeOK
  <2>2. Front \in Nat
    BY <1>1, <2>1, MaxQueueSizeAssumption DEF PInv, Inv, QueueIsLatest, Front, MinOf
  <2>3. m \in Nat /\ Cardinality(sent) + dropped = m
    BY <1>1, <2>1, <2>2 DEF PInv, Inv, CountInv, LossCounted
  <2>4. sent \subseteq 1 .. m
    <3>1. CASE pc = "erase"
      <4>1. /\ 1 <= Len(batch) /\ batch[1] <= Front + 1
            /\ \A s \in sent : s < batch[1] + Len(batch)
        BY <1>1, <3>1 DEF PInv, Inv, BatchInv, SentInv
      <4>2. batch[1] \in Nat
        BY <2>1, <4>1
      <4> QED BY <2>1, <2>2, <3>1, <4>1, <4>2
    <3>2. CASE pc # "erase"
      BY <1>1, <2>1, <2>2, <3>2 DEF PInv, Inv, SentInv
    <3> QED BY <3>1, <3>2
  <2>5. ASSUME NEW r \in gaps PROVE r \in (1 .. m) \ sent
    <3>1. PICK s \in stored : r < s
      OBVIOUS
    <3>2. r \in 1 .. produced /\ r \notin stored /\ r \notin lost
      OBVIOUS
    <3>3. s \in 1 .. m
      BY <1>1, <2>4 DEF PInv, PlaceInv
    <3>4. r \in 1 .. m
      BY <2>1, <2>3, <3>1, <3>2, <3>3
    <3>5. r \notin OnWire
      <4> SUFFICES ASSUME NEW i \in DOMAIN wire, r \in Range(wire[i]) PROVE FALSE
        BY DEF OnWire
      <4>1. /\ wire \in Seq(Seq(Nat)) /\ i \in 1 .. Len(wire) /\ wire[i] \in Seq(Nat)
            /\ Len(wire[i]) \in Nat
        BY <1>1 DEF PInv, WireInv
      <4>2. /\ 1 <= Len(wire[i]) /\ s < wire[i][1]
            /\ \A k \in 1 .. Len(wire[i]) : wire[i][k] = wire[i][1] + k - 1
        BY <1>1, <4>1 DEF PInv, WireInv
      <4>3. wire[i][1] \in Nat /\ Range(wire[i]) = wire[i][1] .. (wire[i][1] + Len(wire[i]) - 1)
        BY <4>1, <4>2, BatchRange
      <4> QED BY <2>3, <3>1, <3>3, <3>4, <4>1, <4>2, <4>3
    <3> QED BY <1>1, <3>2, <3>4, <3>5 DEF PInv, PlaceInv
  <2>6. Cardinality(gaps) <= m - Cardinality(sent)
    <3> HIDE DEF gaps, m
    <3>1. gaps \in SUBSET ((1 .. m) \ sent)
      BY <2>5
    <3> QED BY <2>3, <2>4, <3>1, Missing
  <2>7. Cardinality(sent) \in Nat
    BY <2>1, RecordsFinite
  <2> HIDE DEF gaps, m
  <2>8. Cardinality(gaps) <= dropped
    BY <2>1, <2>3, <2>6, <2>7
  <2> QED BY <2>8 DEF GapsAreExplained, gaps
<1> QED BY <1>1, PipeInvariance, PTL
=============================================================================
