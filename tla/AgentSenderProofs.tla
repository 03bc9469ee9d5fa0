------------------------- MODULE AgentSenderProofs -------------------------
(***************************************************************************)
(* Proofs about AgentSender for every queue and batch size and any number  *)
(* of records and faults.  One inductive invariant, Inv, carries them all: *)
(* TypeOK and QueueIsLatest are not inductive alone, because what a step   *)
(* adds to sent or evicted comes out of the batch and the queue.           *)
(***************************************************************************)
EXTENDS AgentSender, FiniteSetTheorems, TLAPS

(* A copied batch is a gap-free block that starts no later than the queue's *)
(* front (Enqueue may have moved the front past it) and is never longer     *)
(* than the queue, so that erase's min() is always the batch's length.      *)
BatchInv ==
    pc \in {"connect", "send", "erase"} =>
        /\ 1 <= Len(batch) /\ Len(batch) <= Len(queue)
        /\ \A i \in 1 .. Len(batch) : batch[i] = batch[1] + i - 1
        /\ 1 <= batch[1] /\ batch[1] <= Front + 1

(* Everything sent lies before the batch under way and, once that batch is  *)
(* erased, before the queue's front.                                        *)
SentInv ==
    /\ pc \in {"connect", "send"} => \A s \in sent : s < batch[1]
    /\ pc = "erase" => \A s \in sent : s < batch[1] + Len(batch)
    /\ pc # "erase" => \A s \in sent : s <= Front

(* LossCounted, and what it becomes between send() and erase.               *)
CountInv ==
    /\ LossCounted
    /\ pc = "erase" => Cardinality(sent) + dropped = Front + Len(batch)

Inv == TypeOK /\ QueueIsLatest /\ BatchInv /\ SentInv /\ CountInv

-----------------------------------------------------------------------------
(* The records of a gap-free batch are an interval.                         *)
LEMMA BatchRange ==
    ASSUME NEW b \in Seq(Nat), 1 <= Len(b),
           \A i \in 1 .. Len(b) : b[i] = b[1] + i - 1
    PROVE  Range(b) = b[1] .. (b[1] + Len(b) - 1)
<1>1. b[1] \in Nat /\ Len(b) \in Nat /\ DOMAIN b = 1 .. Len(b)
  OBVIOUS
<1>2. ASSUME NEW r \in Range(b) PROVE r \in b[1] .. (b[1] + Len(b) - 1)
  <2>1. PICK i \in 1 .. Len(b) : r = b[i]
    BY <1>1 DEF Range
  <2> QED BY <1>1, <2>1
<1>3. ASSUME NEW r \in b[1] .. (b[1] + Len(b) - 1) PROVE r \in Range(b)
  <2> DEFINE i == r - b[1] + 1
  <2>1. i \in 1 .. Len(b) /\ b[1] + i - 1 = r
    BY <1>1
  <2>2. b[i] = r
    <3> HIDE DEF i
    <3> QED BY <1>1, <2>1
  <2> QED BY <1>1, <2>1, <2>2 DEF Range
<1> QED BY <1>2, <1>3

(* Sending a block above everything sent adds exactly its length.           *)
LEMMA SentGrows ==
    ASSUME NEW S, IsFiniteSet(S), NEW a \in Nat, NEW n \in Nat,
           \A s \in S : s \in Nat /\ s < a
    PROVE  Cardinality(S \cup a .. (a + n - 1)) = Cardinality(S) + n
<1>1. /\ IsFiniteSet(a .. (a + n - 1))
      /\ Cardinality(a .. (a + n - 1)) = n
  <2>1. a + n - 1 \in Int
    OBVIOUS
  <2>2. CASE a > a + n - 1
    <3>1. Cardinality(a .. (a + n - 1)) = 0 /\ IsFiniteSet(a .. (a + n - 1))
      BY <2>1, <2>2, FS_Interval
    <3> QED BY <2>2, <3>1
  <2>3. CASE ~(a > a + n - 1)
    <3>1. /\ Cardinality(a .. (a + n - 1)) = a + n - 1 - a + 1
          /\ IsFiniteSet(a .. (a + n - 1))
      BY <2>1, <2>3, FS_Interval
    <3> QED BY <3>1
  <2> QED BY <2>2, <2>3
<1>2. S \cap a .. (a + n - 1) = {}
  OBVIOUS
<1> DEFINE T == a .. (a + n - 1)
<1>3. Cardinality(S \cup T) = Cardinality(S) + Cardinality(T) - Cardinality(S \cap T)
  <2> HIDE DEF T
  <2> QED BY <1>1, FS_Union DEF T
<1>4. Cardinality(S) \in Nat
  BY FS_CardinalityType
<1>5. Cardinality(S \cap T) = 0
  BY <1>2, FS_EmptySet
<1> QED BY <1>1, <1>3, <1>4, <1>5

(* A set of record numbers is finite.                                       *)
LEMMA RecordsFinite ==
    ASSUME NEW p \in Nat, NEW S \in SUBSET (1 .. p)
    PROVE  IsFiniteSet(S) /\ Cardinality(S) \in Nat
<1>1. IsFiniteSet(1 .. p)
  BY FS_Interval
<1>2. IsFiniteSet(S)
  BY <1>1, FS_Subset
<1> QED BY <1>2, FS_CardinalityType

-----------------------------------------------------------------------------
(* A new SampleSender has an empty queue, no batch and nothing sent.        *)
LEMMA InitInv == Init => Inv
<1> SUFFICES ASSUME Init PROVE Inv
  OBVIOUS
<1> USE MaxQueueSizeAssumption, MaxBatchSizeAssumption, BoundsAssumption DEF Init
<1>1. TypeOK
  BY DEF TypeOK, MainStates, SenderStates, SockStates
<1>2. QueueIsLatest
  BY DEF QueueIsLatest, Front, MinOf
<1>3. BatchInv /\ SentInv
  BY DEF BatchInv, SentInv
<1>4. CountInv
  BY FS_EmptySet DEF CountInv, LossCounted, Front
<1> QED BY <1>1, <1>2, <1>3, <1>4 DEF Inv


(* The inductive step, action by action.  Enqueue moves the queue on under  *)
(* a batch in flight; EraseSent takes away exactly the batch's length.      *)
LEMMA EnqueueInv == Inv /\ Enqueue => Inv'
<1> SUFFICES ASSUME Inv, Enqueue PROVE Inv'
  OBVIOUS
<1> USE MaxQueueSizeAssumption, MaxBatchSizeAssumption, BoundsAssumption
<1>1. /\ queue \in Seq(Nat) /\ produced \in Nat /\ dropped \in Nat
      /\ sent \subseteq 1 .. produced /\ evicted \subseteq 1 .. produced
      /\ Len(queue) \in Nat /\ Len(queue) <= produced /\ Len(queue) <= MaxQueueSize
      /\ \A i \in 1 .. Len(queue) : queue[i] = produced - Len(queue) + i
  BY DEF Inv, TypeOK, QueueIsLatest, Front, MinOf
<1>2. CASE Full
  <2>1. queue # <<>> /\ Len(queue) = MaxQueueSize /\ Len(queue) \in Nat \ {0}
    BY <1>1, <1>2 DEF Full
  <2>2. /\ queue' = Append(Tail(queue), produced + 1)
        /\ dropped' = dropped + 1
        /\ evicted' = evicted \cup {Head(queue)}
        /\ produced' = produced + 1 /\ produced < MaxRecords
    BY <1>2 DEF Enqueue
  <2>3. /\ queue' \in Seq(Nat) /\ Len(queue') = Len(queue)
        /\ \A i \in 1 .. Len(queue) :
              queue'[i] = IF i = Len(queue) THEN produced + 1 ELSE queue[i + 1]
    BY <1>1, <2>1, <2>2
  <2>4. Head(queue) \in 1 .. produced
    BY <1>1, <2>1
  <2>5. TypeOK'
    <3>1. /\ produced' \in 0 .. MaxRecords /\ dropped' \in Nat
          /\ 1 .. produced \subseteq 1 .. produced' /\ sent' = sent
      BY <1>1, <2>2 DEF Enqueue
    <3>2. sent' \subseteq 1 .. produced' /\ evicted' \subseteq 1 .. produced'
      BY <1>1, <2>2, <2>4, <3>1
    <3> QED BY <2>3, <3>1, <3>2 DEF Inv, TypeOK, Enqueue, net
  <2>6. QueueIsLatest'
    <3>0. /\ produced' = produced + 1 /\ Len(queue') = Len(queue)
          /\ produced \in Nat /\ Len(queue) \in Nat
      BY <1>1, <2>2, <2>3
    <3>1. ASSUME NEW i \in 1 .. Len(queue)
          PROVE  queue'[i] = produced' - Len(queue') + i
      <4>1. CASE i = Len(queue)
        <5>1. queue'[i] = produced + 1
          BY <2>3, <4>1
        <5> QED BY <3>0, <4>1, <5>1
      <4>2. CASE i # Len(queue)
        <5>1. i \in Nat /\ i + 1 \in 1 .. Len(queue) /\ queue'[i] = queue[i + 1]
          BY <1>1, <2>3, <4>2
        <5>2. queue[i + 1] = produced - Len(queue) + (i + 1)
          BY <1>1, <5>1
        <5> QED BY <3>0, <5>1, <5>2
      <4> QED BY <4>1, <4>2
    <3>2. Len(queue') <= produced' /\ Len(queue') <= MaxQueueSize
      BY <1>1, <2>1, <2>2, <2>3
    <3> QED BY <2>3, <3>1, <3>2 DEF QueueIsLatest, Front, MinOf
  <2>7. Front' = Front + 1 /\ Front \in Nat
    <3>1. Len(queue') = Len(queue) /\ produced' = produced + 1
      BY <2>2, <2>3
    <3> QED BY <1>1, <3>1 DEF Front
  <2>8. BatchInv'
    BY <2>3, <2>7 DEF Inv, TypeOK, BatchInv, Enqueue
  <2>9. SentInv'
    BY <2>7 DEF Inv, TypeOK, SentInv, Enqueue
  <2>10. CountInv'
    <3>1. sent' = sent /\ pc' = pc /\ batch' = batch
      BY DEF Enqueue
    <3>2. Cardinality(sent) \in Nat
      BY <1>1, RecordsFinite
    <3>3. Cardinality(sent') = Cardinality(sent) /\ Len(batch) \in Nat
      BY <3>1 DEF Inv, TypeOK
    <3> HIDE DEF Front
    <3> QED BY <1>1, <2>2, <2>7, <3>1, <3>2, <3>3 DEF Inv, CountInv, LossCounted
  <2> QED BY <2>5, <2>6, <2>8, <2>9, <2>10 DEF Inv
<1>3. CASE ~Full
  <2>1. Len(queue) \in Nat /\ Len(queue) < MaxQueueSize
    BY <1>1, <1>3 DEF Full
  <2>2. /\ queue' = Append(queue, produced + 1)
        /\ dropped' = dropped /\ evicted' = evicted
        /\ produced' = produced + 1 /\ produced < MaxRecords
    BY <1>3 DEF Enqueue
  <2>3. /\ queue' \in Seq(Nat) /\ Len(queue') = Len(queue) + 1
        /\ \A i \in 1 .. Len(queue) + 1 :
              queue'[i] = IF i = Len(queue) + 1 THEN produced + 1 ELSE queue[i]
    BY <1>1, <2>1, <2>2
  <2>4. TypeOK'
    <3>1. /\ produced' \in 0 .. MaxRecords
          /\ 1 .. produced \subseteq 1 .. produced' /\ sent' = sent
      BY <1>1, <2>2 DEF Enqueue
    <3>2. sent' \subseteq 1 .. produced' /\ evicted' \subseteq 1 .. produced'
      BY <1>1, <2>2, <3>1
    <3> QED BY <1>1, <2>2, <2>3, <3>1, <3>2 DEF Inv, TypeOK, Enqueue, net
  <2>5. QueueIsLatest'
    <3>0. /\ produced' = produced + 1 /\ Len(queue') = Len(queue) + 1
          /\ produced \in Nat /\ Len(queue) \in Nat
      BY <1>1, <2>2, <2>3
    <3>1. ASSUME NEW i \in 1 .. Len(queue')
          PROVE  queue'[i] = produced' - Len(queue') + i
      <4>1. i \in Nat /\ i \in 1 .. Len(queue) + 1
        BY <3>0
      <4>2. CASE i = Len(queue) + 1
        <5>1. queue'[i] = produced + 1
          BY <2>3, <4>1, <4>2
        <5> QED BY <3>0, <4>2, <5>1
      <4>3. CASE i # Len(queue) + 1
        <5>1. i \in 1 .. Len(queue) /\ queue'[i] = queue[i]
          BY <2>3, <3>0, <4>1, <4>3
        <5>2. queue[i] = produced - Len(queue) + i
          BY <1>1, <5>1
        <5> QED BY <3>0, <4>1, <5>1, <5>2
      <4> QED BY <4>2, <4>3
    <3>2. Len(queue') <= produced' /\ Len(queue') <= MaxQueueSize
      BY <1>1, <2>1, <3>0
    <3> QED BY <3>1, <3>2 DEF QueueIsLatest, Front, MinOf
  <2>6. Front' = Front /\ Front \in Nat
    BY <1>1, <2>1, <2>2, <2>3 DEF Front
  <2>7. BatchInv'
    BY <2>1, <2>3, <2>6 DEF Inv, TypeOK, BatchInv, Enqueue
  <2>8. SentInv'
    BY <2>6 DEF Inv, TypeOK, SentInv, Enqueue
  <2>9. CountInv'
    BY <2>2, <2>6 DEF Inv, CountInv, LossCounted, Enqueue
  <2> QED BY <2>4, <2>5, <2>7, <2>8, <2>9 DEF Inv
<1> QED BY <1>2, <1>3

(* The copy under the mutex takes the front of the queue.                   *)
LEMMA TakeBatchInv == Inv /\ TakeBatch => Inv'
<1> SUFFICES ASSUME Inv, TakeBatch PROVE Inv'
  OBVIOUS
<1> USE MaxQueueSizeAssumption, MaxBatchSizeAssumption, BoundsAssumption
<1> DEFINE n == MinOf(Len(queue), MaxBatchSize)
<1>1. /\ queue \in Seq(Nat) /\ produced \in Nat /\ Len(queue) \in Nat
      /\ n \in 0 .. Len(queue) /\ n <= MaxBatchSize
      /\ queue # <<>> => n >= 1
  BY DEF Inv, TypeOK, MinOf
<1>2. batch' = SubSeq(queue, 1, n) /\ pc' \in {"loop", "connect"}
  BY DEF TakeBatch
<1>3. /\ batch' \in Seq(Nat) /\ Len(batch') = n
      /\ \A i \in 1 .. n : batch'[i] = queue[i]
  <2> HIDE DEF n
  <2> QED BY <1>1, <1>2
<1>4. TypeOK'
  BY <1>1, <1>2, <1>3 DEF Inv, TypeOK, TakeBatch, SenderStates, net, hist
<1>5. QueueIsLatest' /\ Front' = Front
  BY DEF Inv, QueueIsLatest, Front, TakeBatch, hist
<1>6. BatchInv'
  <2> SUFFICES ASSUME queue # <<>> PROVE BatchInv'
    BY DEF TakeBatch, BatchInv
  <2>1. n \in 1 .. Len(queue) /\ queue' = queue
    BY <1>1 DEF TakeBatch
  <2>2. Front \in Nat /\ \A i \in 1 .. Len(queue) : queue[i] = Front + i
    BY <1>1 DEF Inv, QueueIsLatest, Front, MinOf
  <2> HIDE DEF n
  <2>3. /\ \A i \in 1 .. n : batch'[i] = Front + i
        /\ batch'[1] = Front + 1
    BY <1>1, <1>3, <2>1, <2>2
  <2>4. /\ 1 <= Len(batch') /\ Len(batch') <= Len(queue')
        /\ \A i \in 1 .. Len(batch') : batch'[i] = batch'[1] + i - 1
        /\ 1 <= batch'[1] /\ batch'[1] <= Front' + 1
    BY <1>3, <1>5, <2>1, <2>2, <2>3
  <2> QED BY <2>4 DEF BatchInv
<1>7. SentInv'
  <2>1. \A s \in sent' : s <= Front'
    BY <1>5 DEF Inv, SentInv, TakeBatch, hist
  <2>2. pc' = "connect" => batch'[1] = Front + 1
    <3> SUFFICES ASSUME queue # <<>> PROVE batch'[1] = Front + 1
      BY DEF TakeBatch
    <3> HIDE DEF n
    <3> QED BY <1>1, <1>3 DEF Inv, QueueIsLatest
  <2>3. sent' \subseteq Nat /\ Front \in Nat
    BY <1>1 DEF Inv, TypeOK, QueueIsLatest, Front, MinOf, TakeBatch, hist
  <2>4. Front' \in Nat /\ (pc' = "connect" => \A s \in sent' : s < batch'[1])
    BY <1>5, <2>1, <2>2, <2>3
  <2> QED BY <1>2, <2>1, <2>4 DEF SentInv
<1>8. CountInv'
  BY <1>2, <1>5 DEF Inv, CountInv, LossCounted, TakeBatch, hist
<1> QED BY <1>4, <1>5, <1>6, <1>7, <1>8 DEF Inv

(* A send hands the whole batch to the kernel.                              *)
LEMMA SendOkInv == Inv /\ SendOk => Inv'
<1> SUFFICES ASSUME Inv, SendOk PROVE Inv'
  OBVIOUS
<1> USE MaxQueueSizeAssumption, MaxBatchSizeAssumption, BoundsAssumption
<1> DEFINE first == batch[1]
           last == batch[1] + Len(batch) - 1
<1>1. /\ batch \in Seq(Nat) /\ 1 <= Len(batch) /\ Len(batch) <= Len(queue)
      /\ queue \in Seq(Nat) /\ Len(batch) \in Nat /\ Len(queue) \in Nat
      /\ \A i \in 1 .. Len(batch) : batch[i] = batch[1] + i - 1
      /\ first \in Nat /\ 1 <= first /\ first <= Front + 1
      /\ produced \in Nat /\ Front \in Nat /\ sent \subseteq 1 .. produced
  BY DEF Inv, TypeOK, BatchInv, QueueIsLatest, Front, MinOf, SendOk
<1>2. sent' = sent \cup first .. last
  BY <1>1, BatchRange DEF SendOk
<1>3. last <= produced /\ last \in Int
  BY <1>1 DEF Front
<1>4. \A s \in sent : s \in Nat /\ s < first
  BY <1>1 DEF Inv, SentInv, SendOk
<1>5. TypeOK'
  <2>1. sent' \subseteq 1 .. produced
    <3>1. first \in Nat /\ 1 <= first /\ produced \in Nat
      BY <1>1
    <3> HIDE DEF first, last
    <3>2. first .. last \subseteq 1 .. produced
      BY <1>3, <3>1
    <3> QED BY <1>1, <1>2, <3>2
  <2>2. produced' = produced /\ sock' \in SockStates /\ pc' \in SenderStates
    BY DEF SendOk, SenderStates, SockStates
  <2> QED BY <2>1, <2>2 DEF Inv, TypeOK, SendOk
<1>6. QueueIsLatest' /\ BatchInv' /\ Front' = Front
  BY DEF Inv, QueueIsLatest, BatchInv, Front, SendOk
<1>7. SentInv'
  <2>1. \A s \in sent' : s < batch[1] + Len(batch)
    BY <1>1, <1>2, <1>4
  <2> QED BY <2>1 DEF SentInv, SendOk
<1>8. CountInv'
  <2>1. IsFiniteSet(sent) /\ Cardinality(sent) \in Nat
    BY <1>1, RecordsFinite
  <2>2. Cardinality(sent') = Cardinality(sent) + Len(batch)
    BY <1>1, <1>2, <1>4, <2>1, SentGrows
  <2>3. Cardinality(sent) + dropped = Front
    BY DEF Inv, CountInv, LossCounted, SendOk
  <2>4. dropped \in Nat
    BY DEF Inv, TypeOK
  <2>5. Cardinality(sent') + dropped = Front + Len(batch)
    <3>1. Len(batch) \in Nat /\ Front \in Nat
      BY <1>1
    <3> QED BY <2>1, <2>2, <2>3, <2>4, <3>1
  <2> QED BY <1>6, <2>5 DEF CountInv, LossCounted, SendOk
<1> QED BY <1>5, <1>6, <1>7, <1>8 DEF Inv

(* The erase after a send removes what is left of the batch, and more.      *)
LEMMA EraseSentInv == Inv /\ EraseSent => Inv'
<1> SUFFICES ASSUME Inv, EraseSent PROVE Inv'
  OBVIOUS
<1> USE MaxQueueSizeAssumption, MaxBatchSizeAssumption, BoundsAssumption
<1> DEFINE n == Len(batch)
<1>1. /\ batch \in Seq(Nat) /\ queue \in Seq(Nat) /\ produced \in Nat
      /\ n \in Nat /\ Len(queue) \in Nat /\ 1 <= n /\ n <= Len(queue)
      /\ Len(queue) <= produced /\ Len(queue) <= MaxQueueSize
      /\ batch[1] \in Nat /\ batch[1] <= Front + 1
      /\ \A i \in 1 .. Len(queue) : queue[i] = Front + i
  BY DEF Inv, TypeOK, BatchInv, QueueIsLatest, Front, MinOf, EraseSent
<1>2. MinOf(Len(batch), Len(queue)) = n
  BY <1>1 DEF MinOf
<1>3. queue' = SubSeq(queue, n + 1, Len(queue)) /\ produced' = produced
  BY <1>2 DEF EraseSent, hist
<1>4. /\ queue' \in Seq(Nat) /\ Len(queue') = Len(queue) - n
      /\ \A i \in 1 .. (Len(queue) - n) : queue'[i] = queue[i + n]
  <2> HIDE DEF n
  <2> QED BY <1>1, <1>3
<1>5. Front' = Front + n /\ Front \in Nat
  <2>1. Len(queue') = Len(queue) - n /\ produced' = produced
    BY <1>3, <1>4
  <2> HIDE DEF n
  <2> QED BY <1>1, <2>1 DEF Front
<1>6. TypeOK'
  BY <1>4 DEF Inv, TypeOK, EraseSent, SenderStates, net, hist
<1>7. QueueIsLatest'
  <2>1. \A i \in 1 .. Len(queue') : queue'[i] = Front' + i
    <3> SUFFICES ASSUME NEW i \in 1 .. Len(queue') PROVE queue'[i] = Front' + i
      OBVIOUS
    <3> HIDE DEF n
    <3>1. i \in Nat /\ i \in 1 .. (Len(queue) - n) /\ i + n \in 1 .. Len(queue)
      BY <1>1, <1>4
    <3>2. queue'[i] = queue[i + n] /\ queue[i + n] = Front + (i + n)
      BY <1>1, <1>4, <3>1
    <3> QED BY <1>1, <1>5, <3>1, <3>2
  <2> QED BY <1>1, <1>3, <1>4, <2>1 DEF QueueIsLatest, MinOf
<1>8. BatchInv'
  BY DEF BatchInv, EraseSent
<1>9. SentInv'
  <2>1. \A s \in sent : s \in Nat /\ s < batch[1] + n
    BY <1>1 DEF Inv, TypeOK, SentInv, EraseSent
  <2>2. \A s \in sent' : s <= Front'
    BY <1>1, <1>5, <2>1 DEF EraseSent, hist
  <2> QED BY <2>2 DEF SentInv, EraseSent
<1>10. CountInv'
  BY <1>5 DEF Inv, CountInv, LossCounted, EraseSent, hist
<1> QED BY <1>6, <1>7, <1>8, <1>9, <1>10 DEF Inv

(* The steps that touch neither the queue, the batch nor the history.       *)
LEMMA OtherStepsInv ==
    ASSUME Inv,
           \/ RequestStop \/ Join \/ CheckRunning \/ KeepConnection
           \/ ConnectOk \/ ConnectFail \/ SendFail \/ SendKilled
           \/ Network \/ UNCHANGED vars
    PROVE  Inv'
<1>1. UNCHANGED <<queue, dropped, batch, hist>>
  BY DEF RequestStop, Join, CheckRunning, KeepConnection, ConnectOk, ConnectFail,
         SendFail, SendKilled, Network, PeerClose, ServiceDown, ServiceUp,
         vars, code, net
<1>2. \/ pc' = pc
      \/ pc = "connect" /\ pc' = "send"
      \/ pc # "erase" /\ pc' \in {"loop", "wait", "done"}
  BY DEF RequestStop, Join, CheckRunning, KeepConnection, ConnectOk, ConnectFail,
         SendFail, SendKilled, Network, PeerClose, ServiceDown, ServiceUp,
         vars, code
<1>3. TypeOK'
  <2>1. main' \in MainStates /\ pc' \in SenderStates /\ running' \in BOOLEAN
    BY <1>2 DEF Inv, TypeOK, RequestStop, Join, CheckRunning, KeepConnection,
         ConnectOk, ConnectFail, SendFail, SendKilled, Network, PeerClose,
         ServiceDown, ServiceUp, vars, code, MainStates, SenderStates
  <2>2. sock' \in SockStates /\ listening' \in BOOLEAN /\ faults' \in 0 .. MaxFaults
    <3>1. sock \in SockStates /\ listening \in BOOLEAN /\ faults \in 0 .. MaxFaults
      BY DEF Inv, TypeOK
    <3>2. CASE PeerClose
      BY <3>1, <3>2, BoundsAssumption DEF PeerClose, SockStates
    <3>3. CASE ServiceDown
      <4>1. sock' \in SockStates
        BY <3>1, <3>3, Zenon DEF ServiceDown, SockStates
      <4>2. faults' \in 0 .. MaxFaults
        BY <3>1, <3>3, BoundsAssumption, SMT DEF ServiceDown
      <4>3. listening' \in BOOLEAN
        BY <3>3 DEF ServiceDown
      <4> QED BY <4>1, <4>2, <4>3
    <3>4. CASE ServiceUp
      BY <3>1, <3>4 DEF ServiceUp
    <3>5. CASE Join \/ ConnectOk \/ SendFail \/ SendKilled
      BY <3>1, <3>5 DEF Join, ConnectOk, SendFail, SendKilled, SockStates
    <3>6. CASE RequestStop \/ CheckRunning \/ KeepConnection \/ ConnectFail
               \/ UNCHANGED vars
      BY <3>1, <3>6
         DEF RequestStop, CheckRunning, KeepConnection, ConnectFail, vars, net
    <3> QED BY <3>2, <3>3, <3>4, <3>5, <3>6 DEF Network
  <2> QED BY <1>1, <2>1, <2>2 DEF Inv, TypeOK, hist
<1>4. QueueIsLatest' /\ Front' = Front
  BY <1>1 DEF Inv, QueueIsLatest, Front, hist
<1>5. BatchInv'
  BY <1>1, <1>2, <1>4 DEF Inv, BatchInv, hist
<1>6. SentInv'
  BY <1>1, <1>2, <1>4 DEF Inv, SentInv, hist
<1>7. CountInv'
  BY <1>1, <1>2, <1>4 DEF Inv, CountInv, LossCounted, hist
<1> QED BY <1>3, <1>4, <1>5, <1>6, <1>7 DEF Inv

(* Every step of the two threads and of the kernel keeps Inv.               *)
LEMMA StepInv == Inv /\ [Next]_vars => Inv'
BY EnqueueInv, TakeBatchInv, SendOkInv, EraseSentInv, OtherStepsInv
   DEF Next, Sender

(* SampleSender keeps Inv, for every queue size and batch size.             *)
THEOREM Invariance == Spec => []Inv
BY InitInv, StepInv, PTL DEF Spec

-----------------------------------------------------------------------------
(* Type correctness of SampleSender's state and of the history.             *)
THEOREM TypeCorrect == Spec => []TypeOK
<1>1. Inv => TypeOK
  BY DEF Inv
<1> QED BY <1>1, Invariance, PTL

(* Enqueue's pop_front and RunLoop's erase leave a gap-free tail, for every *)
(* queue size and batch size.                                               *)
THEOREM QueueStaysLatest == Spec => []QueueIsLatest
<1>1. Inv => QueueIsLatest
  BY DEF Inv
<1> QED BY <1>1, Invariance, PTL

(* The "dropped=" count of main() is the number of records that never       *)
(* reached the wire, however often a batch was overtaken by an overflow.    *)
THEOREM LossIsCounted == Spec => []LossCounted
<1>1. Inv => LossCounted
  BY DEF Inv, CountInv
<1> QED BY <1>1, Invariance, PTL

(* A batch under way starts after everything sent before.                   *)
LEMMA BatchIsUnsent == Inv => NoResend
<1> SUFFICES ASSUME Inv PROVE NoResend
  OBVIOUS
<1> SUFFICES ASSUME pc \in {"connect", "send"} PROVE Range(batch) \cap sent = {}
  BY DEF NoResend
<1>1. /\ batch \in Seq(Nat) /\ 1 <= Len(batch)
      /\ \A i \in 1 .. Len(batch) : batch[i] = batch[1] + i - 1
      /\ sent \subseteq Nat /\ \A s \in sent : s < batch[1]
  BY DEF Inv, TypeOK, BatchInv, SentInv
<1>2. Range(batch) = batch[1] .. (batch[1] + Len(batch) - 1)
  BY <1>1, BatchRange
<1>3. batch[1] \in Nat
  BY <1>1
<1> QED BY <1>1, <1>2, <1>3

(* RunLoop never puts a record on the wire twice.                           *)
THEOREM NeverResent == Spec => []NoResend
BY BatchIsUnsent, Invariance, PTL

(* A successful send is a Send of RecordTransfer, an Enqueue a Produce, any *)
(* other step none.                                                         *)
LEMMA TransferStep ==
    ASSUME Inv, [Next]_vars PROVE [Transfer!Next]_Transfer!vars
<1>1. CASE Enqueue
  BY <1>1 DEF Enqueue, Transfer!Next, Transfer!Produce
<1>2. CASE SendOk
  <2> DEFINE first == batch[1]
             last == batch[1] + Len(batch) - 1
  <2>1. /\ batch \in Seq(Nat) /\ 1 <= Len(batch) /\ Len(batch) <= Len(queue)
        /\ \A i \in 1 .. Len(batch) : batch[i] = batch[1] + i - 1
        /\ first \in Nat /\ 1 <= first /\ first <= Front + 1
        /\ Len(batch) \in Nat /\ Len(batch) <= MaxBatchSize
        /\ produced \in Nat /\ queue \in Seq(Nat) /\ Len(queue) \in Nat
        /\ Len(queue) <= produced
        /\ \A s \in sent : s < first
    <3>1. pc = "send"
      BY <1>2 DEF SendOk
    <3>2. /\ batch \in Seq(Nat) /\ Len(batch) <= MaxBatchSize
          /\ queue \in Seq(Nat) /\ produced \in Nat
          /\ Len(batch) \in Nat /\ Len(queue) \in Nat
      BY DEF Inv, TypeOK
    <3>3. Len(queue) <= produced
      BY <3>2, MaxQueueSizeAssumption DEF Inv, QueueIsLatest, MinOf
    <3>4. /\ 1 <= Len(batch) /\ Len(batch) <= Len(queue)
          /\ \A i \in 1 .. Len(batch) : batch[i] = batch[1] + i - 1
          /\ 1 <= first /\ first <= Front + 1
      BY <3>1 DEF Inv, BatchInv
    <3>5. first \in Nat
      BY <3>2, <3>4
    <3>6. \A s \in sent : s < first
      BY <3>1 DEF Inv, SentInv
    <3> QED BY <3>2, <3>3, <3>4, <3>5, <3>6
  <2>2. sent' = sent \cup first .. last /\ produced' = produced
    BY <1>2, <2>1, BatchRange DEF SendOk
  <2>3. /\ first \in 1 .. produced /\ last \in 1 .. produced
        /\ first <= last /\ last - first < MaxBatchSize
    BY <2>1, MaxBatchSizeAssumption DEF Front
  <2> HIDE DEF first, last
  <2>4. Transfer!Send
    BY <2>1, <2>2, <2>3 DEF Transfer!Send
  <2> QED BY <2>4 DEF Transfer!Next
<1>3. CASE ~Enqueue /\ ~SendOk
  <2>1. UNCHANGED <<produced, sent>>
    BY <1>3 DEF Next, Sender, RequestStop, Join, CheckRunning, TakeBatch,
       KeepConnection, ConnectOk, ConnectFail, SendFail, SendKilled, EraseSent,
       Network, PeerClose, ServiceDown, ServiceUp, vars, hist
  <2> QED BY <2>1 DEF Transfer!vars
<1> QED BY <1>1, <1>2, <1>3

(* SampleSender implements RecordTransfer, for every queue and batch size.  *)
THEOREM ImplementsTransfer == Spec => TransferSpec
<1>1. Init => Transfer!Init
  BY DEF Init, Transfer!Init
<1> QED BY <1>1, TransferStep, Invariance, PTL DEF Spec, TransferSpec, Transfer!Spec
=============================================================================
