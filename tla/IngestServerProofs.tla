-------------------------- MODULE IngestServerProofs --------------------------
(***************************************************************************)
(* Proofs about IngestServer for any connections, frames, and metrics:     *)
(* the frames of a client that frames correctly are decoded as sent, its   *)
(* samples and events are stored, and the reason logged at its end is true,*)
(* wherever the network cuts the stream and whatever other clients do.     *)
(*                                                                         *)
(* DecodesWhatWasSent is not inductive: it says nothing of the bytes on    *)
(* their way.  The inductive invariant Inv adds where in the client's      *)
(* stream the server is: what is buffered and pending is exactly the       *)
(* encoding of the frames not handled yet and of the cut frame after them. *)
(* The rest of the stream at each frame is given by a function, which      *)
(* spares the proof an induction over the frames.                          *)
(***************************************************************************)
EXTENDS IngestServer, SequenceTheorems, TLAPS

(* The rests of the stream of c: rest[i] is what follows its first i frames.*)
Rests(c) ==
    {rest \in [0 .. Len(sent[c]) -> Seq(Nat)] :
        /\ rest[Len(sent[c])] = cut[c]
        /\ \A i \in 1 .. Len(sent[c]) : rest[i - 1] = Encode(sent[c][i]) \o rest[i]}

(* The bytes not decoded yet are the rest of the stream at the next frame.  *)
StreamInv(c) == WellFramed(c) =>
    /\ Len(handled[c]) <= Len(sent[c])
    /\ \A i \in 1 .. Len(handled[c]) : handled[c][i] = sent[c][i]
    /\ status[c] \in {"open", "eof"} =>
          \E rest \in Rests(c) : rest[Len(handled[c])] = buffer[c] \o pending[c]

(* A frame is cut only by the end of the stream, and never complete; what   *)
(* is left in the buffer at an await is not complete either.                *)
CutInv(c) ==
    /\ ~hungup[c] => cut[c] = <<>>
    /\ ~Complete(cut[c])
    /\ (status[c] = "open" /\ ~draining[c]) => ~Complete(buffer[c])
    /\ status[c] = "eof" => hungup[c]

(* Until the end of the stream of a well framed connection nothing is       *)
(* logged, and its end is that of the client.                               *)
EofInv(c) == WellFramed(c) =>
    /\ status[c] = "open" => reasons[c] = {}
    /\ status[c] = "eof" =>
          handled[c] = sent[c] /\ reasons[c] = EofReasonOf(cut[c])

(* What a frame has for the store is in the store once it is handled.       *)
StoreInv(c) == \A i \in 1 .. Len(handled[c]) :
    Accepted(handled[c][i]) \subseteq samples /\ EventsIn(handled[c][i]) \subseteq events

ConnInv(c) == StreamInv(c) /\ CutInv(c) /\ EofInv(c) /\ StoreInv(c)

Inv == TypeOK /\ \A c \in Conns : ConnInv(c)

-----------------------------------------------------------------------------

(* Byte sequences may be joined in any order.                               *)
LEMMA JoinIsAssociative ==
    \A a, b, d \in Seq(Nat) : (a \o b) \o d = a \o (b \o d)
BY ConcatAssociative

(* The first of two joined sequences is at the front.                       *)
LEMMA FrontOfConcat ==
    ASSUME NEW a \in Seq(Nat), NEW b \in Seq(Nat), NEW i \in 1 .. Len(a)
    PROVE  (a \o b)[i] = a[i] /\ i \in Nat /\ i >= 1 /\ a[i] \in Nat
<1>1. Len(a) \in Nat /\ Len(b) \in Nat
  BY LenProperties
<1>2. i \in 1 .. Len(a) + Len(b) /\ i \in Nat /\ i >= 1 /\ i <= Len(a)
  BY <1>1
<1>3. (a \o b)[i] = IF i <= Len(a) THEN a[i] ELSE b[i - Len(a)]
  BY <1>2, ConcatProperties
<1>4. a[i] \in Nat
  BY ElementOfSeq
<1> QED BY <1>2, <1>3, <1>4

(* EncodeFrame puts tag and length in front of the payload.                 *)
LEMMA EncodeIs ==
    ASSUME NEW f \in Frames
    PROVE  /\ Encode(f) \in Seq(Nat) /\ f.tag \in Nat /\ f.payload \in Seq(Nat)
           /\ Len(f.payload) \in Nat
           /\ Len(Encode(f)) = 2 + Len(f.payload)
           /\ Encode(f)[1] = f.tag /\ Encode(f)[2] = Len(f.payload)
           /\ \A i \in 1 .. Len(f.payload) : Encode(f)[i + 2] = f.payload[i]
<1> DEFINE h == <<f.tag, Len(f.payload)>>
           p == f.payload
<1>1. f.tag \in Nat /\ p \in Seq(Nat) /\ Len(p) \in Nat
  BY LenProperties DEF Frames
<1>2. h \in Seq(Nat) /\ Len(h) = 2 /\ h[1] = f.tag /\ h[2] = Len(p)
  BY <1>1
<1>3. Encode(f) = h \o p
  BY DEF Encode
<1> HIDE DEF h, p
<1>4. /\ h \o p \in Seq(Nat) /\ Len(h \o p) = 2 + Len(p)
      /\ \A i \in 1 .. 2 + Len(p) : (h \o p)[i] = IF i <= 2 THEN h[i] ELSE p[i - 2]
  <2>1. /\ h \o p \in Seq(Nat) /\ Len(h \o p) = Len(h) + Len(p)
        /\ \A i \in 1 .. Len(h) + Len(p) :
              (h \o p)[i] = IF i <= Len(h) THEN h[i] ELSE p[i - Len(h)]
    BY <1>1, <1>2, ConcatProperties
  <2> QED BY <2>1, <1>2
<1>5. (h \o p)[1] = f.tag /\ (h \o p)[2] = Len(p)
  BY <1>1, <1>2, <1>4
<1>6. \A i \in 1 .. Len(p) : (h \o p)[i + 2] = p[i]
  BY <1>1, <1>4
<1> QED BY <1>1, <1>3, <1>4, <1>5, <1>6 DEF p

(* A complete frame in the buffer stays complete when bytes follow.         *)
LEMMA MoreStaysComplete ==
    ASSUME NEW b \in Seq(Nat), NEW p \in Seq(Nat), Complete(b)
    PROVE  Complete(b \o p)
<1>1. /\ Len(b) \in Nat /\ Len(p) \in Nat /\ Len(b) >= 2 /\ Len(b) >= 2 + b[2]
      /\ b[2] \in Nat
  BY LenProperties DEF Complete, HeaderLength, FrameLength
<1>2. /\ Len(b \o p) = Len(b) + Len(p)
      /\ (b \o p)[2] = b[2]
  BY <1>1, ConcatProperties
<1> QED BY <1>1, <1>2 DEF Complete, HeaderLength, FrameLength

(* decode_frame does not take a part of a frame for a frame.                *)
LEMMA PartIsIncomplete ==
    ASSUME NEW f \in Frames, NEW n \in 0 .. Len(Encode(f)) - 1
    PROVE  /\ SubSeq(Encode(f), 1, n) \in Seq(Nat)
           /\ ~Complete(SubSeq(Encode(f), 1, n))
<1> DEFINE e == Encode(f)
           s == SubSeq(e, 1, n)
<1>1. /\ e \in Seq(Nat) /\ Len(f.payload) \in Nat
      /\ Len(e) = 2 + Len(f.payload) /\ e[2] = Len(f.payload)
  BY EncodeIs
<1>2. n \in 0 .. Len(e) - 1
  OBVIOUS
<1> HIDE DEF e
<1>3. n \in Nat /\ n < Len(e)
  BY <1>1, <1>2
<1>4. \A i \in 1 .. n : e[i] \in Nat
  BY <1>1, <1>3, ElementOfSeq
<1>5. s \in Seq(Nat) /\ Len(s) = n /\ \A i \in 1 .. n : s[i] = e[i]
  BY <1>3, <1>4
<1>6. ~Complete(s)
  BY <1>1, <1>3, <1>5 DEF Complete, HeaderLength, FrameLength
<1> QED BY <1>5, <1>6 DEF e

(* The bytes b, with p on their way behind them, are f and what follows it. *)
StartsWith(b, p, f, rest) == b \o p = Encode(f) \o rest

(* What is left of them once the frame at the front of b is taken.          *)
LeftOf(b, p) == SubSeq(b, FrameLength(b) + 1, Len(b)) \o p

(* What decode_frame takes from the front of a well framed stream is its    *)
(* next frame, and leaves what follows it.                                  *)
LEMMA FrontFrame ==
    ASSUME NEW f \in Frames, NEW r \in Seq(Nat), NEW b \in Seq(Nat), NEW p \in Seq(Nat),
           StartsWith(b, p, f, r), Complete(b)
    PROVE  FirstFrame(b) = f /\ LeftOf(b, p) = r
<1> DEFINE e == Encode(f)
           m == Len(f.payload)
           n == Len(b)
<1>1. /\ e \in Seq(Nat) /\ m \in Nat /\ Len(e) = 2 + m /\ e[1] = f.tag /\ e[2] = m
      /\ f.payload \in Seq(Nat) /\ \A i \in 1 .. m : e[i + 2] = f.payload[i]
  BY EncodeIs
<1>2. n \in Nat /\ n >= 2 /\ n >= 2 + b[2] /\ b[2] \in Nat
  BY LenProperties DEF Complete, HeaderLength, FrameLength
<1>3. f = [tag |-> f.tag, payload |-> f.payload]
  BY DEF Frames
<1>4. b \o p = e \o r
  BY DEF StartsWith
<1> HIDE DEF e, m
<1>5. \A i \in 1 .. n : (b \o p)[i] = b[i] /\ i \in Nat /\ b[i] \in Nat
  BY FrontOfConcat
<1>6. \A i \in 1 .. Len(e) : (e \o r)[i] = e[i] /\ i \in Nat
  BY <1>1, FrontOfConcat
<1>7. b[1] = f.tag /\ b[2] = m
  <2>1. 1 \in 1 .. n /\ 2 \in 1 .. n /\ 1 \in 1 .. Len(e) /\ 2 \in 1 .. Len(e)
    BY <1>1, <1>2
  <2>2. (b \o p)[1] = b[1] /\ (b \o p)[2] = b[2]
    BY <1>5, <2>1
  <2>3. (e \o r)[1] = e[1] /\ (e \o r)[2] = e[2]
    BY <1>6, <2>1
  <2> QED BY <2>2, <2>3, <1>1, <1>4
<1>8. FrameLength(b) = 2 + m /\ 2 + m <= n
  BY <1>2, <1>7 DEF FrameLength, HeaderLength
<1>9. ASSUME NEW i \in 1 .. 2 + m PROVE b[i] = e[i] /\ b[i] \in Nat
  <2>1. i \in 1 .. n /\ i \in 1 .. Len(e)
    BY <1>1, <1>2, <1>8
  <2>2. (b \o p)[i] = b[i] /\ b[i] \in Nat
    BY <1>5, <2>1
  <2>3. (e \o r)[i] = e[i]
    BY <1>6, <2>1
  <2> QED BY <2>2, <2>3, <1>4
<1>10. SubSeq(b, 1, 2 + m) = e
  <2>1. /\ SubSeq(b, 1, 2 + m) \in Seq(Nat) /\ Len(SubSeq(b, 1, 2 + m)) = 2 + m
        /\ \A i \in 1 .. 2 + m : SubSeq(b, 1, 2 + m)[i] = b[i]
    BY <1>1, <1>9
  <2> QED BY <2>1, <1>1, <1>9, SeqEqual
<1>11. SubSeq(b, 3, 2 + m) = f.payload
  <2>1. \A i \in 3 .. 2 + m : b[i] \in Nat
    BY <1>1, <1>9
  <2>2. /\ SubSeq(b, 3, 2 + m) \in Seq(Nat) /\ Len(SubSeq(b, 3, 2 + m)) = m
        /\ \A i \in 1 .. m : SubSeq(b, 3, 2 + m)[i] = b[i + 2]
    BY <1>1, <2>1
  <2>3. ASSUME NEW i \in 1 .. m PROVE SubSeq(b, 3, 2 + m)[i] = f.payload[i]
    <3>1. i + 2 \in 1 .. 2 + m
      BY <1>1
    <3>2. b[i + 2] = e[i + 2]
      BY <3>1, <1>9
    <3>3. e[i + 2] = f.payload[i]
      BY <1>1
    <3> QED BY <2>2, <3>2, <3>3
  <2>4. Len(f.payload) = m
    BY DEF m
  <2> QED BY <2>2, <2>3, <2>4, <1>1, SeqEqual
<1>12. \A i \in 3 + m .. n : b[i] \in Nat
  BY <1>1, <1>2, <1>5
<1>13. FirstFrame(b) = f
  BY <1>7, <1>8, <1>11, <1>3 DEF FirstFrame, HeaderLength
<1>14. SubSeq(b, 3 + m, n) \o p = r
  <2> DEFINE t == SubSeq(b, 3 + m, n)
  <2>1. t \in Seq(Nat)
    <3>1. 3 + m \in Int /\ n \in Int
      BY <1>1, <1>2
    <3> QED BY <3>1, <1>12, SubSeqProperties, Zenon
  <2>2. e \o t = b
    <3>1. /\ 1 \in 1 .. n + 1 /\ 2 + m \in 1 - 1 .. n /\ n \in 2 + m .. n
          /\ (2 + m) + 1 = 3 + m
      BY <1>1, <1>2, <1>8
    <3>2. SubSeq(b, 1, 2 + m) \o SubSeq(b, (2 + m) + 1, n) = SubSeq(b, 1, n)
      BY <3>1, ConcatAdjacentSubSeq
    <3>3. SubSeq(b, 1, n) = b
      BY SubSeqFull
    <3> QED BY <3>1, <3>2, <3>3, <1>10
  <2> HIDE DEF t
  <2>3. t \o p \in Seq(Nat)
    BY <2>1, ConcatProperties
  <2>4. (e \o t) \o p = e \o (t \o p)
    <3>1. e \in Seq(Nat) /\ t \in Seq(Nat) /\ p \in Seq(Nat)
      BY <2>1, <1>1
    <3> QED BY <3>1, JoinIsAssociative, Zenon
  <2>5. e \o (t \o p) = e \o r
    BY <2>2, <2>4, <1>4
  <2>6. t \o p = r
    BY <2>3, <2>5, <1>1, ConcatSimplifications
  <2> QED BY <2>6 DEF t
<1>15. FrameLength(b) + 1 = 3 + m
  BY <1>1, <1>8
<1> QED BY <1>13, <1>14, <1>15 DEF LeftOf

-----------------------------------------------------------------------------
(* A step leaves a connection alone.                                        *)
Untouched(d) ==
    /\ pending'[d] = pending[d] /\ hungup'[d] = hungup[d] /\ buffer'[d] = buffer[d]
    /\ draining'[d] = draining[d] /\ status'[d] = status[d] /\ reasons'[d] = reasons[d]
    /\ sent'[d] = sent[d] /\ cut'[d] = cut[d] /\ handled'[d] = handled[d]

StoreGrows == samples \subseteq samples' /\ events \subseteq events'

(* A step on one connection leaves the invariant of the others alone.       *)
LEMMA UntouchedKeeps ==
    ASSUME NEW d \in Conns, ConnInv(d), Untouched(d), StoreGrows
    PROVE  ConnInv(d)'
<1>1. Rests(d)' = Rests(d) /\ (WellFramed(d)' <=> WellFramed(d))
  BY DEF Untouched, Rests, WellFramed
<1>2. StreamInv(d)'
  BY <1>1 DEF ConnInv, StreamInv, Untouched
<1>3. CutInv(d)'
  BY DEF ConnInv, CutInv, Untouched
<1>4. EofInv(d)'
  BY <1>1 DEF ConnInv, EofInv, Untouched
<1>5. StoreInv(d)'
  BY DEF ConnInv, StoreInv, Untouched, StoreGrows
<1> QED BY <1>2, <1>3, <1>4, <1>5 DEF ConnInv

(* A step of one connection is checked on that connection.                  *)
LEMMA OneConnection ==
    ASSUME Inv, NEW c \in Conns, TypeOK', StoreGrows,
           \A d \in Conns \ {c} : Untouched(d), ConnInv(c)'
    PROVE  Inv'
<1>1. ASSUME NEW d \in Conns PROVE ConnInv(d)'
  <2>1. CASE d = c
    BY <2>1
  <2>2. CASE d # c
    <3>1. ConnInv(d) /\ Untouched(d)
      BY <2>2 DEF Inv
    <3> QED BY <3>1, UntouchedKeeps
  <2> QED BY <2>1, <2>2
<1> QED BY <1>1 DEF Inv

(* Where the server is in the stream of a well framed open connection.      *)
LEMMA NextFrame ==
    ASSUME Inv, NEW c \in Conns, WellFramed(c), status[c] = "open"
    PROVE  /\ Len(handled[c]) = Len(sent[c]) => buffer[c] \o pending[c] = cut[c]
           /\ Len(handled[c]) # Len(sent[c]) =>
                \E rest \in Rests(c) :
                    /\ Len(handled[c]) + 1 \in 1 .. Len(sent[c])
                    /\ sent[c][Len(handled[c]) + 1] \in Frames
                    /\ rest[Len(handled[c]) + 1] \in Seq(Nat)
                    /\ buffer[c] \o pending[c] =
                         Encode(sent[c][Len(handled[c]) + 1]) \o rest[Len(handled[c]) + 1]
<1> DEFINE k == Len(handled[c])
           n == Len(sent[c])
<1>1. sent[c] \in Seq(Frames) /\ handled[c] \in Seq(Frames) /\ k \in Nat /\ n \in Nat
  BY LenProperties DEF Inv, TypeOK
<1>2. k <= n
  BY DEF Inv, ConnInv, StreamInv
<1>3. PICK rest \in Rests(c) : rest[k] = buffer[c] \o pending[c]
  BY DEF Inv, ConnInv, StreamInv
<1>4. /\ rest \in [0 .. n -> Seq(Nat)] /\ rest[n] = cut[c]
      /\ \A i \in 1 .. n : rest[i - 1] = Encode(sent[c][i]) \o rest[i]
  BY DEF Rests
<1>5. ASSUME k # n
      PROVE  /\ k + 1 \in 1 .. n /\ sent[c][k + 1] \in Frames /\ rest[k + 1] \in Seq(Nat)
             /\ rest[k] = Encode(sent[c][k + 1]) \o rest[k + 1]
  <2> HIDE DEF k
  <2>1. k + 1 \in 1 .. n /\ k + 1 \in 0 .. n /\ (k + 1) - 1 = k
    BY <1>1, <1>2, <1>5
  <2>2. sent[c][k + 1] \in Frames
    BY <1>1, <2>1, ElementOfSeq
  <2>3. rest[(k + 1) - 1] = Encode(sent[c][k + 1]) \o rest[k + 1]
    BY <1>4, <2>1
  <2> HIDE DEF n
  <2>4. rest[k + 1] \in Seq(Nat)
    BY <1>4, <2>1
  <2> QED BY <2>1, <2>2, <2>3, <2>4
<1> QED BY <1>3, <1>4, <1>5

-----------------------------------------------------------------------------
(* Cutting a sequence in two loses nothing.                                 *)
LEMMA CutInTwo ==
    ASSUME NEW b \in Seq(Nat), NEW p \in Seq(Nat), NEW n \in 1 .. Len(p)
    PROVE  /\ SubSeq(p, 1, n) \in Seq(Nat) /\ SubSeq(p, n + 1, Len(p)) \in Seq(Nat)
           /\ b \o SubSeq(p, 1, n) \in Seq(Nat)
           /\ (b \o SubSeq(p, 1, n)) \o SubSeq(p, n + 1, Len(p)) = b \o p
<1> DEFINE x == SubSeq(p, 1, n)
           y == SubSeq(p, n + 1, Len(p))
<1>1. Len(p) \in Nat /\ n \in Int /\ n + 1 \in Int /\ Len(p) \in Int
  BY LenProperties
<1>2. \A i \in 1 .. Len(p) : p[i] \in Nat
  BY ElementOfSeq
<1>3. (\A i \in 1 .. n : p[i] \in Nat) /\ (\A i \in n + 1 .. Len(p) : p[i] \in Nat)
  BY <1>1, <1>2
<1>4. x \in Seq(Nat)
  <2>1. 1 \in Int
    OBVIOUS
  <2> QED BY <2>1, <1>1, <1>3, SubSeqProperties, Zenon
<1>5. y \in Seq(Nat)
  BY <1>1, <1>3, SubSeqProperties, Zenon
<1>6. x \o y = p
  <2>1. 1 \in 1 .. Len(p) + 1 /\ n \in 1 - 1 .. Len(p) /\ Len(p) \in n .. Len(p)
    BY <1>1
  <2>2. x \o y = SubSeq(p, 1, Len(p))
    BY <2>1, ConcatAdjacentSubSeq
  <2> QED BY <2>2, SubSeqFull
<1> HIDE DEF x, y
<1>7. b \o x \in Seq(Nat)
  BY <1>4, ConcatProperties
<1>8. (b \o x) \o y = b \o (x \o y)
  <2>1. b \in Seq(Nat) /\ x \in Seq(Nat) /\ y \in Seq(Nat)
    BY <1>4, <1>5
  <2> QED BY <2>1, JoinIsAssociative, Zenon
<1> QED BY <1>4, <1>5, <1>6, <1>7, <1>8 DEF x, y

(* reader.read returns the next bytes of the stream.                        *)
LEMMA ReadChunkKeeps ==
    ASSUME Inv, NEW c \in Conns, ReadChunk(c)
    PROVE  Inv'
<1>1. PICK n \in 1 .. Len(pending[c]) :
        /\ buffer' = [buffer EXCEPT ![c] = @ \o SubSeq(pending[c], 1, n)]
        /\ pending' = [pending EXCEPT ![c] = SubSeq(@, n + 1, Len(@))]
  BY DEF ReadChunk
<1>2. /\ LoopFree /\ status[c] = "open" /\ draining' = [draining EXCEPT ![c] = TRUE]
      /\ UNCHANGED <<hungup, sent, cut, status, reasons, samples, events, handled>>
  BY DEF ReadChunk
<1>3. TypeOK
  BY DEF Inv
<1>4. /\ SubSeq(pending[c], n + 1, Len(pending[c])) \in Seq(Nat)
      /\ buffer[c] \o SubSeq(pending[c], 1, n) \in Seq(Nat)
      /\ (buffer[c] \o SubSeq(pending[c], 1, n)) \o SubSeq(pending[c], n + 1, Len(pending[c]))
           = buffer[c] \o pending[c]
  BY <1>3, CutInTwo DEF TypeOK
<1>5. /\ buffer'[c] \o pending'[c] = buffer[c] \o pending[c] /\ draining'[c]
      /\ \A d \in Conns \ {c} : Untouched(d)
  BY <1>1, <1>2, <1>3, <1>4 DEF TypeOK, Untouched
<1>6. TypeOK'
  <2>1. pending' \in [Conns -> Seq(Nat)] /\ buffer' \in [Conns -> Seq(Nat)]
    BY <1>1, <1>3, <1>4 DEF TypeOK
  <2>2. draining' \in [Conns -> BOOLEAN]
    BY <1>2, <1>3 DEF TypeOK
  <2>3. \A d \in Conns : draining'[d] => d = c
    BY <1>2, <1>3 DEF TypeOK, LoopFree
  <2> QED BY <1>2, <1>3, <2>1, <2>2, <2>3 DEF TypeOK
<1>7. ConnInv(c)
  BY DEF Inv
<1>8. Rests(c)' = Rests(c) /\ (WellFramed(c)' <=> WellFramed(c))
  BY <1>2 DEF Rests, WellFramed
<1>9. StreamInv(c)'
  BY <1>2, <1>5, <1>7, <1>8 DEF ConnInv, StreamInv
<1>10. CutInv(c)'
  BY <1>2, <1>5, <1>7 DEF ConnInv, CutInv
<1>11. EofInv(c)' /\ StoreInv(c)'
  BY <1>2, <1>7, <1>8 DEF ConnInv, EofInv, StoreInv
<1> QED BY <1>2, <1>5, <1>6, <1>9, <1>10, <1>11, OneConnection DEF ConnInv, StoreGrows

(* At its end a well framed stream has been decoded to its end.             *)
LEMMA ReadEofKeeps ==
    ASSUME Inv, NEW c \in Conns, ReadEof(c)
    PROVE  Inv'
<1>1. /\ status[c] = "open" /\ ~draining[c] /\ pending[c] = <<>> /\ hungup[c]
      /\ status' = [status EXCEPT ![c] = "eof"]
      /\ reasons' = [reasons EXCEPT ![c] = @ \cup EofReasonOf(buffer[c])]
      /\ UNCHANGED <<client, buffer, draining, samples, events, handled>>
  BY DEF ReadEof, AtEof, LoopFree
<1>2. TypeOK /\ ConnInv(c)
  BY DEF Inv
<1>3. /\ status'[c] = "eof" /\ reasons'[c] = reasons[c] \cup EofReasonOf(buffer[c])
      /\ \A d \in Conns \ {c} : Untouched(d)
  BY <1>1, <1>2 DEF TypeOK, Untouched, client
<1>4. TypeOK'
  <2>1. EofReasonOf(buffer[c]) \subseteq {"partial_frame", "truncated_frame", "unknown_frame_tag"}
    BY DEF EofReasonOf
  <2> QED BY <1>1, <1>2, <2>1 DEF TypeOK, client
<1>5. Rests(c)' = Rests(c) /\ (WellFramed(c)' <=> WellFramed(c))
  BY <1>1 DEF Rests, WellFramed, client
<1>6. ASSUME WellFramed(c) PROVE handled[c] = sent[c] /\ buffer[c] = cut[c]
  <2>1. /\ buffer[c] \in Seq(Nat) /\ sent[c] \in Seq(Frames) /\ handled[c] \in Seq(Frames)
        /\ buffer[c] \o pending[c] = buffer[c]
    BY <1>1, <1>2 DEF TypeOK
  <2>2. Len(handled[c]) = Len(sent[c])
    <3> SUFFICES ASSUME Len(handled[c]) # Len(sent[c]) PROVE FALSE
      OBVIOUS
    <3>1. PICK f \in Frames, r \in Seq(Nat) : buffer[c] = Encode(f) \o r
      BY <1>1, <1>6, <2>1, NextFrame
    <3>2. Encode(f) \in Seq(Nat) /\ Complete(Encode(f))
      BY EncodeIs DEF Complete, HeaderLength, FrameLength
    <3>3. Complete(buffer[c])
      BY <3>1, <3>2, MoreStaysComplete
    <3> QED BY <1>1, <1>2, <3>3 DEF ConnInv, CutInv
  <2>3. buffer[c] = cut[c]
    BY <1>1, <1>6, <2>1, <2>2, NextFrame
  <2>4. \A i \in 1 .. Len(handled[c]) : handled[c][i] = sent[c][i]
    BY <1>2, <1>6 DEF ConnInv, StreamInv
  <2>5. handled[c] = sent[c]
    BY <2>1, <2>2, <2>4, SeqEqual
  <2> QED BY <2>3, <2>5
<1>7. StreamInv(c)'
  BY <1>1, <1>2, <1>5 DEF ConnInv, StreamInv, client
<1>8. CutInv(c)'
  BY <1>1, <1>2, <1>3 DEF ConnInv, CutInv, client
<1>9. EofInv(c)'
  BY <1>1, <1>2, <1>3, <1>5, <1>6 DEF ConnInv, EofInv, client
<1>10. StoreInv(c)'
  BY <1>1, <1>2 DEF ConnInv, StoreInv
<1> QED BY <1>1, <1>3, <1>4, <1>7, <1>8, <1>9, <1>10, OneConnection DEF ConnInv, StoreGrows

(* The connection is reset: the finally clause closes it.                   *)
LEMMA ReadResetKeeps ==
    ASSUME Inv, NEW c \in Conns, ReadReset(c)
    PROVE  Inv'
<1>1. /\ LoopFree /\ status' = [status EXCEPT ![c] = "reset"]
      /\ UNCHANGED <<client, buffer, draining, reasons, samples, events, handled>>
  BY DEF ReadReset
<1>2. TypeOK /\ ConnInv(c)
  BY DEF Inv
<1>3. status'[c] = "reset" /\ \A d \in Conns \ {c} : Untouched(d)
  BY <1>1, <1>2 DEF TypeOK, Untouched, client
<1>4. TypeOK'
  BY <1>1, <1>2 DEF TypeOK, client, LoopFree
<1>5. WellFramed(c)' <=> WellFramed(c)
  BY <1>1 DEF WellFramed, client
<1>6. ConnInv(c)'
  BY <1>1, <1>2, <1>3, <1>5 DEF ConnInv, StreamInv, CutInv, EofInv, StoreInv, client
<1> QED BY <1>1, <1>3, <1>4, <1>6, OneConnection DEF StoreGrows

(* An unknown tag clears the buffer.                                        *)
LEMMA UnknownTagKeeps ==
    ASSUME Inv, NEW c \in Conns, UnknownTag(c)
    PROVE  Inv'
<1>1. /\ draining[c] /\ buffer[c] # <<>> /\ ~TagKnown(c)
      /\ reasons' = [reasons EXCEPT ![c] = @ \cup {"unknown_frame_tag"}]
      /\ buffer' = [buffer EXCEPT ![c] = <<>>]
      /\ draining' = [draining EXCEPT ![c] = FALSE]
      /\ UNCHANGED <<client, status, samples, events, handled>>
  BY DEF UnknownTag
<1>2. TypeOK /\ ConnInv(c)
  BY DEF Inv
<1>3. buffer'[c] = <<>> /\ \A d \in Conns \ {c} : Untouched(d)
  BY <1>1, <1>2 DEF TypeOK, Untouched, client
<1>4. TypeOK'
  <2>1. buffer' \in [Conns -> Seq(Nat)]
    BY <1>1, <1>2 DEF TypeOK
  <2>2. /\ draining' \in [Conns -> BOOLEAN]
        /\ \A d \in Conns : draining'[d] => draining[d]
    BY <1>1, <1>2 DEF TypeOK
  <2> QED BY <1>1, <1>2, <2>1, <2>2 DEF TypeOK, client
<1>5. ASSUME WellFramed(c) PROVE FALSE
  <2> DEFINE b == buffer[c]
             q == pending[c]
  <2>1. /\ b \in Seq(Nat) /\ q \in Seq(Nat) /\ cut[c] \in Seq(Nat)
        /\ sent[c] \in Seq(Frames) /\ status[c] = "open"
    BY <1>1, <1>2 DEF TypeOK
  <2>2. 1 \in 1 .. Len(b) /\ b[1] \notin KnownTags
    <3>1. Len(b) \in Nat \ {0}
      BY <1>1, <2>1, EmptySeq
    <3> QED BY <1>1, <3>1 DEF TagKnown
  <2>3. (b \o q)[1] = b[1]
    BY <2>1, <2>2, FrontOfConcat
  <2>4. CASE Len(handled[c]) = Len(sent[c])
    <3>1. b \o q = cut[c]
      BY <1>5, <2>1, <2>4, NextFrame
    <3>2. b \o q # <<>>
      BY <1>1, <2>1, ConcatEqualIffEmpty
    <3> QED BY <1>5, <2>2, <2>3, <3>1, <3>2 DEF WellFramed
  <2>5. CASE Len(handled[c]) # Len(sent[c])
    <3> DEFINE k == Len(handled[c]) + 1
    <3>1. PICK rest \in Rests(c) :
            /\ k \in 1 .. Len(sent[c]) /\ sent[c][k] \in Frames
            /\ rest[k] \in Seq(Nat) /\ b \o q = Encode(sent[c][k]) \o rest[k]
      BY <1>5, <2>1, <2>5, NextFrame
    <3>2. sent[c][k].tag \in KnownTags
      <4>1. DOMAIN sent[c] = 1 .. Len(sent[c])
        BY <2>1, LenProperties
      <4> QED BY <1>5, <3>1, <4>1 DEF WellFramed
    <3>3. /\ Encode(sent[c][k]) \in Seq(Nat) /\ 1 \in 1 .. Len(Encode(sent[c][k]))
          /\ Encode(sent[c][k])[1] = sent[c][k].tag
      BY <3>1, EncodeIs
    <3>4. (Encode(sent[c][k]) \o rest[k])[1] = sent[c][k].tag
      BY <3>1, <3>3, FrontOfConcat
    <3> QED BY <2>2, <2>3, <3>1, <3>2, <3>4
  <2> QED BY <2>4, <2>5
<1>6. ~WellFramed(c)'
  BY <1>1, <1>5 DEF WellFramed, client
<1>7. StreamInv(c)' /\ EofInv(c)'
  BY <1>6 DEF StreamInv, EofInv
<1>8. CutInv(c)'
  <2>1. ~Complete(<<>>)
    BY DEF Complete, HeaderLength
  <2> QED BY <1>1, <1>2, <1>3, <2>1 DEF ConnInv, CutInv, client
<1>9. StoreInv(c)'
  BY <1>1, <1>2 DEF ConnInv, StoreInv
<1> QED BY <1>1, <1>3, <1>4, <1>7, <1>8, <1>9, OneConnection DEF ConnInv, StoreGrows

(* decode_frame needs more bytes: the drain ends.                           *)
LEMMA NeedMoreKeeps ==
    ASSUME Inv, NEW c \in Conns, NeedMore(c)
    PROVE  Inv'
<1>1. /\ buffer[c] = <<>> \/ ~Complete(buffer[c])
      /\ draining' = [draining EXCEPT ![c] = FALSE]
      /\ UNCHANGED <<client, buffer, status, reasons, samples, events, handled>>
  BY DEF NeedMore
<1>2. TypeOK /\ ConnInv(c)
  BY DEF Inv
<1>3. \A d \in Conns \ {c} : Untouched(d)
  BY <1>1, <1>2 DEF TypeOK, Untouched, client
<1>4. TypeOK'
  <2>1. /\ draining' \in [Conns -> BOOLEAN]
        /\ \A d \in Conns : draining'[d] => draining[d]
    BY <1>1, <1>2 DEF TypeOK
  <2> QED BY <1>1, <1>2, <2>1 DEF TypeOK, client
<1>5. Rests(c)' = Rests(c) /\ (WellFramed(c)' <=> WellFramed(c))
  BY <1>1 DEF Rests, WellFramed, client
<1>6. StreamInv(c)' /\ EofInv(c)' /\ StoreInv(c)'
  BY <1>1, <1>2, <1>5 DEF ConnInv, StreamInv, EofInv, StoreInv, client
<1>7. CutInv(c)'
  <2>1. ~Complete(<<>>)
    BY DEF Complete, HeaderLength
  <2> QED BY <1>1, <1>2, <2>1 DEF ConnInv, CutInv, client
<1> QED BY <1>1, <1>3, <1>4, <1>6, <1>7, OneConnection DEF ConnInv, StoreGrows

(* A complete buffer splits into a frame and the rest.                      *)
LEMMA TakeFrame ==
    ASSUME NEW b \in Seq(Nat), Complete(b)
    PROVE  FirstFrame(b) \in Frames /\ SubSeq(b, FrameLength(b) + 1, Len(b)) \in Seq(Nat)
<1>1. Len(b) \in Nat /\ \A i \in 1 .. Len(b) : b[i] \in Nat
  BY LenProperties, ElementOfSeq
<1>2. /\ Len(b) >= 2 /\ b[1] \in Nat /\ b[2] \in Nat
      /\ FrameLength(b) = 2 + b[2] /\ 2 + b[2] <= Len(b)
  BY <1>1 DEF Complete, HeaderLength, FrameLength
<1>3. /\ \A i \in 3 .. 2 + b[2] : b[i] \in Nat
      /\ \A i \in (2 + b[2]) + 1 .. Len(b) : b[i] \in Nat
  BY <1>1, <1>2
<1>4. 3 \in Int /\ 2 + b[2] \in Int /\ (2 + b[2]) + 1 \in Int /\ Len(b) \in Int
  BY <1>1, <1>2
<1>5. SubSeq(b, 3, 2 + b[2]) \in Seq(Nat)
  BY <1>3, <1>4, SubSeqProperties, Zenon
<1>6. SubSeq(b, (2 + b[2]) + 1, Len(b)) \in Seq(Nat)
  BY <1>3, <1>4, SubSeqProperties, Zenon
<1>7. HeaderLength + 1 = 3
  BY DEF HeaderLength
<1> QED BY <1>2, <1>5, <1>6, <1>7 DEF FirstFrame, Frames

(* What a frame has for the store is of its kind.                           *)
LEMMA FrameContents ==
    ASSUME NEW f \in Frames
    PROVE  /\ Accepted(f) \subseteq Nat \ (UnknownMetrics \cup BadTimes)
           /\ EventsIn(f) \subseteq Seq(Nat)
<1>1. f.payload \in Seq(Nat)
  BY DEF Frames
<1>2. ASSUME f.payload # <<>> PROVE ToSet(Tail(f.payload)) \subseteq Nat
  <2> DEFINE t == Tail(f.payload)
  <2>1. t \in Seq(Nat)
    BY <1>1, <1>2, HeadTailProperties
  <2> HIDE DEF t
  <2>2. DOMAIN t = 1 .. Len(t) /\ \A i \in 1 .. Len(t) : t[i] \in Nat
    BY <2>1, LenProperties, ElementOfSeq
  <2>3. ToSet(t) \subseteq Nat
    BY <2>2 DEF ToSet
  <2> QED BY <2>3 DEF t
<1> QED BY <1>1, <1>2 DEF Accepted, EventsIn

(* The frame taken from the buffer is the client's next.                    *)
LEMMA HandleFrameKeeps ==
    ASSUME Inv, NEW c \in Conns, HandleFrame(c)
    PROVE  Inv'
<1> DEFINE b == buffer[c]
           q == pending[c]
           f == FirstFrame(b)
           t == SubSeq(b, FrameLength(b) + 1, Len(b))
           k == Len(handled[c])
<1>1. /\ draining[c] /\ Complete(b)
      /\ samples' = samples \cup Accepted(f) /\ events' = events \cup EventsIn(f)
      /\ handled' = [handled EXCEPT ![c] = Append(@, f)]
      /\ buffer' = [buffer EXCEPT ![c] = t]
      /\ UNCHANGED <<client, draining, status, reasons>>
  BY DEF HandleFrame, AtFrame, RemoveFrame
<1>2. TypeOK /\ ConnInv(c)
  BY DEF Inv
<1>3. /\ b \in Seq(Nat) /\ q \in Seq(Nat) /\ cut[c] \in Seq(Nat)
      /\ sent[c] \in Seq(Frames) /\ handled[c] \in Seq(Frames) /\ status[c] = "open"
  BY <1>1, <1>2 DEF TypeOK
<1>4. f \in Frames /\ t \in Seq(Nat)
  BY <1>1, <1>3, TakeFrame
<1>5. /\ Accepted(f) \subseteq Nat \ (UnknownMetrics \cup BadTimes)
      /\ EventsIn(f) \subseteq Seq(Nat)
  BY <1>4, FrameContents
<1>6. ASSUME WellFramed(c)
      PROVE  /\ k + 1 \in 1 .. Len(sent[c]) /\ f = sent[c][k + 1]
             /\ \E rest \in Rests(c) : rest[k + 1] = t \o q
  <2>1. k # Len(sent[c])
    <3> SUFFICES ASSUME k = Len(sent[c]) PROVE FALSE
      OBVIOUS
    <3>1. b \o q = cut[c]
      BY <1>3, <1>6, NextFrame
    <3>2. Complete(cut[c])
      BY <1>1, <1>3, <3>1, MoreStaysComplete
    <3> QED BY <3>2, <1>2 DEF ConnInv, CutInv
  <2>2. PICK rest \in Rests(c) :
          /\ k + 1 \in 1 .. Len(sent[c]) /\ sent[c][k + 1] \in Frames
          /\ rest[k + 1] \in Seq(Nat)
          /\ b \o q = Encode(sent[c][k + 1]) \o rest[k + 1]
    BY <1>3, <1>6, <2>1, NextFrame
  <2>3. f = sent[c][k + 1] /\ t \o q = rest[k + 1]
    <3>1. PICK g \in Frames, r \in Seq(Nat) :
            g = sent[c][k + 1] /\ r = rest[k + 1] /\ StartsWith(b, q, g, r)
      BY <2>2 DEF StartsWith
    <3>2. FirstFrame(b) = g /\ LeftOf(b, q) = r
      BY <1>1, <1>3, <3>1, FrontFrame
    <3> QED BY <3>1, <3>2 DEF LeftOf
  <2> QED BY <2>2, <2>3
<1> HIDE DEF b, q, f, t
<1>7. /\ buffer'[c] = t /\ pending'[c] = q /\ handled'[c] = Append(handled[c], f)
      /\ \A d \in Conns \ {c} : Untouched(d)
  BY <1>1, <1>2 DEF TypeOK, Untouched, client, q
<1>8. Append(handled[c], f) \in Seq(Frames)
  BY <1>3, <1>4, AppendProperties
<1>9. TypeOK'
  <2>1. handled' \in [Conns -> Seq(Frames)] /\ buffer' \in [Conns -> Seq(Nat)]
    BY <1>1, <1>2, <1>4, <1>8 DEF TypeOK
  <2>2. /\ samples' \subseteq Nat \ (UnknownMetrics \cup BadTimes)
        /\ events' \subseteq Seq(Nat)
    BY <1>1, <1>2, <1>5 DEF TypeOK
  <2> QED BY <1>1, <1>2, <2>1, <2>2 DEF TypeOK, client
<1>10. Rests(c)' = Rests(c) /\ (WellFramed(c)' <=> WellFramed(c))
  BY <1>1 DEF Rests, WellFramed, client
<1>11. /\ k \in Nat /\ Len(handled'[c]) = k + 1
       /\ \A i \in 1 .. k : handled'[c][i] = handled[c][i]
       /\ handled'[c][k + 1] = f
  BY <1>3, <1>4, <1>7, AppendProperties, LenProperties
<1>12. StreamInv(c)'
  <2> SUFFICES ASSUME WellFramed(c)
               PROVE  /\ Len(handled'[c]) <= Len(sent'[c])
                      /\ \A i \in 1 .. Len(handled'[c]) : handled'[c][i] = sent'[c][i]
                      /\ \E rest \in Rests(c)' :
                            rest[Len(handled'[c])] = buffer'[c] \o pending'[c]
    BY <1>10 DEF StreamInv
  <2>1. /\ \A i \in 1 .. k : handled[c][i] = sent[c][i]
        /\ sent' = sent /\ Len(sent[c]) \in Nat
    BY <1>1, <1>2, <1>3, LenProperties DEF ConnInv, StreamInv, client
  <2>2. Len(handled'[c]) <= Len(sent'[c])
    BY <1>6, <1>11, <2>1
  <2>3. ASSUME NEW i \in 1 .. k + 1 PROVE handled'[c][i] = sent'[c][i]
    <3>1. i \in 1 .. k \/ i = k + 1
      BY <1>11
    <3> QED BY <1>6, <1>11, <2>1, <3>1
  <2>4. \E rest \in Rests(c)' : rest[Len(handled'[c])] = buffer'[c] \o pending'[c]
    BY <1>6, <1>7, <1>10, <1>11
  <2> QED BY <1>11, <2>2, <2>3, <2>4
<1>13. CutInv(c)'
  BY <1>1, <1>2 DEF ConnInv, CutInv, client
<1>14. EofInv(c)'
  BY <1>1, <1>2, <1>3, <1>10 DEF ConnInv, EofInv, client
<1>15. StoreInv(c)'
  <2> SUFFICES ASSUME NEW i \in 1 .. k + 1
               PROVE  /\ Accepted(handled'[c][i]) \subseteq samples'
                      /\ EventsIn(handled'[c][i]) \subseteq events'
    BY <1>11 DEF StoreInv
  <2>1. CASE i = k + 1
    BY <1>1, <1>11, <2>1
  <2>2. CASE i # k + 1
    <3>1. i \in 1 .. k
      BY <1>11, <2>2
    <3>2. Accepted(handled[c][i]) \subseteq samples /\ EventsIn(handled[c][i]) \subseteq events
      BY <1>2, <3>1 DEF ConnInv, StoreInv
    <3> QED BY <1>1, <1>11, <3>1, <3>2
  <2> QED BY <2>1, <2>2
<1>16. StoreGrows
  BY <1>1 DEF StoreGrows
<1> QED BY <1>7, <1>9, <1>12, <1>13, <1>14, <1>15, <1>16, OneConnection DEF ConnInv

(* A handler raises: the connection is closed, the frame taken from the     *)
(* buffer.                                                                  *)
LEMMA HandlerRaisesKeeps ==
    ASSUME Inv, NEW c \in Conns, HandlerRaises(c)
    PROVE  Inv'
<1> DEFINE t == SubSeq(buffer[c], FrameLength(buffer[c]) + 1, Len(buffer[c]))
<1>1. /\ draining[c] /\ Complete(buffer[c])
      /\ buffer' = [buffer EXCEPT ![c] = t]
      /\ draining' = [draining EXCEPT ![c] = FALSE]
      /\ status' = [status EXCEPT ![c] = "error"]
      /\ UNCHANGED <<client, reasons, samples, events, handled>>
  BY DEF HandlerRaises, AtFrame, RemoveFrame
<1>2. TypeOK /\ ConnInv(c)
  BY DEF Inv
<1>3. t \in Seq(Nat)
  <2>1. buffer[c] \in Seq(Nat)
    BY <1>2 DEF TypeOK
  <2> QED BY <1>1, <2>1, TakeFrame
<1> HIDE DEF t
<1>4. status'[c] = "error" /\ \A d \in Conns \ {c} : Untouched(d)
  BY <1>1, <1>2 DEF TypeOK, Untouched, client
<1>5. TypeOK'
  <2>1. buffer' \in [Conns -> Seq(Nat)]
    BY <1>1, <1>2, <1>3 DEF TypeOK
  <2>2. draining' \in [Conns -> BOOLEAN] /\ \A d \in Conns : ~draining'[d]
    BY <1>1, <1>2 DEF TypeOK
  <2>3. status' \in [Conns -> {"open", "eof", "error", "reset"}]
    BY <1>1, <1>2 DEF TypeOK
  <2> QED BY <1>1, <1>2, <2>1, <2>2, <2>3 DEF TypeOK, client
<1>6. WellFramed(c)' <=> WellFramed(c)
  BY <1>1 DEF WellFramed, client
<1>7. ConnInv(c)'
  BY <1>1, <1>2, <1>4, <1>6 DEF ConnInv, StreamInv, CutInv, EofInv, StoreInv, client
<1> QED BY <1>1, <1>4, <1>5, <1>7, OneConnection DEF StoreGrows

-----------------------------------------------------------------------------
(* What a client adds to its stream comes behind all that is on its way.    *)
LEMMA StreamGrows ==
    ASSUME Inv, NEW c \in Conns, ~hungup[c], NEW rest \in Rests(c), NEW x \in Seq(Nat)
    PROVE  \E longer \in [0 .. Len(sent[c]) -> Seq(Nat)] :
              /\ longer[Len(sent[c])] = x
              /\ \A i \in 1 .. Len(sent[c]) : longer[i - 1] = Encode(sent[c][i]) \o longer[i]
              /\ \A i \in 0 .. Len(sent[c]) : longer[i] = rest[i] \o x
<1> DEFINE n == Len(sent[c])
           longer == [i \in 0 .. n |-> rest[i] \o x]
<1>1. sent[c] \in Seq(Frames) /\ n \in Nat /\ cut[c] = <<>>
  BY LenProperties DEF Inv, TypeOK, ConnInv, CutInv
<1>2. /\ rest \in [0 .. n -> Seq(Nat)] /\ rest[n] = <<>>
      /\ \A i \in 1 .. n : rest[i - 1] = Encode(sent[c][i]) \o rest[i]
  BY <1>1 DEF Rests
<1>3. \A i \in 1 .. n : sent[c][i] \in Frames
  BY <1>1, ElementOfSeq
<1> HIDE DEF n
<1>4. \A i \in 0 .. n : rest[i] \in Seq(Nat) /\ rest[i] \o x \in Seq(Nat)
  BY <1>2, ConcatProperties
<1>5. longer \in [0 .. n -> Seq(Nat)] /\ \A i \in 0 .. n : longer[i] = rest[i] \o x
  BY <1>4
<1> HIDE DEF longer
<1>6. longer[n] = x
  <2>1. n \in 0 .. n
    BY <1>1 DEF n
  <2>2. <<>> \o x = x
    BY ConcatEmptySeq
  <2> QED BY <1>2, <1>5, <2>1, <2>2
<1>7. ASSUME NEW i \in 1 .. n PROVE longer[i - 1] = Encode(sent[c][i]) \o longer[i]
  <2> DEFINE e == Encode(sent[c][i])
  <2>1. i \in 0 .. n /\ i - 1 \in 0 .. n
    BY <1>1 DEF n
  <2>2. e \in Seq(Nat) /\ rest[i] \in Seq(Nat)
    BY <1>3, <1>4, <2>1, EncodeIs
  <2>3. longer[i - 1] = rest[i - 1] \o x /\ longer[i] = rest[i] \o x
    BY <1>5, <2>1
  <2>4. rest[i - 1] = e \o rest[i]
    BY <1>2
  <2> HIDE DEF e
  <2>5. (e \o rest[i]) \o x = e \o (rest[i] \o x)
    BY <2>2, JoinIsAssociative, Zenon
  <2>6. longer[i - 1] = e \o longer[i]
    BY <2>3, <2>4, <2>5
  <2> QED BY <2>6 DEF e
<1> QED BY <1>5, <1>6, <1>7 DEF n

(* A client sends a frame, or a part of one.                                *)
LEMMA ClientSendsKeeps ==
    ASSUME Inv, NEW c \in Conns, ClientSends(c)
    PROVE  Inv'
<1> DEFINE n == Len(sent[c])
           k == Len(handled[c])
<1>1. PICK f \in FramesOf[c] :
        /\ pending' = [pending EXCEPT ![c] = @ \o Encode(f)]
        /\ sent' = [sent EXCEPT ![c] = Append(@, f)]
  BY DEF ClientSends
<1>2. /\ ~hungup[c] /\ UNCHANGED <<hungup, cut, server>>
  BY DEF ClientSends
<1>3. TypeOK /\ ConnInv(c) /\ f \in Frames
  BY FramesAssumption DEF Inv
<1>4. /\ pending[c] \in Seq(Nat) /\ buffer[c] \in Seq(Nat) /\ sent[c] \in Seq(Frames)
      /\ handled[c] \in Seq(Frames) /\ Encode(f) \in Seq(Nat) /\ cut[c] = <<>>
      /\ n \in Nat /\ k \in Nat
  BY <1>2, <1>3, EncodeIs, LenProperties DEF TypeOK, ConnInv, CutInv
<1>5. pending[c] \o Encode(f) \in Seq(Nat) /\ Append(sent[c], f) \in Seq(Frames)
  BY <1>3, <1>4, ConcatProperties, AppendProperties
<1>6. /\ pending'[c] = pending[c] \o Encode(f) /\ sent'[c] = Append(sent[c], f)
      /\ \A d \in Conns \ {c} : Untouched(d)
  BY <1>1, <1>2, <1>3 DEF TypeOK, Untouched, server
<1>7. TypeOK'
  <2>1. pending' \in [Conns -> Seq(Nat)] /\ sent' \in [Conns -> Seq(Frames)]
    BY <1>1, <1>3, <1>5 DEF TypeOK
  <2> QED BY <1>2, <1>3, <2>1 DEF TypeOK, server
<1>8. /\ Len(sent'[c]) = n + 1 /\ sent'[c][n + 1] = f
      /\ \A i \in 1 .. n : sent'[c][i] = sent[c][i]
  BY <1>3, <1>4, <1>6, AppendProperties
<1>9. ASSUME WellFramed(c)' PROVE WellFramed(c)
  <2>1. DOMAIN sent[c] = 1 .. n /\ DOMAIN sent'[c] = 1 .. n + 1
    BY <1>4, <1>5, <1>6, <1>8, LenProperties
  <2>2. \A i \in 1 .. n : i \in 1 .. n + 1
    BY <1>4
  <2> QED BY <1>2, <1>8, <1>9, <2>1, <2>2 DEF WellFramed
<1>10. StreamInv(c)'
  <2> SUFFICES ASSUME WellFramed(c)'
               PROVE  /\ Len(handled'[c]) <= Len(sent'[c])
                      /\ \A i \in 1 .. Len(handled'[c]) : handled'[c][i] = sent'[c][i]
                      /\ status'[c] \in {"open", "eof"} =>
                            \E rest \in Rests(c)' :
                                rest[Len(handled'[c])] = buffer'[c] \o pending'[c]
    BY DEF StreamInv
  <2>1. /\ handled' = handled /\ status' = status /\ buffer' = buffer /\ cut' = cut
        /\ k <= n /\ \A i \in 1 .. k : handled[c][i] = sent[c][i]
    BY <1>2, <1>3, <1>9 DEF ConnInv, StreamInv, server
  <2>2. k <= n + 1 /\ \A i \in 1 .. k : i \in 1 .. n
    BY <1>4, <2>1
  <2>3. ASSUME status[c] \in {"open", "eof"}
        PROVE  \E rest \in Rests(c)' : rest[k] = buffer[c] \o pending'[c]
    <3>1. PICK rest \in Rests(c) : rest[k] = buffer[c] \o pending[c]
      BY <1>3, <1>9, <2>3 DEF ConnInv, StreamInv
    <3>2. PICK longer \in [0 .. n -> Seq(Nat)] :
            /\ longer[n] = Encode(f)
            /\ \A i \in 1 .. n : longer[i - 1] = Encode(sent[c][i]) \o longer[i]
            /\ \A i \in 0 .. n : longer[i] = rest[i] \o Encode(f)
      BY <1>2, <1>4, StreamGrows
    <3> DEFINE r == [i \in 0 .. n + 1 |-> IF i = n + 1 THEN <<>> ELSE longer[i]]
    <3> HIDE DEF n, k
    <3>3. <<>> \in Seq(Nat)
      OBVIOUS
    <3>4. /\ r \in [0 .. n + 1 -> Seq(Nat)] /\ r[n + 1] = <<>>
          /\ \A i \in 0 .. n : r[i] = longer[i]
      BY <1>4, <3>2, <3>3
    <3> HIDE DEF r
    <3>5. ASSUME NEW i \in 1 .. n + 1 PROVE r[i - 1] = Encode(sent'[c][i]) \o r[i]
      <4>1. CASE i = n + 1
        <5>1. i - 1 = n /\ n \in 0 .. n
          BY <1>4, <4>1
        <5>2. Encode(f) \o <<>> = Encode(f)
          BY <1>4, ConcatEmptySeq
        <5> QED BY <1>8, <3>2, <3>4, <4>1, <5>1, <5>2
      <4>2. CASE i # n + 1
        <5>1. i \in 1 .. n /\ i \in 0 .. n /\ i - 1 \in 0 .. n
          BY <1>4, <4>2
        <5> QED BY <1>8, <3>2, <3>4, <5>1
      <4> QED BY <4>1, <4>2
    <3>6. r \in Rests(c)'
      BY <1>4, <1>8, <2>1, <3>4, <3>5 DEF Rests
    <3>7. r[k] = buffer[c] \o pending'[c]
      <4>1. k \in 0 .. n
        BY <1>4, <2>1
      <4>2. r[k] = (buffer[c] \o pending[c]) \o Encode(f)
        BY <3>1, <3>2, <3>4, <4>1
      <4>3. (buffer[c] \o pending[c]) \o Encode(f) = buffer[c] \o (pending[c] \o Encode(f))
        BY <1>4, JoinIsAssociative, Zenon
      <4> QED BY <1>6, <4>2, <4>3
    <3> QED BY <3>6, <3>7
  <2> QED BY <1>8, <2>1, <2>2, <2>3
<1>11. CutInv(c)'
  BY <1>2, <1>3 DEF ConnInv, CutInv, server
<1>12. EofInv(c)'
  <2>1. status[c] # "eof"
    BY <1>2, <1>3 DEF ConnInv, CutInv
  <2> QED BY <1>2, <1>3, <1>9, <2>1 DEF ConnInv, EofInv, server
<1>13. StoreInv(c)'
  BY <1>2, <1>3 DEF ConnInv, StoreInv, server
<1> QED BY <1>2, <1>6, <1>7, <1>10, <1>11, <1>12, <1>13, OneConnection
    DEF ConnInv, StoreGrows, server

(* A client closes its connection.                                          *)
LEMMA ClientHangsUpKeeps ==
    ASSUME Inv, NEW c \in Conns, ClientHangsUp(c)
    PROVE  Inv'
<1> DEFINE n == Len(sent[c])
           k == Len(handled[c])
<1>1. PICK f \in FramesOf[c] : \E m \in 0 .. Len(Encode(f)) - 1 :
        /\ cut' = [cut EXCEPT ![c] = SubSeq(Encode(f), 1, m)]
        /\ pending' = [pending EXCEPT ![c] = @ \o SubSeq(Encode(f), 1, m)]
  BY DEF ClientHangsUp
<1>2. f \in Frames /\ TypeOK /\ ConnInv(c)
  BY FramesAssumption DEF Inv
<1>3. PICK x \in Seq(Nat) : /\ ~Complete(x) /\ cut' = [cut EXCEPT ![c] = x]
                            /\ pending' = [pending EXCEPT ![c] = @ \o x]
  BY <1>1, <1>2, PartIsIncomplete
<1>4. /\ ~hungup[c] /\ hungup' = [hungup EXCEPT ![c] = TRUE]
      /\ UNCHANGED <<sent, server>>
  BY DEF ClientHangsUp
<1>5. /\ pending[c] \in Seq(Nat) /\ buffer[c] \in Seq(Nat) /\ cut[c] = <<>>
      /\ sent[c] \in Seq(Frames) /\ handled[c] \in Seq(Frames)
      /\ n \in Nat /\ k \in Nat
  BY <1>2, <1>4, LenProperties DEF TypeOK, ConnInv, CutInv
<1>6. pending[c] \o x \in Seq(Nat)
  BY <1>5, ConcatProperties
<1>7. /\ pending'[c] = pending[c] \o x /\ cut'[c] = x /\ hungup'[c]
      /\ \A d \in Conns \ {c} : Untouched(d)
  BY <1>2, <1>3, <1>4 DEF TypeOK, Untouched, server
<1>8. TypeOK'
  <2>1. pending' \in [Conns -> Seq(Nat)] /\ cut' \in [Conns -> Seq(Nat)]
    BY <1>2, <1>3, <1>6 DEF TypeOK
  <2>2. hungup' \in [Conns -> BOOLEAN]
    BY <1>2, <1>4 DEF TypeOK
  <2> QED BY <1>2, <1>4, <2>1, <2>2 DEF TypeOK, server
<1>9. ASSUME WellFramed(c)' PROVE WellFramed(c)
  BY <1>4, <1>5, <1>9 DEF WellFramed
<1>10. StreamInv(c)'
  <2> SUFFICES ASSUME WellFramed(c)'
               PROVE  /\ k <= n /\ \A i \in 1 .. k : handled[c][i] = sent[c][i]
                      /\ status[c] \in {"open", "eof"} =>
                            \E rest \in Rests(c)' : rest[k] = buffer[c] \o pending'[c]
    BY <1>4 DEF StreamInv, server
  <2>1. k <= n /\ \A i \in 1 .. k : handled[c][i] = sent[c][i]
    BY <1>2, <1>9 DEF ConnInv, StreamInv
  <2>2. ASSUME status[c] \in {"open", "eof"}
        PROVE  \E rest \in Rests(c)' : rest[k] = buffer[c] \o pending'[c]
    <3>1. PICK rest \in Rests(c) : rest[k] = buffer[c] \o pending[c]
      BY <1>2, <1>9, <2>2 DEF ConnInv, StreamInv
    <3>2. PICK longer \in [0 .. n -> Seq(Nat)] :
            /\ longer[n] = x
            /\ \A i \in 1 .. n : longer[i - 1] = Encode(sent[c][i]) \o longer[i]
            /\ \A i \in 0 .. n : longer[i] = rest[i] \o x
      BY <1>4, StreamGrows
    <3>3. longer \in Rests(c)'
      BY <1>4, <1>7, <3>2 DEF Rests
    <3> HIDE DEF n, k
    <3>4. longer[k] = buffer[c] \o pending'[c]
      <4>1. k \in 0 .. n
        BY <1>5, <2>1
      <4>2. longer[k] = (buffer[c] \o pending[c]) \o x
        BY <3>1, <3>2, <4>1
      <4>3. (buffer[c] \o pending[c]) \o x = buffer[c] \o (pending[c] \o x)
        BY <1>5, JoinIsAssociative, Zenon
      <4> QED BY <1>7, <4>2, <4>3
    <3> QED BY <3>3, <3>4
  <2> QED BY <2>1, <2>2
<1>11. CutInv(c)'
  BY <1>2, <1>3, <1>4, <1>7 DEF ConnInv, CutInv, server
<1>12. EofInv(c)'
  <2>1. status[c] # "eof"
    BY <1>2, <1>4 DEF ConnInv, CutInv
  <2> QED BY <1>2, <1>4, <1>9, <2>1 DEF ConnInv, EofInv, server
<1>13. StoreInv(c)'
  BY <1>2, <1>4 DEF ConnInv, StoreInv, server
<1> QED BY <1>4, <1>7, <1>8, <1>10, <1>11, <1>12, <1>13, OneConnection
    DEF ConnInv, StoreGrows, server

-----------------------------------------------------------------------------
(* A connection begins with an empty buffer and an empty stream.            *)
LEMMA InitInv == Init => Inv
<1> SUFFICES ASSUME Init PROVE Inv
  OBVIOUS
<1>1. <<>> \in Seq(Nat) /\ <<>> \in Seq(Frames) /\ Len(<<>>) = 0
  OBVIOUS
<1>2. TypeOK
  BY <1>1 DEF Init, TypeOK
<1>3. ASSUME NEW c \in Conns PROVE ConnInv(c)
  <2>1. /\ sent[c] = <<>> /\ cut[c] = <<>> /\ handled[c] = <<>> /\ buffer[c] = <<>>
        /\ pending[c] = <<>> /\ status[c] = "open" /\ reasons[c] = {}
    BY DEF Init
  <2>2. [i \in 0 .. 0 |-> <<>>] \in Rests(c)
    BY <1>1, <2>1 DEF Rests
  <2>3. <<>> \o <<>> = <<>>
    BY ConcatEmptySeq
  <2>4. StreamInv(c)
    <3>1. [i \in 0 .. 0 |-> <<>>][0] = <<>>
      OBVIOUS
    <3>2. \E rest \in Rests(c) : rest[Len(handled[c])] = buffer[c] \o pending[c]
      BY <1>1, <2>1, <2>2, <2>3, <3>1
    <3> QED BY <1>1, <2>1, <3>2 DEF StreamInv
  <2>5. CutInv(c)
    BY <1>1, <2>1 DEF CutInv, Complete, HeaderLength
  <2>6. EofInv(c) /\ StoreInv(c)
    BY <1>1, <2>1 DEF EofInv, StoreInv
  <2> QED BY <2>4, <2>5, <2>6 DEF ConnInv
<1> QED BY <1>2, <1>3 DEF Inv

(* The cases of Next put together.                                          *)
LEMMA NextInv == Inv /\ [Next]_vars => Inv'
<1> SUFFICES ASSUME Inv, [Next]_vars PROVE Inv'
  OBVIOUS
<1>1. CASE UNCHANGED vars
  <2>1. TypeOK'
    BY <1>1 DEF Inv, TypeOK, vars, client
  <2>2. StoreGrows /\ \A d \in Conns : Untouched(d)
    BY <1>1 DEF StoreGrows, Untouched, vars, client
  <2>3. \A d \in Conns : ConnInv(d)'
    BY <2>2, UntouchedKeeps DEF Inv
  <2> QED BY <2>1, <2>3 DEF Inv
<1>2. ASSUME NEW c \in Conns, ClientSends(c) \/ ClientHangsUp(c) \/ ReadReset(c) \/ Serve(c)
      PROVE  Inv'
  <2>1. CASE ClientSends(c)
    BY <2>1, ClientSendsKeeps
  <2>2. CASE ClientHangsUp(c)
    BY <2>2, ClientHangsUpKeeps
  <2>3. CASE ReadReset(c)
    BY <2>3, ReadResetKeeps
  <2>4. CASE ReadChunk(c)
    BY <2>4, ReadChunkKeeps
  <2>5. CASE ReadEof(c)
    BY <2>5, ReadEofKeeps
  <2>6. CASE UnknownTag(c)
    BY <2>6, UnknownTagKeeps
  <2>7. CASE NeedMore(c)
    BY <2>7, NeedMoreKeeps
  <2>8. CASE HandleFrame(c)
    BY <2>8, HandleFrameKeeps
  <2>9. CASE HandlerRaises(c)
    BY <2>9, HandlerRaisesKeeps
  <2> QED BY <1>2, <2>1, <2>2, <2>3, <2>4, <2>5, <2>6, <2>7, <2>8, <2>9 DEF Serve
<1> QED BY <1>1, <1>2 DEF Next

(* handle_connection and _drain_frames keep Inv, whatever the clients do.   *)
THEOREM Invariance == Spec => []Inv
BY InitInv, NextInv, PTL DEF Spec

(* At most one coroutine is between two awaits, and only validated samples  *)
(* are in the table: insert_samples is called after validate_batch.         *)
THEOREM TypeCorrect == Spec => []TypeOK
<1>1. Inv => TypeOK
  BY DEF Inv
<1> QED BY Invariance, <1>1, PTL

(* decode_frame, fed by whatever reader.read returns, gives the frames of a *)
(* client that frames correctly, as sent and in order, at its end all.      *)
THEOREM DecodingIsFaithful == Spec => []DecodesWhatWasSent
<1>1. Inv => DecodesWhatWasSent
  <2> SUFFICES ASSUME Inv, NEW c \in Conns, WellFramed(c)
               PROVE  /\ IsPrefix(handled[c], sent[c])
                      /\ status[c] = "eof" => handled[c] = sent[c]
    BY DEF DecodesWhatWasSent
  <2>1. /\ sent[c] \in Seq(Frames) /\ handled[c] \in Seq(Frames)
        /\ Len(sent[c]) \in Nat /\ Len(handled[c]) \in Nat
    BY LenProperties DEF Inv, TypeOK
  <2>2. /\ Len(handled[c]) <= Len(sent[c])
        /\ \A i \in 1 .. Len(handled[c]) : handled[c][i] = sent[c][i]
    BY DEF Inv, ConnInv, StreamInv
  <2>3. SubSeq(handled[c], 1, Len(handled[c])) = SubSeq(sent[c], 1, Len(handled[c]))
    BY <2>1, <2>2
  <2>4. status[c] = "eof" => handled[c] = sent[c]
    BY DEF Inv, ConnInv, EofInv
  <2> QED BY <2>2, <2>3, <2>4 DEF IsPrefix
<1> QED BY Invariance, <1>1, PTL

(* What a well framed stream held is in the store at its end, but for what  *)
(* validate_batch rejects, however other connections fail.                  *)
THEOREM CompleteFramesStayStored == Spec => []CompleteFramesStored
<1>1. Inv => CompleteFramesStored
  <2> SUFFICES ASSUME Inv, NEW c \in Conns, WellFramed(c), status[c] = "eof",
                      NEW i \in DOMAIN sent[c]
               PROVE  LET f == sent[c][i]
                      IN  /\ (f.tag = SampleBatchTag /\ f.payload # <<>> /\ f.payload[1] \in Supported) =>
                               \A j \in 2 .. Len(f.payload) :
                                   f.payload[j] \in samples \cup UnknownMetrics \cup BadTimes
                          /\ f.tag = PhaseEventTag => f.payload \in events
    BY DEF CompleteFramesStored
  <2> DEFINE f == sent[c][i]
             p == f.payload
  <2>1. f \in Frames /\ p \in Seq(Nat) /\ i \in 1 .. Len(sent[c])
    <3>1. sent[c] \in Seq(Frames) /\ DOMAIN sent[c] = 1 .. Len(sent[c])
      BY LenProperties DEF Inv, TypeOK
    <3>2. i \in 1 .. Len(sent[c]) /\ f \in Frames
      BY <3>1, ElementOfSeq
    <3>3. p \in Seq(Nat)
      BY <3>2, EncodeIs
    <3> QED BY <3>2, <3>3
  <2>2. Accepted(f) \subseteq samples /\ EventsIn(f) \subseteq events
    BY <2>1 DEF Inv, ConnInv, EofInv, StoreInv
  <2>3. ASSUME f.tag = SampleBatchTag, p # <<>>, p[1] \in Supported, NEW j \in 2 .. Len(p)
        PROVE  p[j] \in samples \cup UnknownMetrics \cup BadTimes
    <3>1. Head(p) = p[1]
      BY <2>1, <2>3
    <3>2. p[j] \in ToSet(Tail(p))
      <4> HIDE DEF p
      <4>1. Len(p) \in Nat /\ Len(Tail(p)) = Len(p) - 1 /\ Tail(p) \in Seq(Nat)
        BY <2>1, <2>3, HeadTailProperties, LenProperties
      <4>2. DOMAIN Tail(p) = 1 .. Len(Tail(p))
        BY <4>1, LenProperties
      <4>3. j - 1 \in 1 .. Len(Tail(p)) /\ (j - 1) + 1 = j
        BY <4>1
      <4>4. Tail(p)[j - 1] = p[j]
        BY <2>1, <2>3, <4>3, HeadTailProperties
      <4> QED BY <4>2, <4>3, <4>4 DEF ToSet
    <3>3. Accepted(f) = ToSet(Tail(p)) \ (UnknownMetrics \cup BadTimes)
      BY <2>3, <3>1 DEF Accepted
    <3> QED BY <2>2, <3>2, <3>3
  <2>4. f.tag = PhaseEventTag => p \in events
    BY <2>2 DEF EventsIn
  <2> QED BY <2>3, <2>4
<1> QED BY Invariance, <1>1, PTL

(* The reason logged for the end of a stream tells a frame cut in its       *)
(* header from one cut behind it and from a stream that ends with a frame.  *)
THEOREM EofReasonStaysTrue == Spec => []EofReasonIsTrue
<1>1. Inv => EofReasonIsTrue
  <2> SUFFICES ASSUME Inv, NEW c \in Conns, WellFramed(c), status[c] = "eof"
               PROVE  reasons[c] = IF cut[c] = <<>> THEN {}
                                   ELSE IF Len(cut[c]) < HeaderLength THEN {"truncated_frame"}
                                   ELSE {"partial_frame"}
    BY DEF EofReasonIsTrue
  <2>1. reasons[c] = EofReasonOf(cut[c])
    BY DEF Inv, ConnInv, EofInv
  <2>2. Len(<<>>) = 0 /\ (cut[c] # <<>> => Len(cut[c]) \in Nat \ {0})
    BY EmptySeq DEF Inv, TypeOK
  <2> QED BY <2>1, <2>2 DEF EofReasonOf, HeaderLength
<1> QED BY Invariance, <1>1, PTL
=============================================================================
