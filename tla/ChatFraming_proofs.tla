------------------------ MODULE ChatFraming_proofs -------------------------
(***************************************************************************)
(* The frames of the chat protocol come out as they went in, for any       *)
(* payloads, any MAX_PAYLOAD that the length field can hold, and any way   *)
(* in which send and recv cut the stream.                                  *)
(*                                                                         *)
(* The heart of the matter is Aligned.  What has been received of the      *)
(* current call of recvAll, what is on the way and what sendAll still has  *)
(* to send are one tape of bytes.  The frames from the one being received  *)
(* to the one being sent lie on it one behind the other, so the receiver   *)
(* is always at the beginning of a header or, when it has read one, at the *)
(* beginning of the payload that belongs to it.                            *)
(***************************************************************************)
EXTENDS ChatFraming, Integers, SequenceTheorems, TLAPS

Bytes(f) == Header(f) \o f.payload

Size(f) == HeaderLength + Len(f.payload)

AnyFrame == [type : Nat, payload : Seq(Nat)]

Types_OK ==
    /\ frame \in AnyFrame /\ sent \in Seq(AnyFrame) /\ received \in Seq(AnyFrame)
    /\ out \in Seq(Nat) /\ stream \in Seq(Nat) /\ got \in Seq(Nat)
    /\ typeOut \in Nat /\ len \in Nat
    /\ sender \in {"idle", "header", "payload", "failed"}
    /\ receiver \in {"header", "payload", "failed"}
    /\ connection \in {"up", "reset"}

\* The tape: after a reset nothing of what sendAll still has follows.
Left == IF connection = "up" THEN Len(out) ELSE 0

TapeLen == Len(got) + Len(stream) + Left

TapeAt(i) ==
    IF i <= Len(got) THEN got[i]
    ELSE IF i <= Len(got) + Len(stream) THEN stream[i - Len(got)]
    ELSE out[i - Len(got) - Len(stream)]

Wire == Len(got) + Len(stream)

\* The frames in the order of the tape: behind those that were sent the one that
\* is being sent.
FrameAt(k) == IF k <= Len(sent) THEN sent[k] ELSE frame

\* How much of the frame being sent is on the tape.
Put ==
    IF sender = "idle" THEN 0
    ELSE IF sender = "header" \/ out = << >> THEN HeaderLength
    ELSE Size(frame)

Placed(off, k) ==
    \A i \in 1 .. TapeLen :
        i - off[k] \in 1 .. Size(FrameAt(k + 1)) =>
            TapeAt(i) = Bytes(FrameAt(k + 1))[i - off[k]]

\* Frame k + 1 begins behind the first off[k] bytes of the tape; off is negative
\* when its header has been taken off.
First(off) ==
    off[Len(received)] = IF receiver = "payload" THEN -HeaderLength ELSE 0

Chain(off) ==
    \A k \in Len(received) + 1 .. Len(sent) :
        /\ off[k] = off[k - 1] + Size(sent[k])
        /\ off[k] <= off[Len(sent)]

Ends(off) ==
    /\ connection = "up" => TapeLen = off[Len(sent)] + Put
    /\ IF sender = "idle" THEN Wire <= off[Len(sent)]
                          ELSE Wire < off[Len(sent)] + Size(frame)

Positions(off) ==
    /\ First(off) /\ Chain(off) /\ Ends(off)
    /\ \A k \in Len(received) .. Len(sent) : Placed(off, k)

Aligned == \E off \in [Len(received) .. Len(sent) -> Int] : Positions(off)

\* What recvAll is called for.
Wanted ==
    /\ receiver = "header" => len = HeaderLength
    /\ receiver = "payload" =>
           /\ typeOut = FrameAt(Len(received) + 1).type
           /\ len = Len(FrameAt(Len(received) + 1).payload) /\ len > 0
    /\ Len(got) <= len

\* The sender is in the middle of a frame as long as it has something to send.
Sending ==
    /\ sender = "header" => out # << >>
    /\ sender = "idle" => out = << >>
    /\ sender = "payload" => frame.payload # << >>
    /\ sender = "failed" => connection = "reset"
    /\ sender # "idle" => Fits(frame)
    /\ \A k \in 1 .. Len(sent) : Fits(sent[k])

Delivered ==
    /\ Len(received) <= Len(sent)
    /\ \A k \in 1 .. Len(received) : received[k] = sent[k]

FramingInv ==
    /\ Types_OK /\ Sending /\ Delivered /\ InStep
    /\ receiver # "failed" => Wanted /\ Aligned

-----------------------------------------------------------------------------
(***************************************************************************)
(* The bytes of a frame.                                                   *)
(***************************************************************************)
LEMMA FramesAreFrames == Frames \subseteq AnyFrame
<1> SUFFICES ASSUME NEW f \in Frames PROVE f \in AnyFrame
  OBVIOUS
<1>1. f.type \in Nat /\ f.payload \in Seq(Digit)
  <2>1. f.type \in Types /\ f.payload \in Payloads
    BY DEF Frames
  <2>2. Digit \subseteq Nat
    BY ChatFramingAssumption DEF Digit
  <2> QED
    BY <2>1, <2>2, ChatFramingAssumption
<1>2. f.payload \in Seq(Nat)
  <2>1. Digit \subseteq Nat
    BY ChatFramingAssumption DEF Digit
  <2> QED
    BY <1>1, <2>1, SeqMonotonic
<1>3. f = [type |-> f.type, payload |-> f.payload]
  BY DEF Frames
<1> QED
  BY <1>1, <1>2, <1>3 DEF AnyFrame

LEMMA ProductOfNats ==
    ASSUME NEW a \in Nat, NEW b \in Nat
    PROVE  a * b \in Nat
OBVIOUS

\* ntohl undoes htonl.
LEMMA DivMod ==
    ASSUME NEW a \in Nat, NEW b \in Nat \ {0}
    PROVE  /\ a \div b \in Nat /\ a % b \in Nat
           /\ (a \div b) * b + (a % b) = a
OBVIOUS

LEMMA BytesOfFrame ==
    ASSUME NEW f \in AnyFrame
    PROVE  /\ Header(f) \in Seq(Nat) /\ Len(Header(f)) = HeaderLength
           /\ Bytes(f) \in Seq(Nat) /\ Len(Bytes(f)) = Size(f)
           /\ Len(f.payload) \in Nat
           /\ \A i \in 1 .. HeaderLength : Bytes(f)[i] = Header(f)[i]
           /\ \A i \in 1 .. Len(f.payload) : Bytes(f)[HeaderLength + i] = f.payload[i]
           /\ Header(f)[1] = f.type
           /\ LengthOf(Header(f)) = Len(f.payload)
<1>1. f.type \in Nat /\ f.payload \in Seq(Nat) /\ Len(f.payload) \in Nat
  BY DEF AnyFrame
<1>2. LenBase \in Nat \ {0}
  BY ChatFramingAssumption
<1>3. /\ Len(f.payload) \div LenBase \in Nat /\ Len(f.payload) % LenBase \in Nat
      /\ (Len(f.payload) \div LenBase) * LenBase + (Len(f.payload) % LenBase)
             = Len(f.payload)
  BY <1>1, <1>2, DivMod
<1>4. Header(f) \in Seq(Nat) /\ Len(Header(f)) = HeaderLength
  BY <1>1, <1>3 DEF Header, HeaderLength
<1>5. Header(f)[1] = f.type /\ LengthOf(Header(f)) = Len(f.payload)
  BY <1>3 DEF Header, LengthOf
<1>6. /\ Bytes(f) \in Seq(Nat)
      /\ Len(Bytes(f)) = Len(Header(f)) + Len(f.payload)
      /\ \A i \in 1 .. Len(Header(f)) + Len(f.payload) :
             Bytes(f)[i] = IF i <= Len(Header(f)) THEN Header(f)[i]
                           ELSE f.payload[i - Len(Header(f))]
  BY <1>1, <1>4, ConcatProperties DEF Bytes
<1>7. Len(Bytes(f)) = Size(f)
  BY <1>4, <1>6 DEF Size
<1>8. \A i \in 1 .. HeaderLength : Bytes(f)[i] = Header(f)[i]
  BY <1>1, <1>4, <1>6 DEF HeaderLength
<1>9. ASSUME NEW i \in 1 .. Len(f.payload)
      PROVE  Bytes(f)[HeaderLength + i] = f.payload[i]
  <2>1. /\ HeaderLength + i \in 1 .. HeaderLength + Len(f.payload)
        /\ ~ (HeaderLength + i <= HeaderLength)
        /\ HeaderLength + i - HeaderLength = i
    BY <1>1 DEF HeaderLength
  <2>2. HeaderLength + i \in 1 .. Len(Header(f)) + Len(f.payload)
    BY <2>1, <1>4
  <2>3. Bytes(f)[HeaderLength + i] =
            IF HeaderLength + i <= Len(Header(f)) THEN Header(f)[HeaderLength + i]
            ELSE f.payload[(HeaderLength + i) - Len(Header(f))]
    BY <2>2, <1>6
  <2> QED
    BY <2>1, <2>3, <1>4
<1> QED
  BY <1>1, <1>4, <1>5, <1>6, <1>7, <1>8, <1>9

\* A frame that has a place in the order is a frame.
LEMMA Ordered ==
    ASSUME Types_OK
    PROVE  /\ Len(got) \in Nat /\ Len(stream) \in Nat /\ Len(out) \in Nat
           /\ Len(sent) \in Nat /\ Len(received) \in Nat
           /\ TapeLen \in Nat /\ Wire \in Nat /\ Wire <= TapeLen
           /\ \A k \in Nat \ {0} : FrameAt(k) \in AnyFrame
           /\ \A k \in Nat \ {0} : Size(FrameAt(k)) \in Nat
<1>1. /\ Len(got) \in Nat /\ Len(stream) \in Nat /\ Len(out) \in Nat
      /\ Len(sent) \in Nat /\ Len(received) \in Nat
  BY LenProperties DEF Types_OK
<1>2. TapeLen \in Nat /\ Wire \in Nat /\ Wire <= TapeLen
  <2>1. Left \in Nat
    BY <1>1 DEF Left
  <2> QED
    BY <1>1, <2>1 DEF TapeLen, Wire
<1>3. ASSUME NEW k \in Nat \ {0}
      PROVE  FrameAt(k) \in AnyFrame
  BY <1>1, ElementOfSeq DEF FrameAt, Types_OK
<1>4. ASSUME NEW k \in Nat \ {0}
      PROVE  Size(FrameAt(k)) \in Nat
  <2>1. Len(FrameAt(k).payload) \in Nat
    BY <1>3, BytesOfFrame
  <2> QED
    BY <2>1 DEF Size, HeaderLength
<1> QED
  BY <1>1, <1>2, <1>3, <1>4

\* Parts of the tape that stay where they are or are moved along with the frame.
LEMMA PlacedShift ==
    ASSUME TapeLen \in Nat, TapeLen' \in Nat, NEW d \in Nat,
           NEW off, NEW off2, NEW k, off[k] \in Int,
           off2[k] = off[k] - d,
           FrameAt(k + 1)' = FrameAt(k + 1),
           TapeLen' <= TapeLen - d,
           \A i \in 1 .. TapeLen' : TapeAt(i)' = TapeAt(i + d),
           Placed(off, k)
    PROVE  Placed(off2, k)'
<1> SUFFICES ASSUME NEW i \in 1 .. TapeLen',
                    i - off2[k] \in 1 .. Size(FrameAt(k + 1))
             PROVE  TapeAt(i)' = Bytes(FrameAt(k + 1))[i - off2[k]]
  BY DEF Placed, Size, Bytes, Header
<1>1. i + d \in 1 .. TapeLen /\ (i + d) - off[k] = i - off2[k]
  OBVIOUS
<1>2. TapeAt(i + d) = Bytes(FrameAt(k + 1))[(i + d) - off[k]]
  BY <1>1 DEF Placed
<1> QED
  BY <1>1, <1>2

\* A frame that lies on the tape as a whole is not touched by what is put behind.
LEMMA PlacedExtend ==
    ASSUME TapeLen \in Nat, TapeLen' \in Nat,
           NEW off, NEW k, off[k] \in Int,
           Size(FrameAt(k + 1)) \in Nat,
           FrameAt(k + 1)' = FrameAt(k + 1),
           off[k] + Size(FrameAt(k + 1)) <= TapeLen,
           TapeLen <= TapeLen',
           \A i \in 1 .. TapeLen : TapeAt(i)' = TapeAt(i),
           Placed(off, k)
    PROVE  Placed(off, k)'
<1> SUFFICES ASSUME NEW i \in 1 .. TapeLen',
                    i - off[k] \in 1 .. Size(FrameAt(k + 1))
             PROVE  TapeAt(i)' = Bytes(FrameAt(k + 1))[i - off[k]]
  BY DEF Placed, Size, Bytes, Header
<1>1. i \in 1 .. TapeLen
  OBVIOUS
<1> QED
  BY <1>1 DEF Placed

-----------------------------------------------------------------------------
(***************************************************************************)
(* The parts of the invariant that one step is enough for.                 *)
(***************************************************************************)
LEMMA TypesStep ==
    ASSUME Types_OK, [Next]_vars
    PROVE  Types_OK'
<1> USE DEF Types_OK
<1>1. ASSUME NEW f \in Frames, SendFrame(f)
      PROVE  Types_OK'
  <2>1. f \in AnyFrame /\ Header(f) \in Seq(Nat)
    BY FramesAreFrames, BytesOfFrame
  <2> QED
    BY <1>1, <2>1 DEF SendFrame
<1>2. CASE Send
  <2>1. PICK n \in 1 .. Len(out) :
            /\ stream' = stream \o SubSeq(out, 1, n)
            /\ out' = SubSeq(out, n + 1, Len(out))
    BY <1>2 DEF Send
  <2>2. stream' \in Seq(Nat) /\ out' \in Seq(Nat)
    <3>1. Len(out) \in Nat
      OBVIOUS
    <3>2. SubSeq(out, 1, n) \in Seq(Nat) /\ SubSeq(out, n + 1, Len(out)) \in Seq(Nat)
      BY <3>1, SubSeqProperties
    <3> QED
      BY <2>1, <3>2, ConcatProperties
  <2>3. Append(sent, frame) \in Seq(AnyFrame)
    BY AppendProperties
  <2>4. \/ UNCHANGED <<sent, sender>>
        \/ sender' = "payload" /\ UNCHANGED sent
        \/ sender' = "idle" /\ sent' = Append(sent, frame)
    BY <1>2 DEF Send, AfterSend
  <2> QED
    BY <1>2, <2>2, <2>3, <2>4 DEF Send
<1>3. CASE StartPayload
  BY <1>3 DEF StartPayload, AnyFrame
<1>4. CASE SendError
  BY <1>4 DEF SendError
<1>5. CASE Receive
  <2>1. PICK n \in 1 .. Len(stream) :
            /\ got' = got \o SubSeq(stream, 1, n)
            /\ stream' = SubSeq(stream, n + 1, Len(stream))
    BY <1>5 DEF Receive
  <2>2. Len(stream) \in Nat
    OBVIOUS
  <2>3. /\ SubSeq(stream, 1, n) \in Seq(Nat)
        /\ SubSeq(stream, n + 1, Len(stream)) \in Seq(Nat)
    BY <2>2, SubSeqProperties
  <2>4. got' \in Seq(Nat) /\ stream' \in Seq(Nat)
    BY <2>1, <2>3, ConcatProperties
  <2> QED
    BY <1>5, <2>4 DEF Receive
<1>6. CASE ReceiveError
  BY <1>6 DEF ReceiveError
<1>7. CASE ParseHeader
  <2>1. got[1] \in Nat /\ got[2] \in Nat /\ got[3] \in Nat
    <3>1. Len(got) = 3
      BY <1>7 DEF ParseHeader, HeaderLength
    <3>2. 1 \in 1 .. Len(got) /\ 2 \in 1 .. Len(got) /\ 3 \in 1 .. Len(got)
      BY <3>1
    <3> QED
      BY <3>2, ElementOfSeq
  <2>2. LengthOf(got) \in Nat
    <3>1. LenBase \in Nat
      BY ChatFramingAssumption
    <3>2. got[2] * LenBase \in Nat
      BY <2>1, <3>1, ProductOfNats
    <3> QED
      BY <2>1, <3>2 DEF LengthOf
  <2>3. [type |-> got[1], payload |-> << >>] \in AnyFrame
    BY <2>1 DEF AnyFrame
  <2>4. Append(received, [type |-> got[1], payload |-> << >>]) \in Seq(AnyFrame)
    BY <2>3, AppendProperties
  <2>5. \/ receiver' = "failed" /\ UNCHANGED <<len, received>>
        \/ /\ received' = Append(received, [type |-> got[1], payload |-> << >>])
           /\ receiver' = "header" /\ len' = 3
        \/ receiver' = "payload" /\ len' = LengthOf(got) /\ UNCHANGED received
    BY <1>7 DEF ParseHeader, Deliver, HeaderLength
  <2>6. /\ typeOut' = got[1] /\ got' = << >>
        /\ UNCHANGED <<frame, sent, out, stream, sender, connection>>
    BY <1>7 DEF ParseHeader
  <2>7. received' \in Seq(AnyFrame) /\ len' \in Nat
    <3>1. received' = received \/ received' \in Seq(AnyFrame)
      BY <2>4, <2>5
    <3>2. len' = len \/ len' = 3 \/ len' = LengthOf(got)
      BY <2>5
    <3> QED
      BY <2>2, <3>1, <3>2
  <2>8. receiver' \in {"header", "payload", "failed"}
    BY <2>5
  <2> QED
    BY <2>1, <2>6, <2>7, <2>8
<1>8. CASE ParsePayload
  <2>1. [type |-> typeOut, payload |-> got] \in AnyFrame
    BY DEF AnyFrame
  <2>2. received' \in Seq(AnyFrame)
    BY <1>8, <2>1, AppendProperties DEF ParsePayload, Deliver
  <2> QED
    BY <1>8, <2>2 DEF ParsePayload, Deliver, HeaderLength
<1>9. CASE Reset
  <2>1. PICK n \in 0 .. Len(stream) : stream' = SubSeq(stream, 1, n)
    BY <1>9 DEF Reset
  <2>2. Len(stream) \in Nat
    OBVIOUS
  <2>3. stream' \in Seq(Nat)
    BY <2>1, <2>2, SubSeqProperties
  <2> QED
    BY <1>9, <2>3 DEF Reset
<1>10. CASE UNCHANGED vars
  BY <1>10 DEF vars
<1> QED
  BY <1>1, <1>2, <1>3, <1>4, <1>5, <1>6, <1>7, <1>8, <1>9, <1>10
  DEF Next, SenderStep, ReceiverStep

LEMMA SendingStep ==
    ASSUME Types_OK, Types_OK', Sending, [Next]_vars
    PROVE  Sending'
<1> USE DEF Sending
<1>1. ASSUME NEW f \in Frames, SendFrame(f)
      PROVE  Sending'
  <2>1. Header(f) # << >>
    BY DEF Header
  <2> QED
    BY <1>1, <2>1 DEF SendFrame, Fits
<1>2. CASE Send
  <2>1. CASE UNCHANGED <<sent, sender>> /\ out' # << >>
    BY <1>2, <2>1 DEF Send, Fits
  <2>2. CASE /\ out' = << >> /\ sender = "header" /\ frame.payload # << >>
             /\ sender' = "payload" /\ UNCHANGED sent
    BY <1>2, <2>2 DEF Send, Fits
  <2>3. CASE out' = << >> /\ sender' = "idle" /\ sent' = Append(sent, frame)
    <3>1. Fits(frame)
      BY <1>2 DEF Send
    <3>2. ASSUME NEW k \in 1 .. Len(sent')
          PROVE  Fits(sent'[k])
      <4>1. CASE k = Len(sent) + 1
        BY <2>3, <3>1, <4>1, AppendProperties DEF Types_OK
      <4>2. CASE k \in 1 .. Len(sent)
        BY <2>3, <4>2, AppendProperties DEF Types_OK
      <4> QED
        BY <2>3, <4>1, <4>2, AppendProperties DEF Types_OK
    <3> QED
      BY <2>3, <3>1, <3>2 DEF Fits
  <2> QED
    BY <1>2, <2>1, <2>2, <2>3 DEF Send, AfterSend
<1>3. CASE StartPayload
  BY <1>3 DEF StartPayload, Fits
<1>4. CASE SendError
  BY <1>4 DEF SendError, Fits
<1>5. CASE ReceiverStep
  BY <1>5 DEF ReceiverStep, Receive, ReceiveError, ParseHeader, ParsePayload, Fits
<1>6. CASE Reset
  BY <1>6 DEF Reset, Fits
<1>7. CASE UNCHANGED vars
  BY <1>7 DEF vars, Fits
<1> QED
  BY <1>1, <1>2, <1>3, <1>4, <1>5, <1>6, <1>7 DEF Next, SenderStep

-----------------------------------------------------------------------------
(***************************************************************************)
(* The tape, as the steps change it.                                       *)
(***************************************************************************)

\* The first m elements go from the front of one sequence to the end of another.
LEMMA MoveBytes ==
    ASSUME NEW a \in Seq(Nat), NEW b \in Seq(Nat), NEW m \in 0 .. Len(b)
    PROVE  /\ Len(a) \in Nat /\ Len(b) \in Nat
           /\ Len(a \o SubSeq(b, 1, m)) = Len(a) + m
           /\ Len(SubSeq(b, m + 1, Len(b))) = Len(b) - m
           /\ \A i \in 1 .. Len(a) + m :
                  (a \o SubSeq(b, 1, m))[i] = IF i <= Len(a) THEN a[i] ELSE b[i - Len(a)]
           /\ \A i \in 1 .. Len(b) - m : SubSeq(b, m + 1, Len(b))[i] = b[i + m]
<1>1. Len(a) \in Nat /\ Len(b) \in Nat
  OBVIOUS
<1>2. /\ SubSeq(b, 1, m) \in Seq(Nat) /\ Len(SubSeq(b, 1, m)) = m
      /\ \A i \in 1 .. m : SubSeq(b, 1, m)[i] = b[i]
  BY <1>1, SubSeqProperties
<1>3. /\ Len(SubSeq(b, m + 1, Len(b))) = Len(b) - m
      /\ \A i \in 1 .. Len(b) - m : SubSeq(b, m + 1, Len(b))[i] = b[i + m]
  BY <1>1, SubSeqProperties
<1>4. /\ Len(a \o SubSeq(b, 1, m)) = Len(a) + m
      /\ \A i \in 1 .. Len(a) + m :
             (a \o SubSeq(b, 1, m))[i] =
                 IF i <= Len(a) THEN a[i] ELSE SubSeq(b, 1, m)[i - Len(a)]
  BY <1>2, ConcatProperties
<1>5. ASSUME NEW i \in 1 .. Len(a) + m, ~ (i <= Len(a))
      PROVE  SubSeq(b, 1, m)[i - Len(a)] = b[i - Len(a)]
  <2>1. i - Len(a) \in 1 .. m
    BY <1>1, <1>5
  <2> QED
    BY <1>2, <2>1
<1> QED
  BY <1>1, <1>3, <1>4, <1>5

\* send takes bytes: they are on the tape before and after.
LEMMA SendKeepsTape ==
    ASSUME Types_OK, connection = "up", UNCHANGED <<connection, got>>,
           NEW m \in 1 .. Len(out),
           stream' = stream \o SubSeq(out, 1, m),
           out' = SubSeq(out, m + 1, Len(out))
    PROVE  /\ TapeLen' = TapeLen
           /\ Wire' = Wire + m
           /\ Len(out') = Len(out) - m
           /\ \A i \in 1 .. TapeLen : TapeAt(i)' = TapeAt(i)
<1>1. m \in 0 .. Len(out) /\ Len(got) \in Nat
  BY LenProperties DEF Types_OK
<1>2. /\ Len(stream) \in Nat /\ Len(out) \in Nat
      /\ Len(stream') = Len(stream) + m /\ Len(out') = Len(out) - m
      /\ \A i \in 1 .. Len(stream) + m :
             stream'[i] = IF i <= Len(stream) THEN stream[i] ELSE out[i - Len(stream)]
      /\ \A i \in 1 .. Len(out) - m : out'[i] = out[i + m]
  BY <1>1, MoveBytes DEF Types_OK
<1>3. TapeLen = Len(got) + Len(stream) + Len(out)
  BY DEF TapeLen, Left
<1>4. TapeLen' = Len(got) + Len(stream') + Len(out')
  BY DEF TapeLen, Left
<1>5. TapeLen' = TapeLen
  BY <1>1, <1>2, <1>3, <1>4
<1>6. Wire' = Wire + m
  BY <1>1, <1>2 DEF Wire
<1>7. ASSUME NEW i \in 1 .. TapeLen
      PROVE  TapeAt(i)' = TapeAt(i)
  <2>1. i \in 1 .. Len(got) + Len(stream) + Len(out)
    BY <1>3
  <2>2. TapeAt(i)' = IF i <= Len(got) THEN got[i]
                     ELSE IF i <= Len(got) + (Len(stream) + m) THEN stream'[i - Len(got)]
                     ELSE out'[i - Len(got) - (Len(stream) + m)]
    BY <1>2 DEF TapeAt
  <2>3. CASE i <= Len(got)
    BY <2>2, <2>3 DEF TapeAt
  <2>4. CASE ~ (i <= Len(got)) /\ i <= Len(got) + (Len(stream) + m)
    <3>1. /\ i - Len(got) \in 1 .. Len(stream) + m
          /\ (i - Len(got) <= Len(stream)) <=> (i <= Len(got) + Len(stream))
      BY <1>1, <1>2, <2>1, <2>4
    <3>2. stream'[i - Len(got)] = IF i <= Len(got) + Len(stream) THEN stream[i - Len(got)]
                                  ELSE out[i - Len(got) - Len(stream)]
      BY <1>2, <3>1
    <3> QED
      BY <2>2, <2>4, <3>2 DEF TapeAt
  <2>5. CASE ~ (i <= Len(got) + (Len(stream) + m))
    <3>1. /\ i - Len(got) - (Len(stream) + m) \in 1 .. Len(out) - m
          /\ i - Len(got) - (Len(stream) + m) + m = i - Len(got) - Len(stream)
          /\ ~ (i <= Len(got)) /\ ~ (i <= Len(got) + Len(stream))
      BY <1>1, <1>2, <2>1, <2>5
    <3>2. out'[i - Len(got) - (Len(stream) + m)] = out[i - Len(got) - Len(stream)]
      BY <1>2, <3>1
    <3> QED
      BY <2>2, <2>5, <3>1, <3>2 DEF TapeAt
  <2> QED
    BY <2>3, <2>4, <2>5
<1> QED
  BY <1>2, <1>5, <1>6, <1>7

\* recv returns bytes: they are on the tape before and after.
LEMMA ReceiveKeepsTape ==
    ASSUME Types_OK, UNCHANGED <<connection, out>>,
           NEW m \in 1 .. Len(stream),
           got' = got \o SubSeq(stream, 1, m),
           stream' = SubSeq(stream, m + 1, Len(stream))
    PROVE  /\ TapeLen' = TapeLen
           /\ Wire' = Wire
           /\ Len(got') = Len(got) + m
           /\ \A i \in 1 .. TapeLen : TapeAt(i)' = TapeAt(i)
<1>1. m \in 0 .. Len(stream) /\ Len(out) \in Nat
  BY LenProperties DEF Types_OK
<1>2. /\ Len(got) \in Nat /\ Len(stream) \in Nat
      /\ Len(got') = Len(got) + m /\ Len(stream') = Len(stream) - m
      /\ \A i \in 1 .. Len(got) + m :
             got'[i] = IF i <= Len(got) THEN got[i] ELSE stream[i - Len(got)]
      /\ \A i \in 1 .. Len(stream) - m : stream'[i] = stream[i + m]
  BY <1>1, MoveBytes DEF Types_OK
<1>3. Left' = Left /\ Left \in Nat
  BY <1>1 DEF Left
<1>4. TapeLen' = TapeLen /\ Wire' = Wire
  <2>1. TapeLen' = Len(got') + Len(stream') + Left
    BY <1>3 DEF TapeLen
  <2>2. Wire' = Len(got') + Len(stream')
    BY DEF Wire
  <2>3. TapeLen' = (Len(got) + m) + (Len(stream) - m) + Left
    BY <1>2, <2>1
  <2>4. Wire' = (Len(got) + m) + (Len(stream) - m)
    BY <1>2, <2>2
  <2>5. (Len(got) + m) + (Len(stream) - m) = Len(got) + Len(stream)
    BY <1>1, <1>2
  <2> QED
    BY <2>3, <2>4, <2>5 DEF TapeLen, Wire
<1>5. ASSUME NEW i \in 1 .. TapeLen
      PROVE  TapeAt(i)' = TapeAt(i)
  <2>1. i \in Nat /\ 1 <= i
    BY <1>2, <1>3 DEF TapeLen
  <2>2. TapeAt(i)' = IF i <= Len(got) + m THEN got'[i]
                     ELSE IF i <= Len(got) + m + (Len(stream) - m)
                     THEN stream'[i - (Len(got) + m)]
                     ELSE out[i - (Len(got) + m) - (Len(stream) - m)]
    BY <1>2 DEF TapeAt
  <2>3. CASE i <= Len(got) + m
    <3>1. i \in 1 .. Len(got) + m /\ (i <= Len(got) \/ i <= Len(got) + Len(stream))
      BY <1>1, <1>2, <2>1, <2>3
    <3> QED
      BY <1>2, <2>2, <2>3, <3>1 DEF TapeAt
  <2>4. CASE ~ (i <= Len(got) + m) /\ i <= Len(got) + m + (Len(stream) - m)
    <3>1. /\ i - (Len(got) + m) \in 1 .. Len(stream) - m
          /\ i - (Len(got) + m) + m = i - Len(got)
          /\ ~ (i <= Len(got)) /\ i <= Len(got) + Len(stream)
      BY <1>1, <1>2, <2>1, <2>4
    <3>2. stream'[i - (Len(got) + m)] = stream[i - Len(got)]
      BY <1>2, <3>1
    <3> QED
      BY <2>2, <2>4, <3>1, <3>2 DEF TapeAt
  <2>5. CASE ~ (i <= Len(got) + m + (Len(stream) - m))
    <3>1. /\ i - (Len(got) + m) - (Len(stream) - m) = i - Len(got) - Len(stream)
          /\ ~ (i <= Len(got)) /\ ~ (i <= Len(got) + Len(stream))
          /\ ~ (i <= Len(got) + m)
      BY <1>1, <1>2, <2>1, <2>5
    <3> QED
      BY <2>2, <2>5, <3>1 DEF TapeAt
  <2> QED
    BY <2>3, <2>4, <2>5
<1> QED
  BY <1>2, <1>4, <1>5

\* What has been received completely is taken off the tape.
LEMMA TakeOff ==
    ASSUME Types_OK, UNCHANGED <<connection, stream, out>>, got' = << >>
    PROVE  /\ TapeLen' = TapeLen - Len(got)
           /\ Wire' = Wire - Len(got)
           /\ \A i \in 1 .. TapeLen' : TapeAt(i)' = TapeAt(i + Len(got))
<1>1. Len(got) \in Nat /\ Len(stream) \in Nat /\ Len(out) \in Nat
  BY LenProperties DEF Types_OK
<1>2. Left' = Left /\ Left \in Nat
  BY <1>1 DEF Left
<1>3. Len(got') = 0
  OBVIOUS
<1>4. TapeLen' = TapeLen - Len(got) /\ Wire' = Wire - Len(got)
  BY <1>1, <1>2, <1>3 DEF TapeLen, Wire
<1>5. TapeLen' \in Nat
  BY <1>1, <1>2, <1>3 DEF TapeLen
<1>6. ASSUME NEW i \in 1 .. TapeLen'
      PROVE  TapeAt(i)' = TapeAt(i + Len(got))
  <2>1. i \in Nat /\ 1 <= i
    BY <1>5
  <2>2. TapeAt(i)' = IF i <= 0 THEN got'[i]
                     ELSE IF i <= 0 + Len(stream) THEN stream[i - 0]
                     ELSE out[i - 0 - Len(stream)]
    BY <1>3 DEF TapeAt
  <2>3. TapeAt(i)' = IF i <= Len(stream) THEN stream[i] ELSE out[i - Len(stream)]
    BY <1>1, <2>1, <2>2
  <2>4. TapeAt(i + Len(got)) =
            IF i <= Len(stream) THEN stream[(i + Len(got)) - Len(got)]
            ELSE out[(i + Len(got)) - Len(got) - Len(stream)]
    BY <1>1, <2>1 DEF TapeAt
  <2>5. /\ (i + Len(got)) - Len(got) = i
        /\ (i + Len(got)) - Len(got) - Len(stream) = i - Len(stream)
    BY <1>1, <2>1
  <2> QED
    BY <2>3, <2>4, <2>5
<1> QED
  BY <1>4, <1>6

-----------------------------------------------------------------------------
(***************************************************************************)
(* The steps of the sender.                                                *)
(***************************************************************************)

\* Positions and Wanted speak of these variables only.
LEMMA SameTape ==
    ASSUME Wanted, Aligned,
           UNCHANGED <<sent, frame, out, sender, stream, connection, got, typeOut, len,
                       receiver, received>>
    PROVE  Wanted' /\ Aligned'
<1>1. TapeLen' = TapeLen /\ Wire' = Wire /\ Put' = Put /\ Size(frame)' = Size(frame)
  BY DEF TapeLen, Left, Wire, Put, Size, HeaderLength
<1>2. \A k : FrameAt(k)' = FrameAt(k) /\ TapeAt(k)' = TapeAt(k)
  BY DEF FrameAt, TapeAt
<1>3. Wanted'
  BY <1>2 DEF Wanted, HeaderLength
<1>4. PICK off \in [Len(received) .. Len(sent) -> Int] : Positions(off)
  BY DEF Aligned
<1>5. First(off)' /\ Chain(off)' /\ Ends(off)'
  BY <1>1, <1>4 DEF Positions, First, Chain, Ends, Size, HeaderLength
<1>6. ASSUME NEW k \in Len(received) .. Len(sent)
      PROVE  Placed(off, k)'
  BY <1>1, <1>2, <1>4 DEF Positions, Placed, Size, Bytes, Header, HeaderLength
<1>7. Positions(off)'
  BY <1>5, <1>6 DEF Positions
<1> QED
  BY <1>3, <1>7 DEF Aligned

\* The offsets are integers, and behind the last frame that was sent nothing has been
\* received when the sender is idle.
LEMMA InsideTape ==
    ASSUME Types_OK, Delivered,
           NEW off \in [Len(received) .. Len(sent) -> Int], Positions(off)
    PROVE  /\ Len(received) \in Len(received) .. Len(sent)
           /\ Len(sent) \in Len(received) .. Len(sent)
           /\ \A k \in Len(received) .. Len(sent) : off[k] \in Int
           /\ \A k \in Len(received) .. Len(sent) :
                  k # Len(sent) =>
                      /\ FrameAt(k + 1) = sent[k + 1]
                      /\ off[k] + Size(FrameAt(k + 1)) = off[k + 1]
                      /\ off[k] + Size(FrameAt(k + 1)) <= off[Len(sent)]
           /\ receiver = "payload" /\ sender = "idle" => Len(received) # Len(sent)
<1>1. Len(received) \in Nat /\ Len(sent) \in Nat /\ Wire \in Nat
  BY Ordered
<1>2. /\ Len(received) \in Len(received) .. Len(sent)
      /\ Len(sent) \in Len(received) .. Len(sent)
  BY <1>1 DEF Delivered
<1>3. ASSUME NEW k \in Len(received) .. Len(sent), k # Len(sent)
      PROVE  /\ FrameAt(k + 1) = sent[k + 1]
             /\ off[k] + Size(FrameAt(k + 1)) = off[k + 1]
             /\ off[k] + Size(FrameAt(k + 1)) <= off[Len(sent)]
  <2>1. k + 1 \in Len(received) + 1 .. Len(sent) /\ k + 1 - 1 = k /\ k + 1 <= Len(sent)
    BY <1>1, <1>3
  <2>2. FrameAt(k + 1) = sent[k + 1]
    BY <2>1 DEF FrameAt
  <2>3. off[k + 1] = off[k] + Size(sent[k + 1]) /\ off[k + 1] <= off[Len(sent)]
    BY <2>1 DEF Positions, Chain
  <2> QED
    BY <2>2, <2>3
<1>4. ASSUME receiver = "payload", sender = "idle", Len(received) = Len(sent)
      PROVE  FALSE
  <2>1. off[Len(sent)] = -3
    BY <1>4 DEF Positions, First, HeaderLength
  <2>2. Wire <= off[Len(sent)]
    BY <1>4 DEF Positions, Ends
  <2> QED
    BY <1>1, <2>1, <2>2
<1> QED
  BY <1>2, <1>3, <1>4

LEMMA SendFrameStep ==
    ASSUME Types_OK, Types_OK', Sending, Delivered, Wanted, Aligned, receiver # "failed",
           NEW f \in Frames, SendFrame(f)
    PROVE  Wanted' /\ Aligned'
<1>1. CASE ~ Fits(f)
  BY <1>1, SameTape DEF SendFrame
<1>2. CASE Fits(f)
  <2>1. PICK off \in [Len(received) .. Len(sent) -> Int] : Positions(off)
    BY DEF Aligned
  <2>2. /\ sender = "idle" /\ out = << >>
        /\ frame' = f /\ out' = Header(f) /\ sender' = "header"
        /\ UNCHANGED <<sent, stream, connection, got, typeOut, len, receiver, received>>
    BY <1>2 DEF SendFrame, Sending
  <2>3. /\ f \in AnyFrame /\ Len(out') = 3 /\ Size(f) \in Nat /\ 3 <= Size(f)
    BY <2>2, FramesAreFrames, BytesOfFrame DEF Size, HeaderLength
  <2>4. /\ Len(got) \in Nat /\ Len(stream) \in Nat /\ Len(sent) \in Nat
        /\ Len(received) \in Nat /\ TapeLen \in Nat
        /\ \A k \in Nat \ {0} : Size(FrameAt(k)) \in Nat
    BY Ordered
  <2>5. Left = 0 /\ Left' = IF connection = "up" THEN 3 ELSE 0
    BY <2>2, <2>3 DEF Left
  <2>6. TapeLen = Wire /\ Wire' = Wire /\ TapeLen = Len(got) + Len(stream)
    BY <2>2, <2>4, <2>5 DEF TapeLen, Wire
  <2>7. TapeLen' = Len(got) + Len(stream) + Left'
    BY <2>2 DEF TapeLen
  <2>8. TapeLen' = TapeLen + Left'
    BY <2>6, <2>7
  <2>9. /\ TapeLen <= off[Len(sent)]
        /\ connection = "up" => TapeLen = off[Len(sent)]
        /\ off[Len(sent)] \in Int
    BY <2>1, <2>2, <2>4, <2>6, InsideTape DEF Positions, Ends, Put
  <2>10. \A i \in 1 .. TapeLen : TapeAt(i)' = TapeAt(i)
    BY <2>2, <2>6 DEF TapeAt
  <2>11. ASSUME NEW k \in Len(received) .. Len(sent), k # Len(sent)
         PROVE  Placed(off, k)'
    <3>1. /\ off[k] \in Int /\ off[k] + Size(FrameAt(k + 1)) <= off[Len(sent)]
          /\ FrameAt(k + 1) = sent[k + 1] /\ Placed(off, k) /\ k + 1 \in Nat \ {0}
          /\ k + 1 <= Len(sent)
      <4>1. Placed(off, k)
        BY <2>1 DEF Positions
      <4>2. k + 1 \in Nat \ {0} /\ k + 1 <= Len(sent)
        BY <2>4, <2>11
      <4> QED
        BY <2>1, <2>11, <4>1, <4>2, InsideTape
    <3>2. FrameAt(k + 1)' = FrameAt(k + 1)
      BY <2>2, <3>1 DEF FrameAt
    <3>3. Size(FrameAt(k + 1)) \in Nat
      BY <2>4, <3>1
    <3>4. CASE connection = "up"
      <4>1. TapeLen' = TapeLen + 3
        BY <2>5, <2>8, <3>4
      <4>2. TapeLen' \in Nat /\ TapeLen <= TapeLen'
        BY <2>4, <4>1
      <4>3. off[k] + Size(FrameAt(k + 1)) <= TapeLen
        BY <2>9, <3>1, <3>4
      <4> QED
        BY <2>4, <2>10, <3>1, <3>2, <3>3, <4>2, <4>3, PlacedExtend
    <3>5. CASE connection # "up"
      <4>1. TapeLen' = TapeLen
        BY <2>4, <2>5, <2>8, <3>5
      <4> QED
        BY <2>10, <2>4, <3>1, <3>2, <4>1 DEF Placed, Size, Bytes, Header
    <3> QED
      BY <3>4, <3>5
  <2>12. Placed(off, Len(sent))'
    <3>1. FrameAt(Len(sent) + 1)' = f
      BY <2>2, <2>4 DEF FrameAt
    <3>2. CASE connection = "up"
      <4>1. TapeLen' = TapeLen + 3 /\ TapeLen = off[Len(sent)]
        BY <2>5, <2>8, <2>9, <3>2
      <4>2. ASSUME NEW i \in 1 .. TapeLen + 3, i - TapeLen \in 1 .. Size(f)
            PROVE  TapeAt(i)' = Bytes(f)[i - TapeLen]
        <5>1. i - TapeLen \in 1 .. 3 /\ TapeLen = Len(got) + Len(stream)
          <6>1. TapeLen \in Nat /\ Size(f) \in Nat
            BY <2>3, <2>4
          <6>2. i - TapeLen >= 1
            BY <4>2, <6>1
          <6> QED
            BY <2>6, <6>1, <6>2
        <5>2. /\ i - Len(got) - Len(stream) = i - TapeLen
              /\ ~ (i <= Len(got)) /\ ~ (i <= Len(got) + Len(stream))
          BY <2>4, <4>2, <5>1
        <5>3. TapeAt(i)' = out'[i - TapeLen]
          BY <2>2, <5>2 DEF TapeAt
        <5> QED
          BY <2>2, <2>3, <5>1, <5>3, BytesOfFrame DEF HeaderLength
      <4>3. \A i \in 1 .. TapeLen + 3 :
                i - off[Len(sent)] \in 1 .. Size(f) =>
                    TapeAt(i)' = Bytes(f)[i - off[Len(sent)]]
        BY <4>1, <4>2
      <4> QED
        BY <2>2, <3>1, <4>1, <4>3 DEF Placed, Size, Bytes, Header, HeaderLength
    <3>3. CASE connection # "up"
      <4>1. TapeLen' = TapeLen
        BY <2>4, <2>5, <2>8, <3>3
      <4>2. ASSUME NEW i \in 1 .. TapeLen, NEW size, i - off[Len(sent)] \in 1 .. size
            PROVE  FALSE
        BY <2>4, <2>9, <4>2
      <4> QED
        BY <2>2, <4>1, <4>2 DEF Placed
    <3> QED
      BY <3>2, <3>3
  <2>13. First(off)' /\ Chain(off)'
    BY <2>1, <2>2 DEF Positions, First, Chain, Size, HeaderLength
  <2>14. Ends(off)'
    <3>1. Put' = 3 /\ Size(frame') = Size(f) /\ Size(frame)' = Size(f)
      BY <2>2 DEF Put, HeaderLength, Size
    <3>2. connection = "up" => TapeLen' = off[Len(sent)] + 3
      BY <2>5, <2>8, <2>9
    <3>3. Wire' < off[Len(sent)] + Size(f)
      BY <2>3, <2>4, <2>6, <2>9
    <3> QED
      BY <2>2, <3>1, <3>2, <3>3 DEF Ends
  <2>15. Positions(off)'
    BY <2>2, <2>11, <2>12, <2>13, <2>14 DEF Positions
  <2>16. Wanted'
    <3>1. ASSUME receiver = "payload"
          PROVE  FrameAt(Len(received) + 1)' = FrameAt(Len(received) + 1)
      <4>1. Len(received) # Len(sent)
        BY <2>1, <2>2, <3>1, InsideTape
      <4>2. Len(received) + 1 <= Len(sent)
        BY <2>4, <4>1 DEF Delivered
      <4> QED
        BY <2>2, <4>2 DEF FrameAt
    <3> QED
      BY <2>2, <3>1 DEF Wanted, HeaderLength
  <2> QED
    BY <2>2, <2>15, <2>16 DEF Aligned
<1> QED
  BY <1>1, <1>2

LEMMA SendStep ==
    ASSUME Types_OK, Types_OK', Sending, Delivered, Wanted, Aligned, receiver # "failed",
           Send
    PROVE  Wanted' /\ Aligned'
<1>1. PICK off \in [Len(received) .. Len(sent) -> Int] : Positions(off)
  BY DEF Aligned
<1>2. PICK m \in 1 .. Len(out) :
          stream' = stream \o SubSeq(out, 1, m) /\ out' = SubSeq(out, m + 1, Len(out))
  BY DEF Send
<1>3. /\ sender \in {"header", "payload"} /\ connection = "up" /\ out # << >>
      /\ UNCHANGED <<frame, connection, got, typeOut, len, receiver, received>>
  BY DEF Send
<1>4. /\ TapeLen' = TapeLen /\ Wire' = Wire + m /\ Len(out') = Len(out) - m
      /\ \A i \in 1 .. TapeLen : TapeAt(i)' = TapeAt(i)
  BY <1>2, <1>3, SendKeepsTape
<1>5. /\ Len(got) \in Nat /\ Len(stream) \in Nat /\ Len(sent) \in Nat /\ Len(out) \in Nat
      /\ Len(received) \in Nat /\ TapeLen \in Nat /\ Wire \in Nat
      /\ \A k \in Nat \ {0} : Size(FrameAt(k)) \in Nat
  BY Ordered
<1>6. Len(frame.payload) \in Nat /\ Size(frame) = 3 + Len(frame.payload)
  BY BytesOfFrame DEF Types_OK, Size, HeaderLength
<1>7. TapeLen = off[Len(sent)] + Put /\ off[Len(sent)] \in Int
  BY <1>1, <1>3, InsideTape DEF Positions, Ends
<1>8. TapeLen = Wire + Len(out)
  BY <1>3, <1>5 DEF TapeLen, Wire, Left
<1>9. Wire' = TapeLen - Len(out') /\ Len(out') \in Nat
  BY <1>4, <1>5, <1>8
<1>10. Put = IF sender = "header" THEN 3 ELSE Size(frame)
  BY <1>3 DEF Put, HeaderLength
\* The frame is not finished.
<1>11. ASSUME UNCHANGED sent, sender' # "idle", Put' = Put, Wire' < off[Len(sent)] + Size(frame)
       PROVE  Wanted' /\ Aligned'
  <2>1. \A k : FrameAt(k)' = FrameAt(k)
    BY <1>3, <1>11 DEF FrameAt
  <2>2. ASSUME NEW k \in Len(received) .. Len(sent)
        PROVE  Placed(off, k)'
    BY <1>1, <1>4, <2>1 DEF Positions, Placed, Size, Bytes, Header, HeaderLength
  <2>3. First(off)' /\ Chain(off)'
    BY <1>1, <1>3, <1>11 DEF Positions, First, Chain, Size, HeaderLength
  <2>4. Ends(off)'
    BY <1>3, <1>4, <1>7, <1>11 DEF Ends, Size, HeaderLength
  <2>5. Positions(off)'
    BY <1>3, <1>11, <2>2, <2>3, <2>4 DEF Positions
  <2>6. Wanted'
    BY <1>3, <2>1 DEF Wanted, HeaderLength
  <2> QED
    BY <1>1, <1>3, <1>11, <2>5, <2>6 DEF Aligned
<1>12. CASE out' # << >>
  <2>1. UNCHANGED <<sent, sender>>
    BY <1>12 DEF Send, AfterSend
  <2>2. Put' = Put
    BY <1>3, <1>12, <2>1 DEF Put, Size, HeaderLength
  <2>3. m < Len(out)
    <3>1. Len(out') # 0
      BY <1>12, EmptySeq DEF Types_OK
    <3> QED
      BY <1>4, <1>5, <3>1
  <2>4. Put <= Size(frame) /\ Put \in Nat /\ Size(frame) \in Nat
    BY <1>6, <1>10
  <2>5. Wire + m < off[Len(sent)] + Size(frame)
    <3>1. Wire + m < TapeLen
      BY <1>5, <1>8, <2>3
    <3>2. TapeLen <= off[Len(sent)] + Size(frame)
      BY <1>7, <2>4
    <3>3. off[Len(sent)] + Size(frame) \in Int
      BY <1>7, <2>4
    <3> QED
      BY <1>5, <3>1, <3>2, <3>3
  <2> QED
    BY <1>3, <1>4, <1>11, <2>1, <2>2, <2>5
<1>13. CASE out' = << >> /\ sender = "header" /\ frame.payload # << >>
  <2>1. sender' = "payload" /\ UNCHANGED sent
    BY <1>13 DEF Send, AfterSend
  <2>2. Put' = Put
    BY <1>3, <1>13, <2>1 DEF Put, HeaderLength
  <2>3. Len(frame.payload) # 0 /\ Len(out') = 0
    <3>1. frame.payload \in Seq(Nat)
      BY DEF Types_OK, AnyFrame
    <3> QED
      BY <1>13, <3>1, EmptySeq
  <2>4. Wire' < off[Len(sent)] + Size(frame)
    <3>1. TapeLen = off[Len(sent)] + 3
      BY <1>7, <1>10, <1>13
    <3>2. Wire' = TapeLen
      BY <1>5, <1>9, <2>3
    <3>3. TapeLen < off[Len(sent)] + Size(frame)
      BY <1>6, <1>7, <2>3, <3>1
    <3> QED
      BY <3>2, <3>3
  <2> QED
    BY <1>11, <2>1, <2>2, <2>4
\* The frame is finished.
<1>14. CASE out' = << >> /\ ~ (sender = "header" /\ frame.payload # << >>)
  <2>1. sender' = "idle" /\ sent' = Append(sent, frame)
    BY <1>14 DEF Send, AfterSend
  <2>2. /\ Len(sent') = Len(sent) + 1
        /\ \A k \in 1 .. Len(sent) : sent'[k] = sent[k]
        /\ sent'[Len(sent) + 1] = frame
    BY <2>1, AppendProperties DEF Types_OK
  <2> DEFINE n == Len(sent)
  <2>3. PICK off2 \in [Len(received) .. n + 1 -> Int] :
            /\ \A k \in Len(received) .. n :
                   k \in Len(received) .. n + 1 /\ off2[k] = off[k]
            /\ off2[n + 1] = off[n] + Size(frame)
    <3> DEFINE o == [k \in Len(received) .. n + 1 |->
                        IF k <= n THEN off[k] ELSE off[n] + Size(frame)]
    <3>1. /\ \A k \in Len(received) .. n : k \in Len(received) .. n + 1 /\ o[k] = off[k]
          /\ o[n + 1] = off[n] + Size(frame)
      BY <1>5 DEF Delivered
    <3>2. \A k \in Len(received) .. n + 1 : k <= n => k \in Len(received) .. n
      BY <1>5
    <3>3. o \in [Len(received) .. n + 1 -> Int]
      BY <1>1, <1>6, <1>7, <3>2
    <3> QED
      BY <3>1, <3>3
  <2>5. Size(frame) \in Nat /\ Put = Size(frame)
    <3>1. frame.payload = << >> => Len(frame.payload) = 0
      OBVIOUS
    <3> QED
      BY <1>3, <1>6, <1>10, <1>14, <3>1
  <2>6. TapeLen = off2[n + 1]
    BY <1>7, <2>3, <2>5
  <2>7. \A k \in Nat : k + 1 <= n + 1 => FrameAt(k + 1)' = FrameAt(k + 1)
    <3> SUFFICES ASSUME NEW k \in Nat, k + 1 <= n + 1
                 PROVE  FrameAt(k + 1)' = FrameAt(k + 1)
      OBVIOUS
    <3>1. FrameAt(k + 1)' = sent'[k + 1]
      BY <2>2 DEF FrameAt
    <3>2. CASE k + 1 <= n
      <4>1. k + 1 \in 1 .. n
        BY <1>5, <3>2
      <4> QED
        BY <2>2, <3>1, <3>2, <4>1 DEF FrameAt
    <3>3. CASE k = n
      BY <1>5, <2>2, <3>1, <3>3 DEF FrameAt
    <3> QED
      BY <1>5, <3>2, <3>3
  <2>8. ASSUME NEW k \in Len(received) .. n + 1
        PROVE  Placed(off2, k)'
    <3>1. CASE k \in Len(received) .. n
      <4>1. k \in Nat /\ k + 1 <= n + 1
        BY <1>5, <3>1
      <4>2. FrameAt(k + 1)' = FrameAt(k + 1) /\ off2[k] = off[k] /\ Placed(off, k)
        BY <1>1, <2>3, <2>7, <3>1, <4>1 DEF Positions
      <4> QED
        BY <1>4, <4>2 DEF Placed, Size, Bytes, Header, HeaderLength
    <3>2. CASE k = n + 1
      <4>1. ASSUME NEW i \in 1 .. TapeLen, NEW size, i - off2[n + 1] \in 1 .. size
            PROVE  FALSE
        BY <1>5, <2>6, <4>1
      <4> QED
        BY <1>4, <3>2, <4>1 DEF Placed
    <3> QED
      BY <1>5, <3>1, <3>2
  <2>9. First(off2)'
    <3>1. Len(received) \in Len(received) .. n
      BY <1>1, InsideTape
    <3> QED
      BY <1>1, <1>3, <2>3, <3>1 DEF Positions, First, HeaderLength
  <2>10. Chain(off2)'
    <3> SUFFICES ASSUME NEW k \in Len(received) + 1 .. n + 1
                 PROVE  /\ off2[k] = off2[k - 1] + Size(sent'[k])
                        /\ off2[k] <= off2[n + 1]
      BY <1>3, <2>2 DEF Chain, Size, HeaderLength
    <3>1. CASE k \in Len(received) + 1 .. n
      <4>1. k \in Len(received) .. n /\ k - 1 \in Len(received) .. n /\ k \in 1 .. n
        BY <1>5, <3>1
      <4>2. off[k] = off[k - 1] + Size(sent[k]) /\ off[k] <= off[n]
        BY <1>1, <3>1 DEF Positions, Chain
      <4>3. off[k] \in Int /\ off[n] \in Int
        BY <1>1, <1>7, <4>1
      <4>4. off2[k] = off2[k - 1] + Size(sent'[k])
        BY <2>2, <2>3, <4>1, <4>2
      <4>5. off2[k] <= off2[n + 1]
        <5>1. off[k] <= off[n] + Size(frame)
          BY <2>5, <4>2, <4>3
        <5> QED
          BY <2>3, <4>1, <5>1
      <4> QED
        BY <4>4, <4>5
    <3>2. CASE k = n + 1
      <4>1. k - 1 = n /\ n \in Len(received) .. n
        BY <1>5, <3>2 DEF Delivered
      <4>2. off2[k] = off2[k - 1] + Size(sent'[k])
        BY <2>2, <2>3, <3>2, <4>1
      <4>3. off2[n + 1] \in Int
        BY <1>7, <2>3, <2>5
      <4> QED
        BY <3>2, <4>2, <4>3
    <3>3. k \in Len(received) + 1 .. n \/ k = n + 1
      BY <1>5
    <3> QED
      BY <3>1, <3>2, <3>3
  <2>11. Ends(off2)'
    <3>1. Put' = 0
      BY <2>1 DEF Put
    <3>2. Wire' <= TapeLen
      BY <1>5, <1>9
    <3> QED
      BY <1>4, <1>5, <2>1, <2>2, <2>6, <3>1, <3>2 DEF Ends
  <2>12. Positions(off2)'
    BY <1>3, <2>2, <2>8, <2>9, <2>10, <2>11 DEF Positions
  <2>13. Wanted'
    <3>1. FrameAt(Len(received) + 1)' = FrameAt(Len(received) + 1)
      <4>1. Len(received) + 1 <= n + 1
        BY <1>5 DEF Delivered
      <4> QED
        BY <1>3, <1>5, <2>7, <4>1
    <3> QED
      BY <1>3, <3>1 DEF Wanted, HeaderLength
  <2> QED
    BY <1>3, <2>2, <2>12, <2>13 DEF Aligned
<1> QED
  BY <1>12, <1>13, <1>14

LEMMA StartPayloadStep ==
    ASSUME Types_OK, Types_OK', Sending, Delivered, Wanted, Aligned, receiver # "failed",
           StartPayload
    PROVE  Wanted' /\ Aligned'
<1>1. PICK off \in [Len(received) .. Len(sent) -> Int] : Positions(off)
  BY DEF Aligned
<1>2. /\ sender = "payload" /\ out = << >> /\ out' = frame.payload
      /\ UNCHANGED <<sent, frame, sender, stream, connection, got, typeOut, len, receiver,
                     received>>
  BY DEF StartPayload
<1>3. /\ Len(got) \in Nat /\ Len(stream) \in Nat /\ Len(sent) \in Nat
      /\ Len(received) \in Nat /\ TapeLen \in Nat
      /\ \A k \in Nat \ {0} : Size(FrameAt(k)) \in Nat
  BY Ordered
<1>4. /\ Len(frame.payload) \in Nat /\ Size(frame) = 3 + Len(frame.payload)
      /\ \A i \in 1 .. Len(frame.payload) : Bytes(frame)[3 + i] = frame.payload[i]
  BY BytesOfFrame DEF Types_OK, Size, HeaderLength
<1>5. out' # << >>
  BY <1>2 DEF Sending
<1>6. Left = 0 /\ Left' = IF connection = "up" THEN Len(frame.payload) ELSE 0
  BY <1>2 DEF Left
<1>7. TapeLen = Wire /\ TapeLen = Len(got) + Len(stream)
  BY <1>3, <1>6 DEF TapeLen, Wire
<1>8. TapeLen' = Len(got) + Len(stream) + Left'
  BY <1>2 DEF TapeLen
<1>9. TapeLen' = TapeLen + Left'
  BY <1>7, <1>8
<1>10. \A i \in 1 .. TapeLen : TapeAt(i)' = TapeAt(i)
  BY <1>2, <1>7 DEF TapeAt
<1>11. \A k : FrameAt(k)' = FrameAt(k)
  BY <1>2 DEF FrameAt
<1>12. Put = 3 /\ Put' = Size(frame)
  BY <1>2, <1>5 DEF Put, Size, HeaderLength
<1>13. off[Len(sent)] \in Int /\ (connection = "up" => TapeLen = off[Len(sent)] + 3)
  BY <1>1, <1>12, InsideTape DEF Positions, Ends
<1>14. CASE connection # "up"
  <2>1. TapeLen' = TapeLen
    BY <1>3, <1>6, <1>9, <1>14
  <2>2. \A k \in Len(received) .. Len(sent) : Placed(off, k)'
    BY <1>1, <1>10, <1>11, <2>1 DEF Positions, Placed, Size, Bytes, Header, HeaderLength
  <2>3. First(off)' /\ Chain(off)' /\ Ends(off)'
    BY <1>1, <1>2, <1>14 DEF Positions, First, Chain, Ends, Wire, Size, HeaderLength
  <2>4. Positions(off)'
    BY <1>2, <2>2, <2>3 DEF Positions
  <2>5. Wanted'
    BY <1>2, <1>11 DEF Wanted, HeaderLength
  <2> QED
    BY <1>2, <2>4, <2>5 DEF Aligned
<1>15. CASE connection = "up"
  <2>1. TapeLen' = TapeLen + Len(frame.payload)
    BY <1>6, <1>9, <1>15
  <2>2. TapeLen + Len(frame.payload) = off[Len(sent)] + Size(frame)
    BY <1>4, <1>13, <1>15
  <2>3. ASSUME NEW k \in Len(received) .. Len(sent), k # Len(sent)
        PROVE  Placed(off, k)'
    <3>1. /\ off[k] \in Int /\ off[k] + Size(FrameAt(k + 1)) <= off[Len(sent)]
          /\ Placed(off, k)
      BY <1>1, <2>3, InsideTape DEF Positions
    <3>2. Size(FrameAt(k + 1)) \in Nat
      BY <1>3
    <3>3. off[k] + Size(FrameAt(k + 1)) <= TapeLen
      BY <1>3, <1>13, <1>15, <3>1, <3>2
    <3>4. TapeLen' \in Nat /\ TapeLen <= TapeLen'
      BY <1>3, <1>4, <2>1
    <3> QED
      BY <1>3, <1>10, <1>11, <3>1, <3>2, <3>3, <3>4, PlacedExtend
  <2>4. Placed(off, Len(sent))'
    <3>1. FrameAt(Len(sent) + 1) = frame
      BY <1>3 DEF FrameAt
    <3>2. ASSUME NEW i \in 1 .. TapeLen + Len(frame.payload),
                 i - off[Len(sent)] \in 1 .. Size(frame)
          PROVE  TapeAt(i)' = Bytes(frame)[i - off[Len(sent)]]
      <4>1. CASE i <= TapeLen
        <5>1. i \in 1 .. TapeLen
          BY <1>3, <1>4, <4>1
        <5>2. Placed(off, Len(sent))
          BY <1>1, InsideTape DEF Positions
        <5>3. TapeAt(i) = Bytes(frame)[i - off[Len(sent)]]
          BY <3>1, <3>2, <5>1, <5>2 DEF Placed
        <5> QED
          BY <1>10, <5>1, <5>3
      <4>2. CASE ~ (i <= TapeLen)
        <5>1. /\ i - TapeLen \in 1 .. Len(frame.payload)
              /\ 3 + (i - TapeLen) = i - off[Len(sent)]
          <6>1. TapeLen \in Nat /\ Len(frame.payload) \in Nat /\ TapeLen < i
            BY <1>3, <1>4, <4>2
          <6>2. i - TapeLen \in 1 .. Len(frame.payload)
            BY <3>2, <6>1
          <6>3. off[Len(sent)] \in Int /\ TapeLen = off[Len(sent)] + 3
            BY <1>13, <1>15
          <6> QED
            BY <6>2, <6>3
        <5>2. TapeLen = Len(got) + Len(stream)
          BY <1>7
        <5>3. /\ i - Len(got) - Len(stream) = i - TapeLen
              /\ ~ (i <= Len(got)) /\ ~ (i <= Len(got) + Len(stream))
          BY <1>3, <4>2, <5>1, <5>2
        <5>4. TapeAt(i)' = out'[i - TapeLen]
          BY <1>2, <5>3 DEF TapeAt
        <5> QED
          BY <1>2, <1>4, <5>1, <5>4
      <4> QED
        BY <4>1, <4>2
    <3> QED
      BY <1>2, <1>11, <2>1, <3>1, <3>2 DEF Placed, Size, Bytes, Header, HeaderLength
  <2>5. First(off)' /\ Chain(off)'
    BY <1>1, <1>2 DEF Positions, First, Chain, Size, HeaderLength
  <2>6. Ends(off)'
    <3>1. Wire' = Wire /\ Wire < off[Len(sent)] + Size(frame)
      BY <1>1, <1>2 DEF Positions, Ends, Wire
    <3> QED
      BY <1>2, <1>12, <2>1, <2>2, <3>1 DEF Ends, Size, HeaderLength
  <2>7. Positions(off)'
    BY <1>2, <2>3, <2>4, <2>5, <2>6 DEF Positions
  <2>8. Wanted'
    BY <1>2, <1>11 DEF Wanted, HeaderLength
  <2> QED
    BY <1>2, <2>7, <2>8 DEF Aligned
<1> QED
  BY <1>14, <1>15

LEMMA SendErrorStep ==
    ASSUME Types_OK, Types_OK', Sending, Delivered, Wanted, Aligned, receiver # "failed",
           SendError
    PROVE  Wanted' /\ Aligned'
<1>1. PICK off \in [Len(received) .. Len(sent) -> Int] : Positions(off)
  BY DEF Aligned
<1>2. /\ sender \in {"header", "payload"} /\ connection = "reset" /\ sender' = "failed"
      /\ UNCHANGED <<sent, frame, out, stream, connection, got, typeOut, len, receiver,
                     received>>
  BY DEF SendError
<1>3. TapeLen' = TapeLen /\ Wire' = Wire /\ Size(frame)' = Size(frame)
  BY <1>2 DEF TapeLen, Left, Wire, Size, HeaderLength
<1>4. \A k : FrameAt(k)' = FrameAt(k) /\ TapeAt(k)' = TapeAt(k)
  BY <1>2 DEF FrameAt, TapeAt
<1>5. Wanted'
  BY <1>2, <1>4 DEF Wanted, HeaderLength
<1>6. First(off)' /\ Chain(off)' /\ Ends(off)'
  BY <1>1, <1>2, <1>3 DEF Positions, First, Chain, Ends, Size, HeaderLength
<1>7. \A k \in Len(received) .. Len(sent) : Placed(off, k)'
  BY <1>1, <1>3, <1>4 DEF Positions, Placed, Size, Bytes, Header, HeaderLength
<1>8. Positions(off)'
  BY <1>2, <1>6, <1>7 DEF Positions
<1> QED
  BY <1>2, <1>5, <1>8 DEF Aligned

-----------------------------------------------------------------------------
(***************************************************************************)
(* The connection, and the steps of the receiver.                          *)
(***************************************************************************)
LEMMA ResetStep ==
    ASSUME Types_OK, Types_OK', Sending, Delivered, Wanted, Aligned, receiver # "failed",
           Reset
    PROVE  Wanted' /\ Aligned'
<1>1. PICK off \in [Len(received) .. Len(sent) -> Int] : Positions(off)
  BY DEF Aligned
<1>2. PICK m \in 0 .. Len(stream) : stream' = SubSeq(stream, 1, m)
  BY DEF Reset
<1>3. /\ connection = "up" /\ connection' = "reset"
      /\ UNCHANGED <<sent, frame, out, sender, got, typeOut, len, receiver, received>>
  BY DEF Reset
<1>4. /\ Len(got) \in Nat /\ Len(stream) \in Nat /\ Len(sent) \in Nat /\ Len(out) \in Nat
      /\ Len(received) \in Nat /\ TapeLen \in Nat
  BY Ordered
<1>5. Len(stream') = m /\ \A i \in 1 .. m : stream'[i] = stream[i]
  BY <1>2, <1>4, SubSeqProperties DEF Types_OK
<1>6. Left' = 0 /\ Left \in Nat
  BY <1>3, <1>4 DEF Left
<1>7. TapeLen' = Len(got) + m /\ Wire' = Len(got) + m
  <2>1. TapeLen' = Len(got) + Len(stream') + Left' /\ Wire' = Len(got) + Len(stream')
    BY <1>3 DEF TapeLen, Wire
  <2> QED
    BY <1>2, <1>4, <1>5, <1>6, <2>1
<1>8. Len(got) + m <= TapeLen /\ Len(got) + m <= Wire
  BY <1>2, <1>4, <1>6 DEF TapeLen, Wire
<1>9. \A k : FrameAt(k)' = FrameAt(k)
  BY <1>3 DEF FrameAt
<1>10. ASSUME NEW i \in 1 .. Len(got) + m
       PROVE  i \in 1 .. TapeLen /\ TapeAt(i)' = TapeAt(i)
  <2>1. TapeAt(i)' = IF i <= Len(got) THEN got[i]
                     ELSE IF i <= Len(got) + m THEN stream'[i - Len(got)]
                     ELSE out[i - Len(got) - m]
    BY <1>3, <1>5 DEF TapeAt
  <2>2. i \in 1 .. TapeLen /\ i <= Len(got) + m /\ i <= Len(got) + Len(stream)
    BY <1>2, <1>4, <1>8
  <2>3. ~ (i <= Len(got)) => i - Len(got) \in 1 .. m
    BY <1>2, <1>4
  <2> QED
    BY <1>5, <2>1, <2>2, <2>3 DEF TapeAt
<1>11. ASSUME NEW k \in Len(received) .. Len(sent)
       PROVE  Placed(off, k)'
  BY <1>1, <1>7, <1>9, <1>10 DEF Positions, Placed, Size, Bytes, Header, HeaderLength
<1>12. First(off)' /\ Chain(off)'
  BY <1>1, <1>3 DEF Positions, First, Chain, Size, HeaderLength
<1>13. Ends(off)'
  <2>1. off[Len(sent)] \in Int /\ Wire \in Nat
    BY <1>1, <1>4, InsideTape DEF Wire
  <2>2. Size(frame) \in Nat
    <3>1. Len(frame.payload) \in Nat
      BY BytesOfFrame DEF Types_OK
    <3> QED
      BY <3>1 DEF Size, HeaderLength
  <2>3. IF sender = "idle" THEN Len(got) + m <= off[Len(sent)]
                           ELSE Len(got) + m < off[Len(sent)] + Size(frame)
    BY <1>1, <1>2, <1>4, <1>8, <2>1, <2>2 DEF Positions, Ends
  <2> QED
    BY <1>3, <1>7, <2>3 DEF Ends, Size, HeaderLength
<1>14. Positions(off)'
  BY <1>3, <1>11, <1>12, <1>13 DEF Positions
<1>15. Wanted'
  BY <1>3, <1>9 DEF Wanted, HeaderLength
<1> QED
  BY <1>3, <1>14, <1>15 DEF Aligned

LEMMA ReceiveStep ==
    ASSUME Types_OK, Types_OK', Sending, Delivered, Wanted, Aligned, receiver # "failed",
           Receive
    PROVE  Wanted' /\ Aligned'
<1>1. PICK off \in [Len(received) .. Len(sent) -> Int] : Positions(off)
  BY DEF Aligned
<1>2. PICK m \in 1 .. Len(stream) :
          /\ m <= len - Len(got)
          /\ got' = got \o SubSeq(stream, 1, m)
          /\ stream' = SubSeq(stream, m + 1, Len(stream))
  BY DEF Receive
<1>3. UNCHANGED <<sent, frame, out, sender, connection, typeOut, len, receiver, received>>
  BY DEF Receive
<1>4. /\ TapeLen' = TapeLen /\ Wire' = Wire /\ Len(got') = Len(got) + m
      /\ \A i \in 1 .. TapeLen : TapeAt(i)' = TapeAt(i)
  BY <1>2, <1>3, ReceiveKeepsTape
<1>5. \A k : FrameAt(k)' = FrameAt(k)
  BY <1>3 DEF FrameAt
<1>6. First(off)' /\ Chain(off)' /\ Ends(off)'
  <2>1. Put' = Put
    BY <1>3 DEF Put, Size, HeaderLength
  <2> QED
    BY <1>1, <1>3, <1>4, <2>1 DEF Positions, First, Chain, Ends, Size, HeaderLength
<1>7. \A k \in Len(received) .. Len(sent) : Placed(off, k)'
  BY <1>1, <1>4, <1>5 DEF Positions, Placed, Size, Bytes, Header, HeaderLength
<1>8. Positions(off)'
  BY <1>3, <1>6, <1>7 DEF Positions
<1>9. Wanted'
  <2>1. Len(got) \in Nat /\ len \in Nat /\ Len(stream) \in Nat
    BY LenProperties DEF Types_OK
  <2>2. Len(got) + m <= len
    BY <1>2, <2>1
  <2>3. Len(got') <= len'
    BY <1>3, <1>4, <2>2
  <2> QED
    BY <1>3, <1>5, <2>3 DEF Wanted, HeaderLength
<1> QED
  BY <1>3, <1>8, <1>9 DEF Aligned

\* A complete header is that of the next frame, and one without payload has been
\* sent as a whole.
LEMMA HeaderRead ==
    ASSUME Types_OK, Sending, Delivered, receiver = "header", Len(got) = HeaderLength,
           NEW off \in [Len(received) .. Len(sent) -> Int], Positions(off)
    PROVE  /\ got[1] = FrameAt(Len(received) + 1).type
           /\ LengthOf(got) = Len(FrameAt(Len(received) + 1).payload)
           /\ Fits(FrameAt(Len(received) + 1))
           /\ LengthOf(got) = 0 => Len(received) # Len(sent)
<1> DEFINE f == FrameAt(Len(received) + 1)
<1>1. /\ Len(got) \in Nat /\ Len(stream) \in Nat /\ Len(sent) \in Nat
      /\ Len(received) \in Nat /\ TapeLen \in Nat /\ Wire \in Nat /\ Wire <= TapeLen
      /\ f \in AnyFrame
  BY Ordered
<1>2. /\ Len(Header(f)) = HeaderLength /\ Len(f.payload) \in Nat
      /\ \A i \in 1 .. HeaderLength : Bytes(f)[i] = Header(f)[i]
      /\ Header(f)[1] = f.type /\ LengthOf(Header(f)) = Len(f.payload)
  BY <1>1, BytesOfFrame
<1>3. Size(f) = 3 + Len(f.payload)
  BY DEF Size, HeaderLength
<1>4. off[Len(received)] = 0 /\ Placed(off, Len(received))
  BY InsideTape DEF Positions, First
<1>5. 3 <= Wire /\ 3 <= TapeLen
  BY <1>1 DEF Wire, HeaderLength
<1>6. ASSUME NEW i \in 1 .. 3
      PROVE  got[i] = Header(f)[i]
  <2>1. i \in 1 .. TapeLen /\ i - 0 \in 1 .. Size(f) /\ i - 0 = i
    BY <1>1, <1>2, <1>3, <1>5
  <2>2. TapeAt(i) = Bytes(f)[i]
    BY <1>4, <2>1 DEF Placed
  <2>3. TapeAt(i) = got[i]
    BY DEF TapeAt, HeaderLength
  <2> QED
    BY <1>2, <2>2, <2>3 DEF HeaderLength
<1>7. got[1] = f.type
  BY <1>2, <1>6
<1>8. LengthOf(got) = Len(f.payload)
  BY <1>2, <1>6 DEF LengthOf
<1>9. CASE Len(received) # Len(sent)
  <2>1. Len(received) + 1 \in 1 .. Len(sent)
    BY <1>1, <1>9 DEF Delivered
  <2>2. f = sent[Len(received) + 1]
    BY <2>1 DEF FrameAt
  <2> QED
    BY <1>7, <1>8, <1>9, <2>1, <2>2 DEF Sending
<1>10. CASE Len(received) = Len(sent)
  <2>1. f = frame
    BY <1>1, <1>10 DEF FrameAt
  <2>2. sender # "idle"
    BY <1>1, <1>4, <1>5, <1>10 DEF Positions, Ends
  <2>3. Wire < 0 + Size(f)
    BY <1>4, <1>10, <2>1, <2>2 DEF Positions, Ends
  <2>4. Len(f.payload) # 0
    BY <1>1, <1>2, <1>3, <1>5, <2>3
  <2> QED
    BY <1>7, <1>8, <2>1, <2>2, <2>4 DEF Sending
<1> QED
  BY <1>9, <1>10

\* A complete payload is that of the next frame, which has been sent as a whole.
LEMMA PayloadRead ==
    ASSUME Types_OK, Sending, Delivered, Wanted, receiver = "payload", Len(got) = len,
           NEW off \in [Len(received) .. Len(sent) -> Int], Positions(off)
    PROVE  /\ got = FrameAt(Len(received) + 1).payload
           /\ Len(received) # Len(sent)
<1> DEFINE f == FrameAt(Len(received) + 1)
<1>1. /\ Len(got) \in Nat /\ Len(stream) \in Nat /\ Len(sent) \in Nat
      /\ Len(received) \in Nat /\ TapeLen \in Nat /\ Wire \in Nat /\ Wire <= TapeLen
      /\ f \in AnyFrame
  BY Ordered
<1>2. /\ Len(f.payload) \in Nat /\ f.payload \in Seq(Nat)
      /\ \A i \in 1 .. Len(f.payload) : Bytes(f)[3 + i] = f.payload[i]
  BY <1>1, BytesOfFrame DEF AnyFrame, HeaderLength
<1>3. Size(f) = 3 + Len(f.payload)
  BY DEF Size, HeaderLength
<1>4. off[Len(received)] = -3 /\ Placed(off, Len(received))
  BY InsideTape DEF Positions, First, HeaderLength
<1>5. Len(got) = Len(f.payload)
  BY DEF Wanted
<1>6. Len(got) <= Wire /\ Len(got) <= TapeLen
  BY <1>1 DEF Wire
<1>7. ASSUME NEW i \in 1 .. Len(got)
      PROVE  got[i] = f.payload[i]
  <2>1. i \in 1 .. TapeLen /\ i - (-3) \in 1 .. Size(f) /\ i - (-3) = 3 + i
    BY <1>1, <1>2, <1>3, <1>5, <1>6
  <2>2. TapeAt(i) = Bytes(f)[3 + i]
    BY <1>4, <2>1 DEF Placed
  <2>3. TapeAt(i) = got[i]
    BY DEF TapeAt
  <2> QED
    BY <1>2, <1>5, <2>2, <2>3
<1>8. got = f.payload
  BY <1>2, <1>5, <1>7, SeqEqual DEF Types_OK
<1>9. ASSUME Len(received) = Len(sent)
      PROVE  FALSE
  <2>1. f = frame
    BY <1>1, <1>9 DEF FrameAt
  <2>2. CASE sender = "idle"
    <3>1. Wire <= -3
      BY <1>4, <1>9, <2>2 DEF Positions, Ends
    <3> QED
      BY <1>1, <3>1
  <2>3. CASE sender # "idle"
    <3>1. Wire < -3 + Size(f)
      BY <1>4, <1>9, <2>1, <2>3 DEF Positions, Ends
    <3> QED
      BY <1>1, <1>2, <1>3, <1>5, <1>6, <3>1
  <2> QED
    BY <2>2, <2>3
<1> QED
  BY <1>8, <1>9

\* When a frame has been taken off as a whole, the next one begins where it ended.
LEMMA DeliverStep ==
    ASSUME Types_OK, Types_OK', Sending, Delivered,
           NEW off \in [Len(received) .. Len(sent) -> Int], Positions(off),
           Len(received) # Len(sent),
           off[Len(received)] + Size(FrameAt(Len(received) + 1)) = Len(got),
           received' = Append(received, FrameAt(Len(received) + 1)),
           receiver' = "header", len' = HeaderLength, got' = << >>,
           UNCHANGED <<sent, frame, out, sender, stream, connection>>
    PROVE  Delivered' /\ Wanted' /\ Aligned'
<1> DEFINE r == Len(received)
           n == Len(sent)
           d == Len(got)
<1>1. r \in Nat /\ n \in Nat /\ d \in Nat /\ TapeLen \in Nat /\ TapeLen' \in Nat
  <2>1. r \in Nat /\ n \in Nat /\ d \in Nat /\ TapeLen \in Nat
    BY Ordered
  <2>2. Left \in Nat /\ Left' = Left
    BY DEF Left, Types_OK
  <2>3. TapeLen' \in Nat
    BY <2>2 DEF TapeLen, Types_OK
  <2> QED
    BY <2>1, <2>3
<1>2. r + 1 \in 1 .. n /\ r + 1 <= n /\ FrameAt(r + 1) = sent[r + 1]
  BY <1>1 DEF Delivered, FrameAt
<1>3. /\ Len(received') = r + 1 /\ received'[r + 1] = sent[r + 1]
      /\ \A k \in 1 .. r : received'[k] = received[k]
  BY <1>2, AppendProperties, ElementOfSeq DEF Types_OK
<1>4. Delivered'
  <2>1. ASSUME NEW k \in 1 .. r + 1
        PROVE  received'[k] = sent[k]
    <3>1. k \in 1 .. r \/ k = r + 1
      BY <1>1
    <3> QED
      BY <1>3, <3>1 DEF Delivered
  <2> QED
    BY <1>2, <1>3, <2>1 DEF Delivered
<1>5. /\ TapeLen' = TapeLen - d /\ Wire' = Wire - d
      /\ \A i \in 1 .. TapeLen' : TapeAt(i)' = TapeAt(i + d)
  BY TakeOff
<1>6. PICK off2 \in [r + 1 .. n -> Int] : \A k \in r + 1 .. n : off2[k] = off[k] - d
  <2> DEFINE o == [k \in r + 1 .. n |-> off[k] - d]
  <2>1. \A k \in r + 1 .. n : off[k] \in Int
    BY <1>1
  <2>2. o \in [r + 1 .. n -> Int] /\ \A k \in r + 1 .. n : o[k] = off[k] - d
    BY <1>1, <2>1
  <2> QED
    BY <2>2
<1>7. r + 1 \in r + 1 .. n /\ n \in r + 1 .. n
  BY <1>1, <1>2
<1>8. \A k : FrameAt(k)' = FrameAt(k)
  BY DEF FrameAt
<1>9. ASSUME NEW k \in r + 1 .. n
      PROVE  Placed(off2, k)'
  <2>1. k \in r .. n
    BY <1>1
  <2>2. off[k] \in Int /\ off2[k] = off[k] - d /\ Placed(off, k)
    BY <1>6, <2>1 DEF Positions
  <2>3. TapeLen' <= TapeLen - d
    BY <1>1, <1>5
  <2>4. FrameAt(k + 1)' = FrameAt(k + 1)
    BY <1>8
  <2> QED
    BY <1>1, <1>5, <2>2, <2>3, <2>4, PlacedShift
<1>10. First(off2)'
  <2>1. off[r] + Size(FrameAt(r + 1)) = off[r + 1]
    BY <1>1, <1>2, InsideTape
  <2>2. off2[r + 1] = 0
    BY <1>1, <1>6, <1>7, <2>1
  <2> QED
    BY <1>3, <2>2 DEF First
<1>11. Chain(off2)'
  <2> SUFFICES ASSUME NEW k \in (r + 1) + 1 .. n
               PROVE  off2[k] = off2[k - 1] + Size(sent[k]) /\ off2[k] <= off2[n]
    BY <1>3 DEF Chain, Size, HeaderLength
  <2>1. k \in r + 1 .. n /\ k - 1 \in r + 1 .. n /\ k \in r .. n /\ k - 1 \in r .. n
    BY <1>1
  <2>2. off[k] = off[k - 1] + Size(sent[k]) /\ off[k] <= off[n]
    BY <2>1 DEF Positions, Chain
  <2>3. k \in Nat \ {0} /\ k <= n
    BY <1>1
  <2>4. Size(sent[k]) \in Nat
    BY <2>3, Ordered DEF FrameAt
  <2>5. off[k] \in Int /\ off[k - 1] \in Int /\ off[n] \in Int
    BY <2>1, InsideTape
  <2>6. off2[k] = off[k] - d /\ off2[k - 1] = off[k - 1] - d /\ off2[n] = off[n] - d
    BY <1>6, <1>7, <2>1
  <2>7. off2[k] = off2[k - 1] + Size(sent[k])
    BY <1>1, <2>2, <2>4, <2>5, <2>6
  <2>8. off2[k] <= off2[n]
    BY <1>1, <2>2, <2>5, <2>6
  <2> QED
    BY <2>7, <2>8
<1>12. Ends(off2)'
  <2>1. Put' = Put /\ Put \in Int /\ Size(frame) \in Nat
    <3>1. Len(frame.payload) \in Nat
      BY BytesOfFrame DEF Types_OK
    <3> QED
      BY <3>1 DEF Put, Size, HeaderLength
  <2>2. off2[n] = off[n] - d /\ off[n] \in Int /\ Wire \in Nat
    BY <1>6, <1>7, InsideTape, Ordered
  <2>3. connection = "up" => TapeLen - d = off2[n] + Put
    <3>1. connection = "up" => TapeLen = off[n] + Put
      BY DEF Positions, Ends
    <3>2. TapeLen = off[n] + Put => TapeLen - d = off2[n] + Put
      BY <1>1, <2>1, <2>2
    <3> QED
      BY <3>1, <3>2
  <2>4. IF sender = "idle" THEN Wire - d <= off2[n] ELSE Wire - d < off2[n] + Size(frame)
    BY <1>1, <2>1, <2>2 DEF Positions, Ends
  <2> QED
    BY <1>5, <2>1, <2>3, <2>4 DEF Ends, Size, HeaderLength
<1>13. Positions(off2)'
  BY <1>3, <1>9, <1>10, <1>11, <1>12 DEF Positions
<1>14. Wanted'
  BY DEF Wanted, HeaderLength
<1> QED
  BY <1>3, <1>4, <1>6, <1>13, <1>14 DEF Aligned

LEMMA ParseHeaderStep ==
    ASSUME Types_OK, Types_OK', Sending, Delivered, Wanted, Aligned, InStep,
           receiver # "failed", ParseHeader
    PROVE  Delivered' /\ InStep' /\ (receiver' # "failed" => Wanted' /\ Aligned')
<1>1. PICK off \in [Len(received) .. Len(sent) -> Int] : Positions(off)
  BY DEF Aligned
<1>2. /\ receiver = "header" /\ Len(got) = HeaderLength
      /\ typeOut' = got[1] /\ got' = << >>
      /\ UNCHANGED <<sent, frame, out, sender, stream, connection>>
  BY DEF ParseHeader
<1> DEFINE f == FrameAt(Len(received) + 1)
<1>3. /\ got[1] = f.type /\ LengthOf(got) = Len(f.payload) /\ Fits(f)
      /\ LengthOf(got) = 0 => Len(received) # Len(sent)
  BY <1>1, <1>2, HeaderRead
<1>4. /\ f \in AnyFrame /\ Len(received) \in Nat /\ Len(got) \in Nat /\ TapeLen \in Nat
      /\ Wire \in Nat
  BY Ordered
<1>5. Len(f.payload) \in Nat /\ f.payload \in Seq(Nat) /\ f = [type |-> f.type, payload |-> f.payload]
  BY <1>4 DEF AnyFrame
<1>6. off[Len(received)] = 0
  BY <1>1, <1>2 DEF Positions, First
<1>7. ~ (LengthOf(got) > MaxPayload)
  BY <1>3, <1>5, ChatFramingAssumption DEF Fits
<1>8. CASE LengthOf(got) = 0
  <2>1. f.payload = << >>
    BY <1>3, <1>5, <1>8, EmptySeq
  <2>2. /\ received' = Append(received, f) /\ receiver' = "header" /\ len' = HeaderLength
    BY <1>2, <1>3, <1>5, <1>7, <1>8, <2>1 DEF ParseHeader, Deliver
  <2>3. Size(f) = 3 + 0
    BY <1>3, <1>8 DEF Size, HeaderLength
  <2>4. off[Len(received)] + Size(f) = Len(got)
    BY <1>2, <1>6, <2>3 DEF HeaderLength
  <2> QED
    BY <1>1, <1>2, <1>3, <1>8, <2>2, <2>4, DeliverStep DEF InStep
<1>9. CASE LengthOf(got) # 0
  <2>1. receiver' = "payload" /\ len' = LengthOf(got) /\ UNCHANGED received
    BY <1>7, <1>9 DEF ParseHeader
  <2>2. /\ TapeLen' = TapeLen - 3 /\ Wire' = Wire - 3
        /\ \A i \in 1 .. TapeLen' : TapeAt(i)' = TapeAt(i + 3)
    BY <1>2, TakeOff DEF HeaderLength
  <2>3. TapeLen' \in Nat
    <3>1. Left \in Nat /\ Left' = Left
      BY <1>2 DEF Left, Types_OK
    <3> QED
      BY <1>2, <3>1 DEF TapeLen, Types_OK
  <2> DEFINE r == Len(received)
             n == Len(sent)
  <2>4. PICK off2 \in [r .. n -> Int] : \A k \in r .. n : off2[k] = off[k] - 3
    <3> DEFINE o == [k \in r .. n |-> off[k] - 3]
    <3>1. o \in [r .. n -> Int] /\ \A k \in r .. n : o[k] = off[k] - 3
      BY <1>1
    <3> QED
      BY <3>1
  <2>5. \A k : FrameAt(k)' = FrameAt(k)
    BY <1>2 DEF FrameAt
  <2>6. r \in r .. n /\ n \in r .. n /\ \A k \in r .. n : off[k] \in Int
    BY <1>1, InsideTape
  <2>7. ASSUME NEW k \in r .. n
        PROVE  Placed(off2, k)'
    <3>1. off[k] \in Int /\ off2[k] = off[k] - 3 /\ Placed(off, k)
      BY <1>1, <2>4, <2>6 DEF Positions
    <3>2. TapeLen' <= TapeLen - 3
      BY <1>4, <2>2
    <3>3. FrameAt(k + 1)' = FrameAt(k + 1) /\ 3 \in Nat
      BY <2>5
    <3> QED
      BY <1>4, <2>2, <2>3, <3>1, <3>2, <3>3, PlacedShift
  <2>8. First(off2)'
    <3>1. off2[r] = -3
      BY <1>6, <2>4, <2>6
    <3> QED
      BY <2>1, <3>1 DEF First, HeaderLength
  <2>9. Chain(off2)'
    <3> SUFFICES ASSUME NEW k \in r + 1 .. n
                 PROVE  off2[k] = off2[k - 1] + Size(sent[k]) /\ off2[k] <= off2[n]
      BY <1>2, <2>1 DEF Chain, Size, HeaderLength
    <3>1. k \in r .. n /\ k - 1 \in r .. n /\ k \in Nat \ {0} /\ k <= n
      BY <1>4
    <3>2. off[k] = off[k - 1] + Size(sent[k]) /\ off[k] <= off[n]
      BY <1>1 DEF Positions, Chain
    <3>3. Size(sent[k]) \in Nat
      BY <3>1, Ordered DEF FrameAt
    <3>4. off[k] \in Int /\ off[k - 1] \in Int /\ off[n] \in Int
      BY <2>6, <3>1
    <3>5. off2[k] = off[k] - 3 /\ off2[k - 1] = off[k - 1] - 3 /\ off2[n] = off[n] - 3
      BY <2>4, <2>6, <3>1
    <3>6. off2[k] = off2[k - 1] + Size(sent[k])
      BY <3>2, <3>3, <3>4, <3>5
    <3>7. off2[k] <= off2[n]
      BY <3>2, <3>4, <3>5
    <3> QED
      BY <3>6, <3>7
  <2>10. Ends(off2)'
    <3>1. Put' = Put /\ Put \in Int /\ Size(frame) \in Nat
      <4>1. Len(frame.payload) \in Nat
        BY BytesOfFrame DEF Types_OK
      <4> QED
        BY <1>2, <4>1 DEF Put, Size, HeaderLength
    <3>2. off2[n] = off[n] - 3 /\ off[n] \in Int
      BY <2>4, <2>6
    <3>3. connection = "up" => TapeLen - 3 = off2[n] + Put
      <4>1. connection = "up" => TapeLen = off[n] + Put
        BY <1>1 DEF Positions, Ends
      <4> QED
        BY <1>4, <3>1, <3>2, <4>1
    <3>4. IF sender = "idle" THEN Wire - 3 <= off2[n] ELSE Wire - 3 < off2[n] + Size(frame)
      BY <1>1, <1>4, <3>1, <3>2 DEF Positions, Ends
    <3> QED
      BY <1>2, <2>2, <3>1, <3>3, <3>4 DEF Ends, Size, HeaderLength
  <2>11. Positions(off2)'
    BY <1>2, <2>1, <2>7, <2>8, <2>9, <2>10 DEF Positions
  <2>12. Wanted'
    <3>1. Len(got') = 0 /\ len' \in Nat
      BY <1>2, <1>3, <1>5, <2>1
    <3>2. len' > 0 /\ Len(got') <= len'
      BY <1>3, <1>5, <1>9, <2>1, <3>1
    <3> QED
      BY <1>2, <1>3, <2>1, <2>5, <3>2 DEF Wanted
  <2>13. Delivered'
    BY <1>2, <2>1 DEF Delivered
  <2> QED
    BY <1>2, <2>1, <2>11, <2>12, <2>13 DEF Aligned, InStep
<1> QED
  BY <1>8, <1>9

LEMMA ParsePayloadStep ==
    ASSUME Types_OK, Types_OK', Sending, Delivered, Wanted, Aligned, InStep,
           receiver # "failed", ParsePayload
    PROVE  Delivered' /\ InStep' /\ (receiver' # "failed" => Wanted' /\ Aligned')
<1>1. PICK off \in [Len(received) .. Len(sent) -> Int] : Positions(off)
  BY DEF Aligned
<1>2. /\ receiver = "payload" /\ Len(got) = len /\ got' = << >>
      /\ received' = Append(received, [type |-> typeOut, payload |-> got])
      /\ receiver' = "header" /\ len' = HeaderLength
      /\ UNCHANGED <<sent, frame, out, sender, stream, connection>>
  BY DEF ParsePayload, Deliver
<1> DEFINE f == FrameAt(Len(received) + 1)
<1>3. got = f.payload /\ Len(received) # Len(sent)
  BY <1>1, <1>2, PayloadRead
<1>4. f \in AnyFrame
  BY Ordered
<1>5. f = [type |-> typeOut, payload |-> got]
  BY <1>2, <1>3, <1>4 DEF AnyFrame, Wanted
<1>6. off[Len(received)] + Size(f) = Len(got)
  <2>1. off[Len(received)] = -3 /\ Size(f) = 3 + Len(got) /\ Len(got) \in Nat
    BY <1>1, <1>2, <1>3 DEF Positions, First, Size, HeaderLength, Types_OK
  <2> QED
    BY <2>1
<1> QED
  BY <1>1, <1>2, <1>3, <1>5, <1>6, DeliverStep DEF InStep

-----------------------------------------------------------------------------
(***************************************************************************)
(* The invariant.                                                          *)
(***************************************************************************)
LEMMA InitInv ==
    ASSUME Init
    PROVE  FramingInv
<1> USE DEF Init
<1>1. Types_OK
  BY ChatFramingAssumption DEF Types_OK, AnyFrame, HeaderLength
<1>2. Sending /\ Delivered /\ InStep
  BY DEF Sending, Delivered, InStep
<1>3. Wanted
  BY DEF Wanted, HeaderLength
<1>4. Aligned
  <2> DEFINE off == [k \in 0 .. 0 |-> 0]
  <2>1. off \in [Len(received) .. Len(sent) -> Int] /\ off[0] = 0
    OBVIOUS
  <2>2. TapeLen = 0 /\ Wire = 0 /\ Put = 0
    BY DEF TapeLen, Wire, Left, Put
  <2>3. First(off) /\ Chain(off) /\ Ends(off)
    BY <2>1, <2>2 DEF First, Chain, Ends
  <2>4. \A k : Placed(off, k)
    BY <2>2 DEF Placed
  <2> QED
    BY <2>1, <2>3, <2>4 DEF Aligned, Positions
<1> QED
  BY <1>1, <1>2, <1>3, <1>4 DEF FramingInv

LEMMA NextInv ==
    ASSUME FramingInv, [Next]_vars
    PROVE  FramingInv'
<1>1. Types_OK /\ Sending /\ Delivered /\ InStep /\ (receiver # "failed" => Wanted /\ Aligned)
  BY DEF FramingInv
<1>2. Types_OK' /\ Sending'
  BY <1>1, TypesStep, SendingStep
<1> SUFFICES Delivered' /\ InStep' /\ (receiver' # "failed" => Wanted' /\ Aligned')
  BY <1>2 DEF FramingInv
\* A step that leaves the receiver's results alone.
<1>3. ASSUME UNCHANGED <<received, receiver>>, UNCHANGED sent \/ sent' = Append(sent, frame),
             connection = "reset" => connection' = "reset",
             receiver # "failed" => Wanted' /\ Aligned'
      PROVE  Delivered' /\ InStep' /\ (receiver' # "failed" => Wanted' /\ Aligned')
  <2>1. /\ Len(sent') >= Len(sent)
        /\ \A k \in 1 .. Len(sent) : sent'[k] = sent[k]
    BY <1>1, <1>3, AppendProperties DEF Types_OK
  <2>2. Len(received) \in Nat /\ Len(sent) \in Nat /\ Len(sent') \in Nat
    BY <1>1, <1>2, LenProperties DEF Types_OK
  <2>3. Delivered'
    BY <1>1, <1>3, <2>1, <2>2 DEF Delivered
  <2> QED
    BY <1>1, <1>3, <2>3 DEF InStep
<1>4. ASSUME NEW f \in Frames, SendFrame(f)
      PROVE  Delivered' /\ InStep' /\ (receiver' # "failed" => Wanted' /\ Aligned')
  BY <1>1, <1>2, <1>3, <1>4, SendFrameStep DEF SendFrame
<1>5. CASE Send
  <2>1. UNCHANGED sent \/ sent' = Append(sent, frame)
    BY <1>5 DEF Send, AfterSend
  <2> QED
    BY <1>1, <1>2, <1>3, <1>5, <2>1, SendStep DEF Send
<1>6. CASE StartPayload
  BY <1>1, <1>2, <1>3, <1>6, StartPayloadStep DEF StartPayload
<1>7. CASE SendError
  BY <1>1, <1>2, <1>3, <1>7, SendErrorStep DEF SendError
<1>8. CASE Receive
  BY <1>1, <1>2, <1>3, <1>8, ReceiveStep DEF Receive
<1>9. CASE ReceiveError
  BY <1>1, <1>9 DEF ReceiveError, Delivered, InStep
<1>10. CASE ParseHeader
  BY <1>1, <1>2, <1>10, ParseHeaderStep DEF ParseHeader
<1>11. CASE ParsePayload
  BY <1>1, <1>2, <1>11, ParsePayloadStep DEF ParsePayload
<1>12. CASE Reset
  BY <1>1, <1>2, <1>3, <1>12, ResetStep DEF Reset
<1>13. CASE UNCHANGED vars
  <2>1. UNCHANGED <<sent, frame, out, sender, stream, connection, got, typeOut, len,
                    receiver, received>>
    BY <1>13 DEF vars
  <2> QED
    BY <1>1, <1>3, <2>1, SameTape
<1> QED
  BY <1>4, <1>5, <1>6, <1>7, <1>8, <1>9, <1>10, <1>11, <1>12, <1>13
  DEF Next, SenderStep, ReceiverStep

\* The invariant holds in every behaviour: what has been received lies in front of
\* what is on the way, cut into the frames that were sent.
THEOREM AlwaysFraming == Spec => []FramingInv
<1>1. Init => FramingInv
  BY InitInv
<1>2. FramingInv /\ [Next]_vars => FramingInv'
  BY NextInv
<1> QED
  BY <1>1, <1>2, PTL DEF Spec

\* recvFrame returns the frames sendFrame has returned true for, whole and in order,
\* wherever send and recv cut the stream and whenever the connection is reset.
THEOREM FramesStayInOrder == Spec => []FramesInOrder
<1>1. FramingInv => FramesInOrder
  <2> SUFFICES ASSUME FramingInv
               PROVE  FramesInOrder
    OBVIOUS
  <2>1. Len(received) \in Nat /\ Len(sent) \in Nat /\ Delivered
    BY LenProperties DEF FramingInv, Types_OK
  <2> QED
    BY <2>1 DEF FramesInOrder, IsPrefix, Delivered
<1> QED
  BY <1>1, AlwaysFraming, PTL

\* recvFrame returns false for a broken connection only: what it takes for a header
\* is a header, so the length in it is never too large.
THEOREM ReceiverStaysInStep == Spec => []InStep
<1>1. FramingInv => InStep
  BY DEF FramingInv
<1> QED
  BY <1>1, AlwaysFraming, PTL

-----------------------------------------------------------------------------
(***************************************************************************)
(* The functions implement FrameChannel: a call of send that completes a   *)
(* frame puts it into the channel, and the step of recvFrame that returns  *)
(* one takes it out.  All other steps but those of a reset and its         *)
(* consequences are not seen.                                              *)
(***************************************************************************)

\* The frame being sent is one the caller passed.
FrameSent == sender # "idle" => frame \in Frames

LEMMA AlwaysFrameSent == Spec => []FrameSent
<1>1. Init => FrameSent
  BY DEF Init, FrameSent
<1>2. FrameSent /\ [Next]_vars => FrameSent'
  BY DEF FrameSent, Next, vars, SenderStep, ReceiverStep, SendFrame, Send, AfterSend,
         StartPayload, SendError, Receive, ReceiveError, ParseHeader, ParsePayload, Reset
<1> QED
  BY <1>1, <1>2, PTL DEF Spec

\* The frame that recvFrame returns is the next of those that were sent.
LEMMA NextOfSent ==
    ASSUME Types_OK, Delivered, Len(received) # Len(sent)
    PROVE  /\ Len(received) < Len(sent)
           /\ FrameAt(Len(received) + 1) = sent[Len(received) + 1]
<1>1. Len(received) \in Nat /\ Len(sent) \in Nat
  BY LenProperties DEF Types_OK
<1>2. Len(received) < Len(sent) /\ Len(received) + 1 <= Len(sent)
  BY <1>1 DEF Delivered
<1> QED
  BY <1>2 DEF FrameAt

LEMMA HeaderTakes ==
    ASSUME FramingInv, ParseHeader
    PROVE  \/ receiver' = "payload" /\ UNCHANGED received
           \/ /\ Len(received) < Len(sent) /\ receiver' = "header"
              /\ received' = Append(received, sent[Len(received) + 1])
<1>1. Types_OK /\ Sending /\ Delivered /\ Wanted /\ Aligned
  BY DEF FramingInv, ParseHeader
<1>2. PICK off \in [Len(received) .. Len(sent) -> Int] : Positions(off)
  BY <1>1 DEF Aligned
<1> DEFINE f == FrameAt(Len(received) + 1)
<1>3. /\ got[1] = f.type /\ LengthOf(got) = Len(f.payload) /\ Fits(f)
      /\ LengthOf(got) = 0 => Len(received) # Len(sent)
  BY <1>1, <1>2, HeaderRead DEF ParseHeader
<1>4. Len(received) \in Nat /\ f \in AnyFrame
  BY <1>1, Ordered
<1>5. Len(f.payload) \in Nat /\ f = [type |-> f.type, payload |-> f.payload]
      /\ f.payload \in Seq(Nat)
  BY <1>4 DEF AnyFrame
<1>6. ~ (LengthOf(got) > MaxPayload)
  BY <1>3, <1>5, ChatFramingAssumption DEF Fits
<1>7. CASE LengthOf(got) = 0
  <2>1. f.payload = << >>
    BY <1>3, <1>5, <1>7, EmptySeq
  <2>2. received' = Append(received, f) /\ receiver' = "header"
    BY <1>3, <1>5, <1>6, <1>7, <2>1 DEF ParseHeader, Deliver
  <2> QED
    BY <1>1, <1>3, <1>7, <2>2, NextOfSent
<1>8. CASE LengthOf(got) # 0
  BY <1>6, <1>8 DEF ParseHeader
<1> QED
  BY <1>7, <1>8

LEMMA PayloadTakes ==
    ASSUME FramingInv, ParsePayload
    PROVE  /\ Len(received) < Len(sent)
           /\ received' = Append(received, sent[Len(received) + 1])
<1>1. Types_OK /\ Sending /\ Delivered /\ Wanted /\ Aligned
  BY DEF FramingInv, ParsePayload
<1>2. PICK off \in [Len(received) .. Len(sent) -> Int] : Positions(off)
  BY <1>1 DEF Aligned
<1> DEFINE f == FrameAt(Len(received) + 1)
<1>3. got = f.payload /\ Len(received) # Len(sent)
  BY <1>1, <1>2, PayloadRead DEF ParsePayload
<1>4. f \in AnyFrame
  BY <1>1, Ordered
<1>5. typeOut = f.type
  BY <1>1 DEF Wanted, ParsePayload
<1>6. f = [type |-> typeOut, payload |-> got]
  BY <1>3, <1>4, <1>5 DEF AnyFrame
<1> QED
  BY <1>1, <1>3, <1>6, NextOfSent DEF ParsePayload, Deliver

LEMMA ChannelStep ==
    ASSUME FramingInv, FrameSent, [Next]_vars
    PROVE  [Channel!Next]_(Channel!vars)
<1> USE DEF Channel!vars, Failed
\* A step of which neither caller sees anything.
<1>1. ASSUME UNCHANGED <<sent, received, connection>>,
             sender' = "failed" <=> sender = "failed",
             receiver' = "failed" <=> receiver = "failed"
      PROVE  UNCHANGED Channel!vars
  BY <1>1
<1>2. ASSUME NEW f \in Frames, SendFrame(f)
      PROVE  UNCHANGED Channel!vars
  BY <1>1, <1>2 DEF SendFrame
<1>3. CASE Send
  <2>1. /\ connection = "up" /\ UNCHANGED <<received, connection, receiver>>
        /\ sender # "failed" /\ sender' # "failed"
        /\ UNCHANGED sent \/ sent' = Append(sent, frame)
    BY <1>3 DEF Send, AfterSend
  <2>2. CASE UNCHANGED sent
    BY <1>1, <2>1, <2>2
  <2>3. CASE sent' = Append(sent, frame)
    <3>1. frame \in {f \in Frames : Fits(f)}
      BY <1>3 DEF Send, FrameSent, FramingInv, Sending
    <3>2. Channel!Put(frame)
      BY <2>1, <2>3 DEF Channel!Put
    <3> QED
      BY <3>1, <3>2 DEF Channel!Next
  <2> QED
    BY <2>1, <2>2, <2>3
<1>4. CASE StartPayload
  BY <1>1, <1>4 DEF StartPayload
<1>5. CASE SendError
  <2>1. Failed' = Failed \cup {"sender"}
    BY <1>5 DEF SendError
  <2>2. Channel!Fail("sender")
    BY <1>5, <2>1 DEF SendError, Channel!Fail
  <2> QED
    BY <2>2 DEF Channel!Next, Channel!Ends
<1>6. CASE Receive
  BY <1>1, <1>6 DEF Receive
<1>7. CASE ReceiveError
  <2>1. Failed' = Failed \cup {"receiver"}
    BY <1>7 DEF ReceiveError
  <2>2. Channel!Fail("receiver")
    BY <1>7, <2>1 DEF ReceiveError, Channel!Fail
  <2> QED
    BY <2>2 DEF Channel!Next, Channel!Ends
<1>8. ASSUME receiver # "failed", receiver' # "failed",
             Len(received) < Len(sent),
             received' = Append(received, sent[Len(received) + 1]),
             UNCHANGED <<sent, sender, connection>>
      PROVE  Channel!Next
  <2>1. Channel!Take
    BY <1>8 DEF Channel!Take
  <2> QED
    BY <2>1 DEF Channel!Next
<1>9. CASE ParseHeader
  BY <1>1, <1>8, <1>9, HeaderTakes DEF ParseHeader
<1>10. CASE ParsePayload
  BY <1>8, <1>10, PayloadTakes DEF ParsePayload, Deliver
<1>11. CASE Reset
  <2>1. Channel!Break
    BY <1>11 DEF Reset, Channel!Break
  <2> QED
    BY <2>1 DEF Channel!Next
<1>12. CASE UNCHANGED vars
  BY <1>1, <1>12 DEF vars
<1> QED
  BY <1>2, <1>3, <1>4, <1>5, <1>6, <1>7, <1>9, <1>10, <1>11, <1>12
  DEF Next, SenderStep, ReceiverStep

\* sendFrame and recvFrame are a channel of frames for their callers (FrameChannel):
\* a frame is taken out whole, after it was put in whole, and each once; nothing is
\* put in after a reset, and no end fails before one.
THEOREM ImplementsFrameChannel == Spec => CarriesFrames
<1>1. Init => Channel!Init
  BY DEF Init, Channel!Init, Failed
<1>2. FramingInv /\ FrameSent /\ [Next]_vars => [Channel!Next]_(Channel!vars)
  BY ChannelStep
<1> QED
  BY <1>1, <1>2, AlwaysFraming, AlwaysFrameSent, PTL DEF Spec, CarriesFrames, Channel!Spec

-----------------------------------------------------------------------------
(***************************************************************************)
(* Nothing is left behind.                                                 *)
(***************************************************************************)

\* Neither end can go on: no call of sendFrame is in progress, and recvAll waits
\* for bytes.
AtRest == sender = "idle" /\ stream = << >> /\ Len(got) < len

\* Then every frame has arrived, and the receiver waits for the next header.
RestsWhenDone ==
    connection = "up" /\ AtRest => received = sent /\ got = << >> /\ receiver = "header"

LEMMA RestMeansDone ==
    ASSUME FramingInv, connection = "up", AtRest
    PROVE  received = sent /\ got = << >> /\ receiver = "header"
<1>1. /\ Types_OK /\ Sending /\ Delivered /\ Wanted /\ Aligned
      /\ receiver \in {"header", "payload"}
  BY DEF FramingInv, InStep, Types_OK
<1>2. PICK off \in [Len(received) .. Len(sent) -> Int] : Positions(off)
  BY <1>1 DEF Aligned
<1>3. /\ Len(received) \in Nat /\ Len(sent) \in Nat /\ Len(got) \in Nat
      /\ Len(received) <= Len(sent)
  BY <1>1, LenProperties DEF Types_OK, Delivered
<1>4. off[Len(sent)] = Len(got)
  <2>1. Len(out) = 0 /\ Len(stream) = 0
    BY <1>1, EmptySeq DEF AtRest, Sending
  <2>2. TapeLen = Len(got) /\ Put = 0
    BY <1>3, <2>1 DEF TapeLen, Left, Put, AtRest
  <2>3. off[Len(sent)] \in Int
    BY <1>2, <1>3
  <2> QED
    BY <1>2, <2>2, <2>3 DEF Positions, Ends
<1>5. off[Len(received)] = IF receiver = "payload" THEN -HeaderLength ELSE 0
  BY <1>2 DEF Positions, First
<1>6. Len(received) = Len(sent)
  <2> SUFFICES ASSUME Len(received) # Len(sent) PROVE FALSE
    OBVIOUS
  <2> DEFINE k == Len(received) + 1
  <2>1. k \in Len(received) + 1 .. Len(sent) /\ k - 1 = Len(received) /\ k \in 1 .. Len(sent)
    BY <1>3
  <2>2. /\ off[k] = off[Len(received)] + Size(sent[k])
        /\ off[k] <= Len(got)
    BY <1>2, <1>4, <2>1 DEF Positions, Chain
  <2>3. sent[k] \in AnyFrame /\ FrameAt(k) = sent[k]
    BY <1>1, <2>1, ElementOfSeq DEF Types_OK, FrameAt
  <2>4. Len(sent[k].payload) \in Nat
    BY <2>3, LenProperties DEF AnyFrame
  <2>5. Len(got) < len /\ len \in Nat
    BY <1>1 DEF AtRest, Types_OK
  <2>6. CASE receiver = "header"
    <3>1. len = HeaderLength /\ off[Len(received)] = 0
      BY <1>1, <1>5, <2>6 DEF Wanted
    <3> QED
      BY <1>3, <2>2, <2>4, <2>5, <3>1 DEF Size, HeaderLength
  <2>7. CASE receiver = "payload"
    <3>1. len = Len(sent[k].payload) /\ off[Len(received)] = -HeaderLength
      BY <1>1, <1>5, <2>3, <2>7 DEF Wanted
    <3> QED
      BY <1>3, <2>2, <2>4, <2>5, <3>1 DEF Size, HeaderLength
  <2> QED
    BY <1>1, <2>6, <2>7
<1>7. received = sent
  <2>1. received \in Seq(AnyFrame) /\ sent \in Seq(AnyFrame)
    BY <1>1 DEF Types_OK
  <2>2. \A i \in 1 .. Len(received) : received[i] = sent[i]
    BY <1>1 DEF Delivered
  <2> QED
    BY <1>6, <2>1, <2>2, SeqEqual
<1>8. receiver = "header" /\ Len(got) = 0
  BY <1>1, <1>3, <1>4, <1>5, <1>6 DEF HeaderLength
<1> QED
  BY <1>1, <1>7, <1>8, EmptySeq DEF Types_OK

\* As long as the connection is up, the two ends come to rest only when every frame
\* has been handed to the caller; no byte is left over or waited for in vain
\* (protocol.h:44-67, 76-113).  What is left of AllArrive is that they are scheduled.
THEOREM NothingLeftBehind == Spec => []RestsWhenDone
<1>1. FramingInv => RestsWhenDone
  BY RestMeansDone DEF RestsWhenDone
<1> QED
  BY <1>1, AlwaysFraming, PTL

=============================================================================
