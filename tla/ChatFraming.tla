---------------------------- MODULE ChatFraming ----------------------------
(***************************************************************************)
(* The frames of the chat protocol on a TCP connection: sendFrame at one   *)
(* end, recvFrame at the other, and between them the stream of bytes that  *)
(* send and recv cut where they like.                                      *)
(*                                                                         *)
(* A header is the type and the length, most significant byte first; here  *)
(* the length has two bytes, which count to LenBase - 1.  A reset of the   *)
(* connection loses the bytes that are on the way from some point on.      *)
(***************************************************************************)
EXTENDS Naturals, SequencesExt

CONSTANTS
    LenBase,        \* the values of one byte of the length: 256
    MaxPayload,     \* MAX_PAYLOAD
    Payloads,       \* what the callers send, some of it too long
    Types,          \* the members of MsgType
    MaxFrames       \* bound: calls of sendFrame

Digit == 0 .. LenBase - 1

ASSUME ChatFramingAssumption ==
    /\ LenBase \in Nat \ {0} /\ MaxPayload \in Nat /\ MaxFrames \in Nat
    /\ MaxPayload < LenBase * LenBase
    /\ \A p \in Payloads : p \in Seq(Digit)
    /\ Types \subseteq Digit

VARIABLES
    calls,          \* the number of calls of sendFrame
    sent,           \* the frames sendFrame has returned true for
    frame,          \* the frame being sent
    out,            \* the bytes of it that sendAll has not sent yet
    sender,         \* "idle", "header", "payload", or "failed" for good
    stream,         \* the bytes on the way
    connection,     \* "up" or "reset"
    got,            \* what recvAll has received so far
    typeOut,        \* the type of the frame being received
    len,            \* the length recvAll was called with
    receiver,       \* "header", "payload", or "failed" for good
    received        \* the frames recvFrame has returned true for

vars == <<calls, sent, frame, out, sender, stream, connection, got, typeOut, len,
          receiver, received>>

HeaderLength == 3

Frames == [type : Types, payload : Payloads]

Init ==
    /\ calls = 0 /\ sent = << >> /\ out = << >>
    /\ frame = [type |-> 0, payload |-> << >>]
    /\ sender = "idle"
    /\ stream = << >> /\ connection = "up"
    /\ got = << >> /\ typeOut = 0 /\ len = HeaderLength
    /\ receiver = "header"
    /\ received = << >>

\* Mutant of Header: the bytes of the length are not put in network order.
HeaderLittleEndian(f) ==
    <<f.type, Len(f.payload) % LenBase, Len(f.payload) \div LenBase>>

\* htonl, memcpy
Header(f) == <<f.type, Len(f.payload) \div LenBase, Len(f.payload) % LenBase>>

\* ntohl
LengthOf(header) == header[2] * LenBase + header[3]

-----------------------------------------------------------------------------
(***************************************************************************)
(* sendFrame and sendAll.                                                  *)
(***************************************************************************)

Fits(f) == Len(f.payload) <= MaxPayload

\* A payload that is too long is refused before anything is sent.
SendFrame(f) ==
    /\ sender = "idle" /\ calls < MaxFrames
    /\ calls' = calls + 1
    /\ IF Fits(f)
       THEN frame' = f /\ out' = Header(f) /\ sender' = "header"
       ELSE UNCHANGED <<frame, out, sender>>
    /\ UNCHANGED <<sent, stream, connection, got, typeOut, len, receiver, received>>

\* sendAll has sent everything: on to the payload, or the frame is sent.
AfterSend ==
    IF out' # << >> THEN UNCHANGED <<sent, sender>>
    ELSE IF sender = "header" /\ frame.payload # << >>
    THEN sender' = "payload" /\ UNCHANGED sent
    ELSE sender' = "idle" /\ sent' = Append(sent, frame)

\* Mutant of Send: what send did not take is not sent again.
SendOnce ==
    /\ sender \in {"header", "payload"} /\ connection = "up" /\ out # << >>
    /\ \E n \in 1 .. Len(out) : stream' = stream \o SubSeq(out, 1, n)
    /\ out' = << >>
    /\ AfterSend
    /\ UNCHANGED <<calls, frame, connection, got, typeOut, len, receiver, received>>

\* send takes some of the bytes.
Send ==
    /\ sender \in {"header", "payload"} /\ connection = "up" /\ out # << >>
    /\ \E n \in 1 .. Len(out) :
           /\ stream' = stream \o SubSeq(out, 1, n)
           /\ out' = SubSeq(out, n + 1, Len(out))
    /\ AfterSend
    /\ UNCHANGED <<calls, frame, connection, got, typeOut, len, receiver, received>>

\* The second call of sendAll.
StartPayload ==
    /\ sender = "payload" /\ out = << >>
    /\ out' = frame.payload
    /\ UNCHANGED <<calls, sent, frame, sender, stream, connection, got, typeOut, len,
                   receiver, received>>

SendError ==
    /\ sender \in {"header", "payload"} /\ connection = "reset"
    /\ sender' = "failed"
    /\ UNCHANGED <<calls, sent, frame, out, stream, connection, got, typeOut, len,
                   receiver, received>>

-----------------------------------------------------------------------------
(***************************************************************************)
(* recvFrame and recvAll.                                                  *)
(***************************************************************************)

\* recv returns some of the bytes, not more than recvAll still needs.
Receive ==
    /\ receiver # "failed" /\ stream # << >> /\ Len(got) < len
    /\ \E n \in 1 .. Len(stream) :
           /\ n <= len - Len(got)
           /\ got' = got \o SubSeq(stream, 1, n)
           /\ stream' = SubSeq(stream, n + 1, Len(stream))
    /\ UNCHANGED <<calls, sent, frame, out, sender, connection, typeOut, len, receiver,
                   received>>

ReceiveError ==
    /\ receiver # "failed" /\ stream = << >> /\ connection = "reset"
    /\ Len(got) < len
    /\ receiver' = "failed"
    /\ UNCHANGED <<calls, sent, frame, out, sender, stream, connection, got, typeOut,
                   len, received>>

\* The caller has its frame and calls recvFrame again.
Deliver(t, payload) ==
    /\ received' = Append(received, [type |-> t, payload |-> payload])
    /\ receiver' = "header" /\ len' = HeaderLength

\* The header is complete: the payload is next, if there is one.
ParseHeader ==
    /\ receiver = "header" /\ Len(got) = HeaderLength
    /\ typeOut' = got[1]
    /\ IF LengthOf(got) > MaxPayload
       THEN receiver' = "failed" /\ UNCHANGED <<len, received>>
       ELSE IF LengthOf(got) = 0 THEN Deliver(got[1], << >>)
       ELSE receiver' = "payload" /\ len' = LengthOf(got) /\ UNCHANGED received
    /\ got' = << >>
    /\ UNCHANGED <<calls, sent, frame, out, sender, stream, connection>>

ParsePayload ==
    /\ receiver = "payload" /\ Len(got) = len
    /\ Deliver(typeOut, got)
    /\ got' = << >>
    /\ UNCHANGED <<calls, sent, frame, out, sender, stream, connection, typeOut>>

-----------------------------------------------------------------------------
Reset ==
    /\ connection = "up"
    /\ connection' = "reset"
    /\ \E n \in 0 .. Len(stream) : stream' = SubSeq(stream, 1, n)
    /\ UNCHANGED <<calls, sent, frame, out, sender, got, typeOut, len, receiver,
                   received>>

SenderStep == Send \/ StartPayload \/ SendError

ReceiverStep == Receive \/ ReceiveError \/ ParseHeader \/ ParsePayload

Next ==
    \/ \E f \in Frames : SendFrame(f)
    \/ SenderStep \/ ReceiverStep
    \/ Reset

Spec == Init /\ [][Next]_vars

\* Both ends go on as long as the connection lets them.
FairSpec == Spec /\ WF_vars(SenderStep) /\ WF_vars(ReceiverStep)

-----------------------------------------------------------------------------
\* The ends that have returned false for good.
Failed ==
    {e \in {"sender", "receiver"} :
        IF e = "sender" THEN sender = "failed" ELSE receiver = "failed"}

\* The two functions are a channel of frames: the frames come out as they went in,
\* whole, in order and one at a time, wherever the stream is cut and whenever it
\* breaks; a frame that was refused leaves no trace, and no end fails but for a
\* reset (sendFrame, recvFrame).
Channel == INSTANCE FrameChannel WITH
               Frames <- {f \in Frames : Fits(f)},
               broken <- connection = "reset", failed <- Failed

CarriesFrames == Channel!Spec

\* What has come out is always the beginning of what went in.
FramesInOrder == IsPrefix(received, sent)

\* recvFrame fails only when the connection does: it never takes a piece of a
\* payload for a header.
InStep == receiver = "failed" => connection = "reset"

\* Every frame that was sent arrives, unless the connection breaks.
AllArrive == <>[](received = sent \/ connection = "reset")

=============================================================================
