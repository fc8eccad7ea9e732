------------------------------ MODULE Checksum ------------------------------
(***************************************************************************)
(* The wire format and its checksum: serialize_packet, parse_packet and    *)
(* compute_checksum of rtp.cpp.                                            *)
(*                                                                         *)
(* One packet is serialized, damaged or not on its way, and parsed.  All   *)
(* words of the header but the checksum and the length are one word here,  *)
(* "fields": the code treats them alike.                                   *)
(***************************************************************************)
EXTENDS Integers, SequencesExt

CONSTANTS
    Base,          \* values of a byte: 256
    MaxPayload     \* bytes of payload: MAX_PAYLOAD, 1460

Byte == 0 .. Base - 1

WordBase == Base * Base        \* values of a word: 2^16

\* The length of the payload is a word.
ASSUME ChecksumAssumption ==
    /\ Base \in Nat \ {0, 1}
    /\ MaxPayload \in Nat /\ MaxPayload < WordBase

Word == 0 .. WordBase - 1

HeaderSize == 6

VARIABLES
    packet,     \* the packet that was sent
    wire,       \* its bytes, as they are now
    fault,      \* what happened to them on the way
    result      \* of parse_packet

packet_vars == <<packet, wire, fault, result>>

-----------------------------------------------------------------------------
(***************************************************************************)
(* compute_checksum.                                                       *)
(***************************************************************************)

\* Big-endian: htons and memcpy of the code.
Bytes(word) == <<word \div Base, word % Base>>

\* Mutant of WordAt: an odd byte at the end is left out.
WordAtEvenOnly(bytes, i) ==
    IF 2 * i <= Len(bytes) THEN bytes[2 * i - 1] * Base + bytes[2 * i] ELSE 0

\* The i-th word; an odd byte at the end is padded with zeros.
WordAt(bytes, i) ==
    bytes[2 * i - 1] * Base + (IF 2 * i <= Len(bytes) THEN bytes[2 * i] ELSE 0)

Words(bytes) == [i \in 1 .. (Len(bytes) + 1) \div 2 |-> WordAt(bytes, i)]

\* Mutant of AddWord: the carry is lost.
AddWordNoCarry(sum, word) == (sum + word) % WordBase

\* The carry comes back at the low end.
AddWord(sum, word) == ((sum + word) % WordBase) + (sum + word) \div WordBase

\* The sum after each turn of the loop.
Sums(words) ==
    LET sum[n \in 0 .. Len(words)] ==
            IF n = 0 THEN 0 ELSE AddWord(sum[n - 1], words[n])
    IN sum

\* ~sum.  That its cast to 16 bits loses nothing follows from the property
\* ChecksumIsOnesComplement.
compute_checksum(bytes) ==
    WordBase - 1 - Sums(Words(bytes))[Len(Words(bytes))]

-----------------------------------------------------------------------------
(***************************************************************************)
(* serialize_packet and parse_packet.                                      *)
(***************************************************************************)
Refused == [status |-> "refused"]

Accepted(p) == [status |-> "accepted", packet |-> p]

Layout(p, checksum) ==
    Bytes(p.fields) \o Bytes(checksum) \o Bytes(Len(p.payload)) \o p.payload

\* Mutant of serialize_packet: the checksum does not cover the payload.
SerializeHeaderOnly(p) ==
    Layout(p, compute_checksum(SubSeq(Layout(p, 0), 1, HeaderSize)))

serialize_packet(p) == Layout(p, compute_checksum(Layout(p, 0)))

\* Mutant of parse_packet: the length field is not compared.
ParseAnyLength(bytes) ==
    IF Len(bytes) < HeaderSize \/ compute_checksum(bytes) # 0
    THEN Refused
    ELSE Accepted([fields |-> WordAt(bytes, 1),
                   payload |-> SubSeq(bytes, HeaderSize + 1, Len(bytes))])

\* Too short, a wrong checksum, a wrong length.
parse_packet(bytes) ==
    IF \/ Len(bytes) < HeaderSize
       \/ compute_checksum(bytes) # 0
       \/ WordAt(bytes, 3) + HeaderSize # Len(bytes)
    THEN Refused
    ELSE Accepted([fields |-> WordAt(bytes, 1),
                   payload |-> SubSeq(bytes, HeaderSize + 1, Len(bytes))])

-----------------------------------------------------------------------------
Packets == [fields : Word, payload : BoundedSeq(Byte, MaxPayload)]

ChecksumInit ==
    /\ packet \in Packets
    /\ wire = serialize_packet(packet)
    /\ fault = "none"
    /\ result = [status |-> "none"]

\* One byte is damaged, in any way.
DamageByte ==
    /\ fault = "none" /\ result.status = "none"
    /\ \E i \in DOMAIN wire, b \in Byte :
           /\ b # wire[i]
           /\ wire' = [wire EXCEPT ![i] = b]
    /\ fault' = "byte"
    /\ UNCHANGED <<packet, result>>

\* The end of the datagram is missing, or bytes follow that it should not have.
Resize ==
    /\ fault = "none" /\ result.status = "none"
    /\ \/ \E n \in 0 .. Len(wire) - 1 : wire' = SubSeq(wire, 1, n)
       \/ \E tail \in BoundedSeq(Byte, 2) \ {<< >>} : wire' = wire \o tail
    /\ fault' = "resized"
    /\ UNCHANGED <<packet, result>>

Parse ==
    /\ result.status = "none"
    /\ result' = parse_packet(wire)
    /\ UNCHANGED <<packet, wire, fault>>

ChecksumNext == DamageByte \/ Resize \/ Parse

ChecksumSpec == ChecksumInit /\ [][ChecksumNext]_packet_vars

-----------------------------------------------------------------------------
(***************************************************************************)
(* Properties.                                                             *)
(***************************************************************************)

\* The sums of the first words, as numbers.
Totals(words) ==
    LET total[n \in 0 .. Len(words)] == IF n = 0 THEN 0 ELSE total[n - 1] + words[n]
    IN total

\* A number in ones' complement: modulo 2^16 - 1, and only 0 itself is 0.
OnesComplement(number) ==
    IF number = 0 THEN 0 ELSE ((number - 1) % (WordBase - 1)) + 1

OnesComplementSum(words) == OnesComplement(Totals(words)[Len(words)])

\* compute_checksum is the 16-bit ones' complement checksum for any bytes, also
\* an odd number of them: one carry per word is enough.
ChecksumIsOnesComplement ==
    compute_checksum(wire) = WordBase - 1 - OnesComplementSum(Words(wire))

\* What was serialized is parsed as it was, whatever the words and the length of
\* the payload.
RoundTrip ==
    fault = "none" /\ result.status # "none" => result = Accepted(packet)

\* No damage to a single byte passes: to a word of the header, the length, the
\* checksum itself, or an odd byte at the end.
DamageRefused == fault = "byte" => result.status # "accepted"

\* No datagram of another length passes, also when what is missing or too much
\* leaves the checksum right.
ResizeRefused == fault = "resized" => result.status # "accepted"

=============================================================================
