----------------------------- MODULE SendWindow -----------------------------
(***************************************************************************)
(* The class rtp::SendWindow: what the sender knows of each segment of the *)
(* file and of the two edges of its window.                                *)
(*                                                                         *)
(* segments_ maps a relative sequence number to a SegmentInfo and creates  *)
(* a default entry on first access, so an absent entry and a default entry *)
(* are the same thing: the sets sent and acked and the function retx stand *)
(* for the map.  Erasing an entry resets it.  The timestamps are left out: *)
(* when a timer has expired is chosen by the actions that read it.         *)
(***************************************************************************)
EXTENDS Integers, Sequences, FiniteSets

CONSTANTS
    Payload,         \* what one segment can carry
    File,            \* the file, as the sequence of its segments' payloads
    SndWindow,       \* window_size_ of the sender
    SackBits,        \* the width of the SACK mask: 32 in the code
    MaxRetransmits   \* retransmissions after which the connection is lost: 15

Total == Len(File)

Segments == 1 .. Total

ASSUME SendWindowAssumption ==
    /\ File \in Seq(Payload)
    /\ SndWindow \in Nat \ {0}
    /\ SackBits \in Nat \ {0} /\ SndWindow <= SackBits
    /\ MaxRetransmits \in Nat

WindowState ==
    [base_seq : 1 .. Total + 1, next_seq : 1 .. Total + 1,
     sent : SUBSET Segments, acked : SUBSET Segments,
     retx : [Segments -> 0 .. MaxRetransmits + 1]]

-----------------------------------------------------------------------------
NewWindow ==
    [base_seq |-> 1, next_seq |-> 1, sent |-> {}, acked |-> {},
     retx |-> [s \in Segments |-> 0]]

AllAcked(w) == w.base_seq > Total

\* What sending the segments of S does to their entries.  A segment that was
\* sent before is retransmitted: its count grows, here up to the first value
\* above the limit.
MarkSent(w, S) ==
    [w EXCEPT !.sent = @ \cup S,
              !.retx = [s \in Segments |->
                           IF s \in S \cap w.sent /\ w.retx[s] <= MaxRetransmits
                           THEN w.retx[s] + 1 ELSE w.retx[s]]]

\* Invalid sequence numbers are ignored.
MarkAcked(w, S) == [w EXCEPT !.acked = @ \cup (S \cap Segments)]

\* The entries left of the new edge are erased.
SetBaseSeq(w, seq) ==
    [w EXCEPT !.base_seq = seq,
              !.sent  = {s \in @ : s >= seq},
              !.acked = {s \in @ : s >= seq},
              !.retx  = [s \in Segments |-> IF s < seq THEN 0 ELSE w.retx[s]]]

\* The edge moves to the first segment that is not acked; the entries it passes
\* are erased, older ones are not.
FirstUnacked(w) ==
    CHOOSE b \in w.base_seq .. Total + 1 :
        b \notin w.acked /\ \A s \in w.base_seq .. b - 1 : s \in w.acked

AdvanceBaseSeq(w) ==
    LET b == FirstUnacked(w)
        passed == w.base_seq .. b - 1
    IN  IF w.base_seq > Total \/ w.base_seq \notin w.acked THEN w
        ELSE [w EXCEPT !.base_seq = b,
                       !.sent  = @ \ passed,
                       !.acked = @ \ passed,
                       !.retx  = [s \in Segments |->
                                     IF s \in passed THEN 0 ELSE w.retx[s]]]

Smaller(a, b) == IF a <= b THEN a ELSE b

\* Mutant of CalculateWindowSize: the peer's window is not looked at.
WindowWithoutPeer(peer_window, segments) ==
    Smaller(Smaller(SndWindow, segments), SackBits)

\* segments counts whole segments: the caller rounds cwnd down.
CalculateWindowSize(peer_window, segments) ==
    Smaller(Smaller(Smaller(SndWindow, peer_window), segments), SackBits)

=============================================================================
