---------------------------- MODULE ReceiveBuffer ----------------------------
(***************************************************************************)
(* The class rtp::ReceiveBuffer: the receiver's reordering buffer, indexed *)
(* by absolute sequence numbers, which are uint32_t and wrap.              *)
(***************************************************************************)
EXTENDS Integers, Sequences, FiniteSets

CONSTANTS
    SeqMod,      \* sequence numbers are counted modulo SeqMod: 2^32 in the code
    RcvWindow    \* window_size_ of the receiver

SeqNumbers == 0 .. SeqMod - 1

ASSUME ReceiveBufferAssumption ==
    /\ SeqMod \in Nat \ {0}
    /\ RcvWindow \in Nat /\ RcvWindow < SeqMod

\* The result of an addition in uint32_t.
Wrap(n) == n % SeqMod

\* b is the state of a buffer of Data.
IsBuffer(b, Data) ==
    /\ b = [expected_seq |-> b.expected_seq, held |-> b.held]
    /\ b.expected_seq \in SeqNumbers
    /\ DOMAIN b.held \subseteq SeqNumbers
    /\ b.held \in [DOMAIN b.held -> Data]

-----------------------------------------------------------------------------
NewBuffer(seq) == [expected_seq |-> seq, held |-> [q \in {} |-> 0]]

\* A sum that wraps leaves the upper edge below the lower one.
IsInWindow(b, seq) ==
    /\ seq >= b.expected_seq
    /\ seq < Wrap(b.expected_seq + RcvWindow)

\* A segment that is already there is kept, the new copy dropped.
AddSegment(b, seq, data) ==
    [b EXCEPT !.held = [q \in DOMAIN b.held \cup {seq} |->
                           IF q \in DOMAIN b.held THEN b.held[q] ELSE data]]

\* The i-th sequence number from the expected one on.
NthExpected(b, i) == Wrap(b.expected_seq + i)

\* The run of segments that can be delivered has length n.
RunLength(b, n) ==
    /\ \A i \in 0 .. n - 1 : NthExpected(b, i) \in DOMAIN b.held
    /\ NthExpected(b, n) \notin DOMAIN b.held

Extracted(b, n) == [i \in 1 .. n |-> b.held[NthExpected(b, i - 1)]]

\* Mutant of AfterExtract: the expected number lags by one.
ExtractLags(b, n) ==
    LET gone == {NthExpected(b, i) : i \in 0 .. n - 1}
    IN  [expected_seq |-> IF n = 0 THEN b.expected_seq ELSE NthExpected(b, n - 1),
         held |-> [q \in DOMAIN b.held \ gone |-> b.held[q]]]

AfterExtract(b, n) ==
    LET gone == {NthExpected(b, i) : i \in 0 .. n - 1}
    IN  [expected_seq |-> NthExpected(b, n),
         held |-> [q \in DOMAIN b.held \ gone |-> b.held[q]]]

\* Mutant of BuildSackMask: bit i is the segment expected_seq + i.
MaskOffByOne(b, bits) ==
    {i \in 0 .. bits - 1 : NthExpected(b, i) \in DOMAIN b.held}

\* The mask, as the set of its bits: bit i is the segment expected_seq + 1 + i.
BuildSackMask(b, bits) ==
    {i \in 0 .. bits - 1 : NthExpected(b, 1 + i) \in DOMAIN b.held}

=============================================================================
