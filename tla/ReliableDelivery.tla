-------------------------- MODULE ReliableDelivery --------------------------
(***************************************************************************)
(* What the sender and the receiver promise together, whatever the network *)
(* does: the output file is at every moment a beginning of the input file, *)
(* it only grows, and the sender reports success only when all of it has   *)
(* been written.  A sender that reports failure promises nothing: the      *)
(* receiver may have written less than the file, or all of it.             *)
(***************************************************************************)
EXTENDS Integers, Sequences

CONSTANT File

VARIABLES
    written,    \* the output file
    outcome     \* of the sender: "running", "success" or "failure"

Init ==
    /\ written = << >>
    /\ outcome = "running"

Deliver ==
    /\ \E n \in Len(written) + 1 .. Len(File) : written' = SubSeq(File, 1, n)
    /\ UNCHANGED outcome

Succeed ==
    /\ outcome = "running" /\ written = File
    /\ outcome' = "success"
    /\ UNCHANGED written

Fail ==
    /\ outcome = "running"
    /\ outcome' = "failure"
    /\ UNCHANGED written

Next == Deliver \/ Succeed \/ Fail

Spec == Init /\ [][Next]_<<written, outcome>>

=============================================================================
