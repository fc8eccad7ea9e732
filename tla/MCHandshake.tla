----------------------------- MODULE MCHandshake -----------------------------
(***************************************************************************)
(* Three runs of the sender for TLC: two at one endpoint, one at another.  *)
(***************************************************************************)
EXTENDS Handshake

MCSenders == {1, 2, 3}

MCEndpoint == [s \in MCSenders |-> IF s = 3 THEN "b" ELSE "a"]

MCSndIsn == [s \in MCSenders |-> IF s = 2 THEN 7 ELSE 3]

\* The final ACK of 2 carries the number 0, as a probe does: that of the ISN 7.
MCTotal == [s \in MCSenders |-> IF s = 1 THEN 3 ELSE 0]

\* Two runs, at one endpoint.
MCTwoSenders == {1, 2}

MCOneEndpoint == [s \in MCTwoSenders |-> "a"]

MCTwoIsns == [s \in MCTwoSenders |-> MCSndIsn[s]]

MCTwoTotals == [s \in MCTwoSenders |-> MCTotal[s]]

=============================================================================
