--------------------------- MODULE MCRtpDelivery ---------------------------
(* Packets of two bytes, counters that wrap, frames of one packet and       *)
(* frames to be cut, with and without a remainder.                          *)
EXTENDS RtpDelivery, TLC

CONSTANTS c1, c2, c3
MCClients == {c1, c2, c3}
MCTcpClients == {c1, c2}
MCSizes == [k \in Codecs |-> IF k = "AAC" THEN {7, 8} ELSE {2, 4, 5}]

Symmetry == Permutations(TcpClients)
=============================================================================
