---------------------------- MODULE MCRtpSockets ----------------------------
(* Two connections, eight descriptors, four ports to draw from, two tries. *)
EXTENDS RtpSockets, TLC

CONSTANTS c1, c2
MCConns == {c1, c2}
MCFds == 3 .. 10
Symmetry == Permutations(MCConns)
=============================================================================
