---------------------------- MODULE MCRtspServer ----------------------------
(* Two descriptors shared by three connection objects, so that descriptors *)
(* are reused and an accept() can fail.                                    *)
EXTENDS RtspServer, TLC

Symmetry == Permutations(Events) \cup Permutations(Fds)
                \cup Permutations(Tracks)
=============================================================================
