----------------------------- MODULE MCAsyncLog -----------------------------
(***************************************************************************)
(* Two threads that log three lines each into buffers that hold one line   *)
(* of the longest and one of the shortest size.                            *)
(***************************************************************************)
EXTENDS AsyncLog

MCSizes == {1, 2}
=============================================================================
