--------------------------- MODULE MCMediaPipeline ---------------------------
(* Two sources, one of them with a file that does not parse everywhere. *)
EXTENDS MediaPipeline
=============================================================================
