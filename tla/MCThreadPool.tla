---------------------------- MODULE MCThreadPool ----------------------------
(* Enough tasks to keep all three workers busy and one queued. *)
EXTENDS ThreadPoolService
=============================================================================
