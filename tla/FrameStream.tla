----------------------------- MODULE FrameStream -----------------------------
(***************************************************************************)
(* What one media source promises its sink, without pool, tasks or locks:  *)
(* the units of the file come out in file order, round and round, each     *)
(* sent once; at most FrameNum of them are ahead of the sink; and a unit   *)
(* that cannot be read costs the source one of its frames for ever.        *)
(***************************************************************************)
EXTENDS Naturals, Sequences

CONSTANTS FrameNum, FileLen, MayFail, NoUnit

VARIABLES credits,   \* frames that will still be filled from the file
          ready,     \* units read, not yet given to the sink
          sending,   \* unit the sink is working on
          next       \* the next unit of the file

vars == <<credits, ready, sending, next>>

Units == 0 .. FileLen - 1

Init ==
    /\ credits = FrameNum
    /\ ready = <<>>
    /\ sending = NoUnit
    /\ next = 0

Read ==
    /\ credits > 0
    /\ credits' = credits - 1
    /\ ready' = Append(ready, next)
    /\ next' = (next + 1) % FileLen
    /\ UNCHANGED sending

Fail ==
    /\ MayFail
    /\ credits > 0
    /\ credits' = credits - 1
    /\ next' \in Units
    /\ UNCHANGED <<ready, sending>>

Send ==
    /\ sending = NoUnit
    /\ ready # <<>>
    /\ sending' = Head(ready)
    /\ ready' = Tail(ready)
    /\ UNCHANGED <<credits, next>>

Recycle ==
    /\ sending # NoUnit
    /\ sending' = NoUnit
    /\ credits' = credits + 1
    /\ UNCHANGED <<ready, next>>

Next == Read \/ Fail \/ Send \/ Recycle

Spec == Init /\ [][Next]_vars
=============================================================================
