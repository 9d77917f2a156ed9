----------------------------- MODULE ByteQueue -----------------------------
(* What Buffer (buffer.h) promises: a queue of bytes that grows at its end, *)
(* by any amount, and is taken from its front; the last bytes can be taken  *)
(* back.  `call' is the operation last called, with its argument.           *)
EXTENDS Naturals, Sequences

CONSTANT Bytes

VARIABLES q, call

Init == q = <<>> /\ call = [op |-> "Buffer"]

Add == call'.op = "Add" /\ call'.data \in Seq(Bytes) /\ q' = q \o call'.data

Drop == /\ call'.op = "Drop" /\ call'.n \in 0 .. Len(q)
        /\ q' = SubSeq(q, call'.n + 1, Len(q))

TakeBack == /\ call'.op = "TakeBack" /\ call'.n \in 0 .. Len(q)
            /\ q' = SubSeq(q, 1, Len(q) - call'.n)

Clear == call'.op = "Clear" /\ q' = <<>>

Next == Add \/ Drop \/ TakeBack \/ Clear

Spec == Init /\ [][Next]_<<q, call>>
=============================================================================
