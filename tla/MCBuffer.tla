------------------------------ MODULE MCBuffer ------------------------------
(* A block of two bytes, an extrabuf of two, bytes of two values. *)
EXTENDS Buffer

CONSTANTS byte0, byte1
MCBytes == {byte0, byte1}
=============================================================================
