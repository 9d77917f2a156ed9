-------------------------- MODULE MCRequestFraming --------------------------
(* Clients of up to three messages; one payload looks like the end of a line. *)
EXTENDS RequestFraming

MCPayloads == {<<"data">>, <<"CR", "LF", "data">>}
=============================================================================
