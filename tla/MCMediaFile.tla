---------------------------- MODULE MCMediaFile ----------------------------
(* All video files of four to nine bytes, read in blocks of six; audio files *)
(* of headers of two bytes and frames of two, three and, too large, five.    *)
EXTENDS MediaFile

MCVideoFiles == UNION {[1 .. n -> 0 .. 2] : n \in 4 .. 9}
MCLengths == {2, 3, 5}
=============================================================================
