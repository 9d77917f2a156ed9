------------------------------ MODULE AACFile ------------------------------
(***************************************************************************)
(* AACMediaSource::ReadFrame and GetFrameFromAACFile: a header is read,    *)
(* then as many bytes as it says.  A file is its length and, for each      *)
(* place, the frame length that a header read there would give: 0 where    *)
(* ParseAdtsHeader finds none.                                             *)
(***************************************************************************)
EXTENDS Integers, FiniteSetsExt

CONSTANTS MaxLen,              \* bound on the length of a file
          Lengths,             \* frame lengths, their header included
          AdtsSize,            \* 7
          FRAME_MAX_SIZE

VARIABLES file, offset,
          frame,               \* the last frame handed on: place, size, bytes read
          failed               \* the last read failed

vars == <<file, offset, frame, failed>>

Files == UNION {[0 .. n - 1 -> Lengths \cup {0}] : n \in 0 .. MaxLen}
FileLen == Cardinality(DOMAIN file)
NoFrame == [from |-> 0, size |-> 0, got |-> 0]

Init ==
    /\ file \in Files
    /\ offset = 0
    /\ frame = NoFrame
    /\ failed = FALSE

-----------------------------------------------------------------------------

Smaller(a, b) == IF a < b THEN a ELSE b

\* Mutant of Start: the end of the file is not noticed.
StartNoRewind == offset

\* Where the header is read: at the end of the file, from its beginning.
Start == IF offset = FileLen THEN 0 ELSE offset

\* What the parse gives: bytes the file does not have may be anything.
Parsed(from) ==
    IF from + AdtsSize <= FileLen THEN {file[from]} ELSE Lengths \cup {0}

\* GetFrameFromAACFile returns -1 and leaves the descriptor behind the header.
Fail(from) ==
    /\ offset' = Smaller(from + AdtsSize, FileLen)
    /\ failed' = TRUE
    /\ UNCHANGED frame

\* Mutant of Deliver: the header's length not taken off what is left to read.
DeliverTooMuch(from, n) ==
    /\ offset' = Smaller(from + AdtsSize + n, FileLen)
    /\ frame' = [from |-> from, size |-> n, got |-> Smaller(n, FileLen - from)]
    /\ failed' = FALSE

\* Whatever the second read got, the frame has the length its header gives.
Deliver(from, n) ==
    /\ offset' = Smaller(from + n, FileLen)
    /\ frame' = [from |-> from, size |-> n, got |-> Smaller(n, FileLen - from)]
    /\ failed' = FALSE

ReadFrame ==
    /\ UNCHANGED file
    /\ \E n \in IF FileLen = 0 THEN {0} ELSE Parsed(Start) :
          IF n = 0 \/ n > FRAME_MAX_SIZE THEN Fail(Start) ELSE Deliver(Start, n)

Next == ReadFrame

-----------------------------------------------------------------------------
(* Properties *)

\* The places where a header can be read, and is found.
Headers == {k \in DOMAIN file : k + AdtsSize <= FileLen /\ file[k] # 0}

\* The places of the file's units: its beginning, and from each header to the
\* next; these are the least of the sets that are closed in this way.
UnitStarts ==
    LET Closed(S) ==
            /\ 0 \in S
            /\ \A k \in S : k + file[k] \in Headers => k + file[k] \in S
    IN {k \in Headers :
          0 \in Headers /\ \A S \in SUBSET Headers : Closed(S) => k \in S}

\* The file is units from end to end, the last of them perhaps cut short.
WellFormed ==
    /\ FileLen > 0
    /\ \A k \in UnitStarts : /\ file[k] <= FRAME_MAX_SIZE
                             /\ k + file[k] < FileLen => k + file[k] \in Headers
    /\ 0 \in UnitStarts

\* The frames of such a file are its units, and none but the last has bytes
\* that were not read: what an earlier frame left there.  The next read is of the
\* next unit, or finds the end of the file behind the last.
FramesAreUnits ==
    WellFormed /\ frame # NoFrame =>
        /\ frame.from \in UnitStarts
        /\ frame.size = file[frame.from]
        /\ frame.got = frame.size \/ frame.from + frame.size > FileLen
        /\ IF frame.from + frame.size < FileLen
           THEN offset = frame.from + frame.size /\ offset \in UnitStarts
           ELSE offset = FileLen

\* Reads fail, each at the cost of a task, only if the file is not such a
\* sequence; the end of the file does not make them fail.
OnlyDamagedFail == failed => ~WellFormed

\* The last frame is the unit at k, if the file has one there.
Plays(k) == WellFormed /\ k \in UnitStarts => frame.from = k
=============================================================================
