------------------------------ MODULE H264File ------------------------------
(***************************************************************************)
(* H264MediaSource::ReadFrame and GetFrameFromH264File: a file is read in  *)
(* blocks, each of which yields the unit at its beginning; after the last  *)
(* unit the file starts over.  Bytes are 0, 1 and any other.               *)
(*                                                                         *)
(* One frame stands for all: a frame that failed stays the first of the    *)
(* queue, and what an earlier read left in a frame matters only after a    *)
(* failure, when the next read gets fewer than four bytes.                 *)
(***************************************************************************)
EXTENDS Integers, Sequences, FiniteSetsExt

CONSTANTS Files,
          FRAME_MAX_SIZE

Other == 2

VARIABLES file,                \* what the source plays
          offset,              \* of its descriptor
          m_buffer_,           \* of the frame
          frame,               \* the last frame handed on: place and size
          past                 \* a scan ran past the bytes that were read

vars == <<file, offset, m_buffer_, frame, past>>

NoFrame == [from |-> 0, size |-> 0, skip |-> 0]

Init ==
    /\ file \in Files
    /\ offset = 0
    /\ m_buffer_ = [k \in 0 .. FRAME_MAX_SIZE - 1 |-> Other]
    /\ frame = NoFrame
    /\ past = FALSE

-----------------------------------------------------------------------------

StartCode3(buf, k) == buf[k] = 0 /\ buf[k + 1] = 0 /\ buf[k + 2] = 1
StartCode4(buf, k) == buf[k] = 0 /\ buf[k + 1] = 0 /\ buf[k + 2] = 0 /\ buf[k + 3] = 1

\* Mutant of StartCodes: the last three bytes are not looked at.
StartCodesButLast(buf, from, len) ==
    {k \in from .. from + len - 4 : StartCode3(buf, k) \/ StartCode4(buf, k)}

\* Mutant of StartCodes: only the codes of four bytes.
StartCodesLong(buf, from, len) ==
    {k \in from .. from + len - 4 : StartCode4(buf, k)}

\* FindNextStartCode returns the first of these, or nullptr.
StartCodes(buf, from, len) ==
    {k \in from .. from + len - 4 : StartCode3(buf, k) \/ StartCode4(buf, k)}
       \cup {k \in {from + len - 3} : k >= from /\ StartCode3(buf, k)}

\* read(): from the descriptor's place, as much as the block holds.
ReadSize == Min({FRAME_MAX_SIZE, Len(file) - offset})
ReadBlock == [k \in DOMAIN m_buffer_ |->
    IF k < ReadSize THEN file[offset + k + 1] ELSE m_buffer_[k]]

\* GetFrameFromH264File returns -1 with the descriptor behind what it read.
Fail ==
    /\ offset' = offset + ReadSize
    /\ UNCHANGED <<frame, past>>

HandOn(size) ==
    /\ frame' = [from |-> offset, size |-> size,
                 skip |-> IF StartCode3(m_buffer_', 0) THEN 3 ELSE 4]
    /\ UNCHANGED past

\* Mutant of Deliver: sought from behind the block, as if from before it.
DeliverSeeksOn ==
    LET next == StartCodes(m_buffer_', 3, ReadSize - 3)
    IN IF next = {}
       THEN HandOn(ReadSize) /\ offset' = 0
       ELSE HandOn(Min(next)) /\ offset' = offset + ReadSize + Min(next)

\* No further start code ends the file, whatever is left behind the block.
Deliver ==
    LET next == StartCodes(m_buffer_', 3, ReadSize - 3)
    IN IF next = {}
       THEN HandOn(ReadSize) /\ offset' = 0
       ELSE HandOn(Min(next)) /\ offset' = offset + Min(next)

ReadFrame ==
    /\ ~past
    /\ m_buffer_' = ReadBlock
    /\ UNCHANGED file
    /\ IF ~StartCode3(m_buffer_', 0) /\ ~StartCode4(m_buffer_', 0)
       THEN Fail
       ELSE IF ReadSize < 3
            THEN past' = TRUE /\ UNCHANGED <<offset, frame>>
            ELSE Deliver

Next == ReadFrame

-----------------------------------------------------------------------------
(* Properties *)

\* The code at a place of the file: three zeros before the one if there are.
Code4(k) == k + 4 <= Len(file) /\ \A j \in 1 .. 3 : file[k + j] = 0 /\ file[k + 4] = 1
Code3(k) == k + 3 <= Len(file) /\ file[k + 1] = 0 /\ file[k + 2] = 0 /\ file[k + 3] = 1

\* Where the file's units start.
UnitStarts == {k \in 0 .. Len(file) - 3 : Code4(k) \/ (Code3(k) /\ (k = 0 \/ ~Code4(k - 1)))}
UnitEnd(k) == Min({n \in UnitStarts : n > k} \cup {Len(file)})

\* A unit can be told from the next if that one's start code is in the block.
Fits(k) ==
    LET end == UnitEnd(k)
        code == IF end = Len(file) THEN 0 ELSE IF Code4(end) THEN 4 ELSE 3
    IN end + code - k <= FRAME_MAX_SIZE

WellFormed == 0 \in UnitStarts

\* Every frame of a file that begins with a start code is one of its units; or
\* the first block of one that does not fit.  The next read is of the next unit;
\* behind the last, and behind one that does not fit, the file starts over.
FramesAreUnits ==
    WellFormed /\ frame # NoFrame =>
        LET end == UnitEnd(frame.from)
        IN /\ frame.from \in UnitStarts
           /\ frame.size = IF Fits(frame.from) THEN end - frame.from ELSE FRAME_MAX_SIZE
           /\ offset = IF Fits(frame.from) /\ end < Len(file) THEN end ELSE 0

\* Reads of a file that begins with a start code never fail, since each starts
\* at a unit, and stay within what was read.  Of another file a scan may leave
\* that, or a frame's size be negative, when it is one to three bytes longer
\* than some blocks: those bytes and what the last read left in the frame make
\* a start code.
OnlyDamagedFail ==
    /\ WellFormed => offset \in UnitStarts
    /\ past \/ frame.skip > frame.size =>
          ~WellFormed /\ Len(file) % FRAME_MAX_SIZE \in {1, 2, 3}

\* The last frame is the unit at k, if the file has one there and all that come
\* before it fit; what follows a unit that does not is never played.
Plays(k) ==
    WellFormed /\ k \in UnitStarts /\ (\A n \in UnitStarts : n <= k => n = k \/ Fits(n))
        => frame.from = k
=============================================================================
