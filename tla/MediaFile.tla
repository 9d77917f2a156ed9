----------------------------- MODULE MediaFile -----------------------------
(***************************************************************************)
(* MediaSource::ReadFrame as its two sources override it: a source plays   *)
(* one file, of its own format, for as long as the pool runs its tasks.    *)
(***************************************************************************)
EXTENDS Integers, Sequences

CONSTANTS VideoFiles, VideoFrameSize,                  \* H264File
          MaxLen, Lengths, AdtsSize, AudioFrameSize    \* AACFile

\* A first read of a video file shorter than a start code would test bytes that
\* were never written.
ASSUME FileAssumption ==
    /\ VideoFiles \subseteq Seq(0 .. 2)
    /\ \A f \in VideoFiles : Len(f) \in 4 .. MaxLen + 3
    /\ VideoFrameSize \in Nat /\ VideoFrameSize >= 4
    /\ MaxLen \in Nat /\ AudioFrameSize \in Nat
    /\ AdtsSize \in Nat \ {0}
    /\ \A n \in Lengths : n \in Nat /\ n >= AdtsSize

VARIABLES format,              \* which of the two sources it is
          file, offset, frame,
          m_buffer_, past,     \* of H264MediaSource
          failed               \* of AACMediaSource

videoVars == <<m_buffer_, past>>
vars == <<format, file, offset, frame, videoVars, failed>>

H264 == INSTANCE H264File WITH Files <- VideoFiles, FRAME_MAX_SIZE <- VideoFrameSize
AAC == INSTANCE AACFile WITH FRAME_MAX_SIZE <- AudioFrameSize

TypeOK ==
    /\ format \in {"H264", "AAC"}
    /\ offset \in 0 .. MaxLen + 3
    /\ format = "H264" => m_buffer_ \in [0 .. VideoFrameSize - 1 -> 0 .. 2]
    /\ frame.size \in Nat
    /\ past \in BOOLEAN /\ failed \in BOOLEAN

H264Init ==
    /\ format = "H264"
    /\ H264!Init
    /\ failed = FALSE

AACInit ==
    /\ format = "AAC"
    /\ AAC!Init
    /\ m_buffer_ = <<>> /\ past = FALSE

H264ReadFrame ==
    /\ format = "H264"
    /\ H264!ReadFrame
    /\ UNCHANGED <<format, failed>>

AACReadFrame ==
    /\ format = "AAC"
    /\ AAC!ReadFrame
    /\ UNCHANGED <<format, videoVars>>

Init == H264Init \/ AACInit
Next == H264ReadFrame \/ AACReadFrame

\* The pool runs the source's tasks again and again.
Spec == Init /\ [][Next]_vars /\ WF_vars(Next)

-----------------------------------------------------------------------------
(* Properties *)

\* GetFrameFromH264File and GetFrameFromAACFile hand on the file's units, each
\* from its first byte to its last, with the exceptions that the modules of the
\* two formats state.
FramesAreUnits ==
    /\ TypeOK
    /\ format = "H264" => H264!FramesAreUnits
    /\ format = "AAC" => AAC!FramesAreUnits

\* Only a damaged file misleads the parsers: it makes reads fail, each of which
\* costs the source a task, or a scan leave the bytes that were read.
OnlyDamagedFail ==
    /\ format = "H264" => H264!OnlyDamagedFail
    /\ format = "AAC" => AAC!OnlyDamagedFail

\* A file is played for ever, unit after unit, as long as they fit the frames.
EveryUnitPlayed ==
    \A k \in 0 .. MaxLen :
        /\ []<>(format = "H264" => H264!Plays(k))
        /\ []<>(format = "AAC" => AAC!Plays(k))
=============================================================================
