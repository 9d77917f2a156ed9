------------------------------ MODULE RtpSink ------------------------------
(***************************************************************************)
(* H264RtpSink::HandleFrame, AACRtpSink::HandleFrame and                   *)
(* RtpSink::SendRtpPacket: how a frame becomes RTP packets.  A frame is    *)
(* its size and, for H.264, whether it holds a parameter set; the bytes of *)
(* a packet are the places of the frame they come from.  One step sends    *)
(* one packet.                                                             *)
(***************************************************************************)
EXTENDS Integers, Sequences

CONSTANTS RTP_MAX_PKT_SIZE,
          RTP_HEADER_SIZE,
          Slack,               \* allocated beyond the two: 100 bytes
          SeqMod,              \* m_seq_ is uint16_t
          TimeMod,             \* m_time_stamp_ is uint32_t
          Step,                \* clock ticks of a frame
          FrameSizes,          \* the sizes of the frames of each codec
          MaxFrames            \* bound on the frames sent

AdtsSize == 7
PrefixSize == 4                \* room for the header of an interleaved packet

Codecs == {"H264", "AAC"}

ASSUME SinkAssumption ==
    /\ RTP_MAX_PKT_SIZE \in Nat \ {0}
    /\ {RTP_HEADER_SIZE, Slack, Step, MaxFrames} \subseteq Nat
    /\ Slack >= PrefixSize + 2      \* and the two bytes of a fragment's header
    /\ {SeqMod, TimeMod} \subseteq Nat \ {0}
    /\ FrameSizes \in [Codecs -> SUBSET Nat]
    /\ \A n \in FrameSizes["AAC"] : n >= AdtsSize

VARIABLES codec,               \* which of the two sinks it is
          frames,              \* frames handled, the current one last (history)
          sent,                \* packets sent (history)
          m_seq_, m_time_stamp_,
          i, pos,              \* locals of HandleFrame: fragments sent, next byte
          sending              \* HandleFrame has fragments left to send

sinkVars == <<codec, frames, sent, m_seq_, m_time_stamp_, i, pos, sending>>

Kinds == IF codec = "AAC" THEN {"audio"} ELSE {"parameters", "slice"}
Frames == [size : FrameSizes[codec], kind : Kinds]
Frame == frames[Len(frames)]

Parts == [frame : 1 .. MaxFrames,        \* whose bytes it carries (history)
          fragment : BOOLEAN, start : BOOLEAN, end : BOOLEAN,
          kind : Kinds \cup {"none"},    \* the NAL unit type it names
          first : Nat, last : Nat]       \* bytes first .. last - 1 of the frame

Packets == [part : Parts, seq : 0 .. SeqMod - 1, time : 0 .. TimeMod - 1,
            size : Nat]                  \* m_size_ when it is handed on

TypeOK ==
    /\ codec \in Codecs
    /\ frames \in Seq(Frames)
    /\ sent \in Seq(Packets)
    /\ m_seq_ \in 0 .. SeqMod - 1
    /\ m_time_stamp_ \in 0 .. TimeMod - 1
    /\ i \in Nat /\ pos \in Nat
    /\ sending \in BOOLEAN

SinkInit ==
    /\ codec \in Codecs
    /\ frames = <<>>
    /\ sent = <<>>
    /\ m_seq_ = 0
    /\ m_time_stamp_ = 0
    /\ i = 0 /\ pos = 0
    /\ sending = FALSE

-----------------------------------------------------------------------------

\* SendRtpPacket, and the m_seq_++ that follows every call.
SendRtpPacket(p, payload) ==
    /\ sent' = Append(sent, [part |-> p, seq |-> m_seq_, time |-> m_time_stamp_,
                             size |-> payload + RTP_HEADER_SIZE])
    /\ m_seq_' = (m_seq_ + 1) % SeqMod

Tick == m_time_stamp_' = (m_time_stamp_ + Step) % TimeMod

\* All of a frame from a byte on.
Whole(f, first) == [frame |-> Len(frames) + 1, fragment |-> FALSE, start |-> FALSE,
                    end |-> FALSE, kind |-> f.kind, first |-> first, last |-> f.size]

Begin(f) ==
    /\ ~sending
    /\ Len(frames) < MaxFrames
    /\ UNCHANGED codec
    /\ frames' = Append(frames, f)

\* Mutant of HandleSmall: no limit to what goes into one packet.
HandleAllSmall(f) ==
    /\ codec = "H264"
    /\ Begin(f)
    /\ SendRtpPacket(Whole(f, 0), f.size)
    /\ IF f.kind = "parameters" THEN UNCHANGED m_time_stamp_ ELSE Tick
    /\ UNCHANGED <<i, pos, sending>>

\* H264RtpSink::HandleFrame, a frame that fits one packet: a parameter set
\* shares the time of the frame after it.
HandleSmall(f) ==
    /\ codec = "H264"
    /\ Begin(f)
    /\ f.size <= RTP_MAX_PKT_SIZE
    /\ SendRtpPacket(Whole(f, 0), f.size)
    /\ IF f.kind = "parameters" THEN UNCHANGED m_time_stamp_ ELSE Tick
    /\ UNCHANGED <<i, pos, sending>>

\* H264RtpSink::HandleFrame, a frame to be cut: its first byte, the NAL unit's
\* header, goes into the header of each fragment.
HandleLarge(f) ==
    /\ codec = "H264"
    /\ Begin(f)
    /\ f.size > RTP_MAX_PKT_SIZE
    /\ i' = 0 /\ pos' = 1
    /\ sending' = TRUE
    /\ UNCHANGED <<sent, m_seq_, m_time_stamp_>>

pkt_num == Frame.size \div RTP_MAX_PKT_SIZE
remain_pkt_size == Frame.size % RTP_MAX_PKT_SIZE

Fragment(len, start, end, kind) ==
    SendRtpPacket([frame |-> Len(frames), fragment |-> TRUE, start |-> start, end |-> end,
                   kind |-> kind, first |-> pos, last |-> pos + len], len + 2)

\* Mutant of EndFrame: the time moves on with every packet.
EndPacket(done) == sending' = ~done /\ Tick

EndFrame(done) ==
    /\ sending' = ~done
    /\ IF done THEN Tick ELSE UNCHANGED m_time_stamp_

\* Mutant of SendFragment: the next fragment starts at the same byte.
SendFragmentStuck ==
    /\ sending
    /\ i < pkt_num
    /\ LET end == i > 0 /\ remain_pkt_size = 0 /\ i = pkt_num - 1
       IN Fragment(RTP_MAX_PKT_SIZE, i = 0, end, Frame.kind)
    /\ i' = i + 1
    /\ UNCHANGED <<codec, frames, pos>>
    /\ EndFrame(i' = pkt_num /\ remain_pkt_size = 0)

\* Mutant of SendFragment: the last full fragment is always the end.
SendFragmentEnds ==
    /\ sending
    /\ i < pkt_num
    /\ Fragment(RTP_MAX_PKT_SIZE, i = 0, i > 0 /\ i = pkt_num - 1, Frame.kind)
    /\ i' = i + 1
    /\ pos' = pos + RTP_MAX_PKT_SIZE
    /\ UNCHANGED <<codec, frames>>
    /\ EndFrame(i' = pkt_num /\ remain_pkt_size = 0)

SendFragment ==
    /\ sending
    /\ i < pkt_num
    /\ LET end == i > 0 /\ remain_pkt_size = 0 /\ i = pkt_num - 1
       IN Fragment(RTP_MAX_PKT_SIZE, i = 0, end, Frame.kind)
    /\ i' = i + 1
    /\ pos' = pos + RTP_MAX_PKT_SIZE
    /\ UNCHANGED <<codec, frames>>
    /\ EndFrame(i' = pkt_num /\ remain_pkt_size = 0)

\* The rest of the frame.  Its second header byte is assigned 0x40, not or-ed
\* with it, so it names no NAL unit type.
SendRemainder ==
    /\ sending
    /\ i = pkt_num
    /\ Fragment(remain_pkt_size, FALSE, TRUE, "none")
    /\ UNCHANGED <<codec, frames, i, pos>>
    /\ EndFrame(TRUE)

\* Mutant of HandleAudio: the ADTS header is sent as well.
HandleAudioWithHeader(f) ==
    /\ codec = "AAC"
    /\ Begin(f)
    /\ SendRtpPacket(Whole(f, 0), f.size + 4)
    /\ Tick
    /\ UNCHANGED <<i, pos, sending>>

\* AACRtpSink::HandleFrame: the ADTS header is replaced by four bytes.
HandleAudio(f) ==
    /\ codec = "AAC"
    /\ Begin(f)
    /\ SendRtpPacket(Whole(f, AdtsSize), f.size - AdtsSize + 4)
    /\ Tick
    /\ UNCHANGED <<i, pos, sending>>

SinkNext ==
    \/ \E f \in Frames : HandleSmall(f) \/ HandleLarge(f) \/ HandleAudio(f)
    \/ SendFragment
    \/ SendRemainder

-----------------------------------------------------------------------------
(* Properties *)

Cut(n) == codec = "H264" /\ frames[n].size > RTP_MAX_PKT_SIZE
Finished(n) == n < Len(frames) \/ ~sending

\* The k-th packet is the first, or the last, of its frame.
Opens(k) == k = 1 \/ sent[k - 1].part.frame # sent[k].part.frame
Closes(k) ==
    /\ Finished(sent[k].part.frame)
    /\ k = Len(sent) \/ sent[k + 1].part.frame # sent[k].part.frame

\* No frame is left out, and the packets of a frame carry its bytes in order,
\* each once, before those of the next frame; and, when it is cut, one byte
\* from behind it: the fragments are counted with the header byte but start
\* after it.
FrameCovered ==
    /\ \A n \in DOMAIN frames : Finished(n) => \E k \in DOMAIN sent : sent[k].part.frame = n
    /\ \A k \in DOMAIN sent :
          LET p == sent[k].part
              n == p.frame
          IN /\ Opens(k) =>
                   p.first = IF codec = "AAC" THEN AdtsSize ELSE IF Cut(n) THEN 1 ELSE 0
             /\ Closes(k) => p.last = frames[n].size + (IF Cut(n) THEN 1 ELSE 0)
             /\ k < Len(sent) =>
                   LET q == sent[k + 1].part
                   IN q.frame = n + 1 \/ (q.frame = n /\ q.first = p.last)

\* Exactly the first fragment of a frame is its start and exactly the last its
\* end, also when the size is a multiple of the packet's; every fragment names
\* the frame's type but a last one shorter than the others.
FragmentsMarked ==
    \A k \in DOMAIN sent :
        LET p == sent[k].part
            n == p.frame
        IN Cut(n) => /\ p.start <=> Opens(k)
                     /\ p.end <=> Closes(k)
                     /\ p.kind = frames[n].kind
                           <=> ~(Closes(k) /\ frames[n].size % RTP_MAX_PKT_SIZE # 0)

\* All packets of a frame have one time, and the time moves on by one frame,
\* except after a parameter set that went out in one packet.
TimePerFrame ==
    \A k \in 1 .. Len(sent) - 1 :
        LET p == sent[k]
            n == p.part.frame
            still == \/ sent[k + 1].part.frame = n
                     \/ frames[n].kind = "parameters" /\ ~Cut(n)
        IN sent[k + 1].time = IF still THEN p.time ELSE (p.time + Step) % TimeMod

\* A packet and the header of an interleaved one fit the memory allocated for
\* them, except that an audio frame is sent uncut whatever its size.
FitsAllocation ==
    /\ TypeOK
    /\ \A k \in DOMAIN sent :
          PrefixSize + sent[k].size > RTP_HEADER_SIZE + RTP_MAX_PKT_SIZE + Slack
            <=> codec = "AAC" /\ frames[sent[k].part.frame].size >= RTP_MAX_PKT_SIZE + Slack
=============================================================================
