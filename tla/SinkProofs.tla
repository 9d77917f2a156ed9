----------------------------- MODULE SinkProofs -----------------------------
(***************************************************************************)
(* Proofs of the properties of RtpSink and of RtpDelivery, for any sizes   *)
(* of frames and packets, any number of frames and of clients, and         *)
(* whatever their sockets take of what is written.                         *)
(***************************************************************************)
EXTENDS RtpDelivery, SequenceTheorems, WellFoundedInduction, TLAPS

LEMMA Division ==
    ASSUME NEW a \in Nat, NEW b \in Nat \ {0}
    PROVE  /\ a \div b \in Nat
           /\ a % b \in 0 .. b - 1
           /\ a = b * (a \div b) + (a % b)
           /\ a >= b => a \div b # 0
<1>1. /\ a \div b \in Nat
      /\ a % b \in 0 .. b - 1
      /\ a = b * (a \div b) + (a % b)
  OBVIOUS
<1>2. ASSUME a \div b = 0 PROVE ~(a >= b)
  <2>1. b * (a \div b) = 0
    BY <1>2
  <2>2. PICK r \in 0 .. b - 1 : r = a % b
    BY <1>1
  <2>3. a = r
    BY <1>1, <2>1, <2>2
  <2> QED
    BY <2>3
<1> QED
  BY <1>1, <1>2

\* A parameter set that went out in one packet holds the time.
Holds(n) == frames[n].kind = "parameters" /\ ~Cut(n)

\* The frame being cut has no packet yet.
Unopened == sending /\ i = 0

LastSent == sent[Len(sent)]

\* Packets are of frames handled, the last of the last frame that has one.
LastFrameSent ==
    /\ \A k \in DOMAIN sent : sent[k].part.frame \in DOMAIN frames
    /\ sent = <<>> => Len(frames) = IF Unopened THEN 1 ELSE 0
    /\ sent # <<>> =>
          LastSent.part.frame = IF Unopened THEN Len(frames) - 1 ELSE Len(frames)

\* HandleFrame stands behind the fragments it has sent, with some left to send.
Position ==
    sending =>
        /\ frames # <<>> /\ Cut(Len(frames))
        /\ i \in 0 .. pkt_num
        /\ i = pkt_num => remain_pkt_size # 0
        /\ pos = 1 + i * RTP_MAX_PKT_SIZE
        /\ i > 0 => LastSent.part.last = pos

\* The time of the next packet, as the last one and its frame determine it.
TimeNow ==
    sent # <<>> =>
        m_time_stamp_ = IF (sending /\ i > 0) \/ Holds(LastSent.part.frame)
                        THEN LastSent.time ELSE (LastSent.time + Step) % TimeMod

SinkInv ==
    /\ TypeOK
    /\ Len(frames) <= MaxFrames
    /\ LastFrameSent
    /\ Position
    /\ TimeNow
    /\ FrameCovered
    /\ FragmentsMarked
    /\ TimePerFrame
    /\ FitsAllocation

-----------------------------------------------------------------------------
(* One packet more *)

\* The frame a packet is sent for: a new one, or the one being cut.
Handled(f) == \/ ~sending /\ frames' = Append(frames, f)
              \/ sending /\ frames' = frames /\ f = Frame

\* A packet is appended for frame f, which is cut or not; it is the frame's first
\* or not, and its last or not.
Adds(P, f) ==
    /\ Handled(f) /\ sent' = Append(sent, P) /\ UNCHANGED codec
    /\ P.part.frame = Len(frames')
MustCut(f) == codec = "H264" /\ f.size > RTP_MAX_PKT_SIZE
First == ~sending \/ i = 0

\* It carries on where the last one ended, is marked for its place in the frame,
\* has the time of the sink, and its size.
Continues(P, f) ==
    /\ P.part.first = IF First
                      THEN (IF codec = "AAC" THEN AdtsSize ELSE IF MustCut(f) THEN 1 ELSE 0)
                      ELSE pos
    /\ ~sending' => P.part.last = f.size + (IF MustCut(f) THEN 1 ELSE 0)
Marked(P, f) ==
    MustCut(f) =>
        /\ P.part.start <=> First
        /\ P.part.end <=> ~sending'
        /\ P.part.kind = f.kind <=> ~(~sending' /\ f.size % RTP_MAX_PKT_SIZE # 0)
Timed(P, f) ==
    /\ P.time = m_time_stamp_
    /\ m_time_stamp_' = IF sending' \/ (f.kind = "parameters" /\ ~MustCut(f))
                        THEN m_time_stamp_ ELSE (m_time_stamp_ + Step) % TimeMod
Sized(P, f) ==
    PrefixSize + P.size > RTP_HEADER_SIZE + RTP_MAX_PKT_SIZE + Slack
        <=> codec = "AAC" /\ f.size >= RTP_MAX_PKT_SIZE + Slack

\* What a packet does not change: the packets and frames before it, and where
\* among them a frame opens and closes.
LEMMA EarlierPackets ==
    ASSUME SinkInv, NEW f \in Frames, NEW P \in Packets,
           Adds(P, f), NEW n, n = Len(sent), NEW F, F = Len(frames')
    PROVE  /\ n \in Nat /\ DOMAIN sent = 1 .. n /\ DOMAIN sent' = 1 .. n + 1
           /\ Len(sent') = n + 1 /\ sent' \in Seq(Packets)
           /\ \A k \in 1 .. n : sent'[k] = sent[k]
           /\ sent'[n + 1] = P
           /\ F \in Nat \ {0} /\ DOMAIN frames' = 1 .. F /\ DOMAIN frames \subseteq 1 .. F
           /\ frames' \in Seq(Frames) /\ frames'[F] = f
           /\ \A m \in DOMAIN frames :
                    frames'[m] = frames[m] /\ (Cut(m)' <=> Cut(m)) /\ (Holds(m)' <=> Holds(m))
           /\ F = IF sending THEN Len(frames) ELSE Len(frames) + 1
<1>0. /\ Handled(f) /\ sent' = Append(sent, P) /\ UNCHANGED codec
  BY DEF Adds
<1>1. /\ frames \in Seq(Frames) /\ sent \in Seq(Packets)
  BY DEF SinkInv, TypeOK
<1>2. /\ Len(sent) \in Nat /\ DOMAIN sent = 1 .. Len(sent)
      /\ Len(frames) \in Nat /\ DOMAIN frames = 1 .. Len(frames)
  BY <1>1, LenProperties
<1>3. /\ DOMAIN sent' = 1 .. Len(sent) + 1 /\ Len(sent') = Len(sent) + 1
      /\ sent' \in Seq(Packets)
      /\ \A k \in 1 .. Len(sent) : sent'[k] = sent[k]
      /\ sent'[Len(sent) + 1] = P
  BY <1>0, <1>1, <1>2, AppendProperties, LenProperties
<1>4. CASE ~sending
  <2>1. frames' = Append(frames, f)
    BY <1>0, <1>4 DEF Handled
  <2>2. /\ frames' \in Seq(Frames) /\ Len(frames') = Len(frames) + 1
        /\ DOMAIN frames' = 1 .. Len(frames) + 1
        /\ \A m \in 1 .. Len(frames) : frames'[m] = frames[m]
        /\ frames'[Len(frames) + 1] = f
    BY <1>1, <1>2, <2>1, AppendProperties, LenProperties
  <2>3. \A m \in DOMAIN frames : (Cut(m)' <=> Cut(m)) /\ (Holds(m)' <=> Holds(m))
    BY <1>0, <1>2, <2>2 DEF Cut, Holds
  <2> QED
    BY <1>2, <1>3, <1>4, <2>2, <2>3
<1>5. CASE sending
  <2>1. frames' = frames /\ f = frames[Len(frames)] /\ frames # <<>>
    BY <1>0, <1>5 DEF Handled, Frame, SinkInv, Position
  <2>2. Len(frames) # 0
    BY <1>1, <2>1, EmptySeq
  <2>3. \A m \in DOMAIN frames : (Cut(m)' <=> Cut(m)) /\ (Holds(m)' <=> Holds(m))
    BY <1>0, <2>1 DEF Cut, Holds
  <2> QED
    BY <1>1, <1>2, <1>3, <1>5, <2>1, <2>2, <2>3
<1> QED
  BY <1>4, <1>5

\* A packet opens its frame when it is a new one or has no packet yet.
LEMMA EarlierOpenClose ==
    ASSUME SinkInv, NEW f \in Frames, NEW P \in Packets,
           Adds(P, f), NEW n, n = Len(sent), NEW F, F = Len(frames')
    PROVE  /\ \A k \in 1 .. n : (Opens(k)' <=> Opens(k)) /\ (Closes(k)' <=> Closes(k))
           /\ Opens(n + 1)' <=> First
           /\ Closes(n + 1)' <=> ~sending'
           /\ n > 0 => sent[n].part.frame = IF First THEN F - 1
                                               ELSE F
<1>1. n \in Nat /\ DOMAIN sent = 1 .. n
  BY EarlierPackets
<1>2. Len(sent') = n + 1 /\ sent'[n + 1] = P /\ P.part.frame = F
  BY EarlierPackets DEF Adds
<1>3. \A k \in 1 .. n : sent'[k] = sent[k]
  BY EarlierPackets
<1>4. Len(frames) \in Nat /\ DOMAIN frames = 1 .. Len(frames)
  BY LenProperties DEF SinkInv, TypeOK
<1>5. F = Len(frames') /\ F \in Nat /\ F = IF sending THEN Len(frames) ELSE Len(frames) + 1
  BY EarlierPackets
<1>6. n > 0 => sent[n].part.frame = IF First THEN F - 1 ELSE F
  <2>1. n > 0 => sent # <<>>
    BY EmptySeq DEF SinkInv, TypeOK
  <2>2. n > 0 => sent[n].part.frame = IF Unopened THEN Len(frames) - 1 ELSE Len(frames)
    BY <2>1 DEF SinkInv, LastFrameSent, LastSent
  <2>3. F = IF sending THEN Len(frames) ELSE Len(frames) + 1
    BY <1>5
  <2>4. Len(frames) \in Nat
    BY <1>4
  <2> QED
    BY <2>2, <2>3, <2>4 DEF Unopened, First
<1>7. ASSUME NEW k \in 1 .. n
      PROVE  sent[k].part.frame \in Nat /\ sent[k].part.frame <= Len(frames)
  <2>1. sent[k].part.frame \in 1 .. Len(frames)
    BY <1>1, <1>4 DEF SinkInv, LastFrameSent
  <2> QED
    BY <1>4, <2>1
<1>8. ASSUME NEW k \in 1 .. n PROVE Opens(k)' <=> Opens(k)
  <2>1. k # 1 => k - 1 \in 1 .. n
    BY <1>1
  <2> QED
    BY <1>3, <2>1 DEF Opens
<1>9. ASSUME NEW k \in 1 .. n PROVE Closes(k)' <=> Closes(k)
  <2> DEFINE m == sent[k].part.frame
  <2>1. m \in Nat /\ m <= Len(frames) /\ sent'[k] = sent[k]
    BY <1>3, <1>7
  <2>2. CASE k = n
    <3>1. k # Len(sent') /\ sent'[k + 1] = P
      BY <1>1, <1>2, <2>2
    <3>2. Closes(k)' <=> (m < Len(frames') \/ ~sending') /\ F # m
      BY <1>2, <2>1, <3>1 DEF Closes, Finished
    <3>3. Closes(k) <=> m < Len(frames) \/ ~sending
      BY <2>2 DEF Closes, Finished
    <3>4. m = IF First THEN F - 1 ELSE F
      BY <1>1, <1>6, <2>2
    <3>5. F \in Nat /\ F = Len(frames') /\ F = IF sending THEN Len(frames) ELSE Len(frames) + 1
      BY <1>5
    <3>6. Len(frames) \in Nat
      BY <1>4
    <3> HIDE DEF m
    <3> QED
      BY <3>2, <3>3, <3>4, <3>5, <3>6 DEF First
  <2>3. CASE k # n
    <3>1. k + 1 \in 1 .. n /\ k # Len(sent') /\ k # Len(sent)
      BY <1>1, <1>2, <2>3
    <3>2. sent'[k + 1] = sent[k + 1]
      BY <1>3, <3>1
    <3>3. Closes(k)' <=> (m < Len(frames') \/ ~sending') /\ sent[k + 1].part.frame # m
      BY <2>1, <3>1, <3>2 DEF Closes, Finished
    <3>4. Closes(k) <=> (m < Len(frames) \/ ~sending) /\ sent[k + 1].part.frame # m
      BY <3>1 DEF Closes, Finished
    <3>5. sent[k + 1].part.frame \in {m, m + 1}
      <4>1. k \in DOMAIN sent /\ k < Len(sent)
        BY <1>1, <3>1
      <4> QED
        BY <4>1 DEF SinkInv, FrameCovered
    <3>6. sent[k + 1].part.frame <= Len(frames)
      BY <1>7, <3>1
    <3>7. F \in Nat /\ F = Len(frames') /\ F = IF sending THEN Len(frames) ELSE Len(frames) + 1
      BY <1>5
    <3>8. Len(frames) \in Nat
      BY <1>4
    <3> HIDE DEF m
    <3> QED
      BY <2>1, <3>3, <3>4, <3>5, <3>6, <3>7, <3>8
  <2> QED
    BY <2>2, <2>3
<1>10. Opens(n + 1)' <=> First
  <2>1. CASE n = 0
    <3>1. sent = <<>>
      BY <2>1, EmptySeq DEF SinkInv, TypeOK
    <3>2. First
      <4>1. Len(frames) = IF Unopened THEN 1 ELSE 0
        BY <3>1 DEF SinkInv, LastFrameSent
      <4>2. sending => Len(frames) # 0
        BY EmptySeq DEF SinkInv, TypeOK, Position
      <4> QED
        BY <4>1, <4>2 DEF Unopened, First
    <3> QED
      BY <2>1, <3>2 DEF Opens
  <2>2. CASE n # 0
    <3>1. n \in 1 .. n /\ n + 1 # 1 /\ n + 1 - 1 = n /\ n > 0
      BY <1>1, <2>2
    <3>2. Opens(n + 1)' <=> sent[n].part.frame # F
      BY <1>2, <1>3, <3>1 DEF Opens
    <3>3. sent[n].part.frame = IF First THEN F - 1 ELSE F
      BY <1>6, <3>1
    <3>4. F \in Nat
      BY <1>5
    <3> QED
      BY <3>2, <3>3, <3>4
  <2> QED
    BY <2>1, <2>2
<1>11. Closes(n + 1)' <=> ~sending'
  <2>1. Closes(n + 1)' <=> F < Len(frames') \/ ~sending'
    BY <1>2 DEF Closes, Finished
  <2> QED
    BY <1>5, <2>1
<1> QED
  BY <1>6, <1>8, <1>9, <1>10, <1>11

\* A packet that carries on where the last one ended, is marked for its place in
\* the frame, and has the time of the sink, keeps every property.
LEMMA PacketKeeps ==
    ASSUME SinkInv, NEW f \in Frames, NEW P \in Packets,
           Adds(P, f), Continues(P, f), Marked(P, f), Timed(P, f), Sized(P, f),
           TypeOK', Position', sending' => i' > 0
    PROVE  SinkInv'
<1>0. PICK n \in Nat, F \in Nat : n = Len(sent) /\ F = Len(frames')
  BY LenProperties DEF SinkInv, TypeOK
<1> HIDE <1>0
<1>1. /\ DOMAIN sent = 1 .. n /\ DOMAIN sent' = 1 .. n + 1 /\ Len(sent') = n + 1
      /\ \A k \in 1 .. n : k \in 1 .. n + 1
  <2>1. DOMAIN sent = 1 .. n /\ DOMAIN sent' = 1 .. n + 1 /\ Len(sent') = n + 1
    BY <1>0, EarlierPackets
  <2>2. \A k \in 1 .. n : k \in 1 .. n + 1
    OBVIOUS
  <2> QED
    BY <2>1, <2>2
<1>2. /\ F # 0 /\ Len(frames') = F /\ Len(frames) \in Nat
      /\ F = IF sending THEN Len(frames) ELSE Len(frames) + 1
  BY <1>0, EarlierPackets, LenProperties DEF SinkInv, TypeOK
<1>d. DOMAIN frames' = 1 .. F /\ DOMAIN frames = 1 .. Len(frames)
  BY <1>0, EarlierPackets, LenProperties DEF SinkInv, TypeOK
<1>3. \A k \in 1 .. n : sent'[k] = sent[k]
  BY <1>0, EarlierPackets
<1>4. sent'[n + 1] = P /\ P.part.frame = F /\ frames'[F] = f /\ codec' = codec
  BY <1>0, EarlierPackets DEF Adds
<1>5. \A m \in DOMAIN frames :
         frames'[m] = frames[m] /\ (Cut(m)' <=> Cut(m)) /\ (Holds(m)' <=> Holds(m))
  BY <1>0, EarlierPackets
<1>6. \A k \in 1 .. n : (Opens(k)' <=> Opens(k)) /\ (Closes(k)' <=> Closes(k))
  BY <1>0, EarlierOpenClose
<1>7. (Opens(n + 1)' <=> First) /\ (Closes(n + 1)' <=> ~sending')
  BY <1>0, EarlierOpenClose
<1>8. n > 0 => sent[n].part.frame = IF First THEN F - 1 ELSE F
  BY <1>0, EarlierOpenClose
<1>9. (Cut(F)' <=> MustCut(f)) /\ (Holds(F)' <=> f.kind = "parameters" /\ ~MustCut(f))
  BY <1>4 DEF Cut, Holds, MustCut
<1>10. \A k \in 1 .. n : sent[k].part.frame \in DOMAIN frames
  BY <1>1 DEF SinkInv, LastFrameSent
<1>11. sent' # <<>> /\ LastSent' = P
  BY <1>1, <1>4, EmptySeq DEF LastSent, TypeOK
<1>12. n > 0 => sent # <<>> /\ LastSent = sent[n]
  BY <1>0, EmptySeq DEF LastSent, SinkInv, TypeOK
\* An earlier packet and its frame are as they were.
<1>13. ASSUME NEW k \in 1 .. n
       PROVE  /\ sent'[k] = sent[k]
              /\ frames'[sent[k].part.frame] = frames[sent[k].part.frame]
              /\ Cut(sent[k].part.frame)' <=> Cut(sent[k].part.frame)
              /\ Holds(sent[k].part.frame)' <=> Holds(sent[k].part.frame)
  BY <1>3, <1>5, <1>10
<1>14. \A k \in 1 .. n + 1 : k = n + 1 \/ k \in 1 .. n
  OBVIOUS
<1>b. Len(frames') <= MaxFrames
  <2>1. P.part.frame \in 1 .. MaxFrames
    BY DEF Packets, Parts
  <2> QED
    BY <1>0, <1>4, <2>1, SinkAssumption
<1>15. LastFrameSent'
  <2>1. \A k \in 1 .. n + 1 : sent'[k].part.frame \in DOMAIN frames'
    <3> SUFFICES ASSUME NEW k \in 1 .. n + 1 PROVE sent'[k].part.frame \in 1 .. F
      BY <1>d
    <3>1. CASE k = n + 1
      <4>1. sent'[k].part.frame = F
        BY <1>4, <3>1
      <4> QED
        BY <1>2, <4>1
    <3>2. CASE k \in 1 .. n
      <4>1. sent'[k].part.frame = sent[k].part.frame /\ sent[k].part.frame \in 1 .. Len(frames)
        BY <1>d, <1>3, <1>10, <3>2
      <4> QED
        BY <1>2, <4>1
    <3> QED
      BY <1>14, <3>1, <3>2
  <2>2. ~Unopened'
    BY DEF Unopened, Position
  <2> QED
    <3>1. \A k \in DOMAIN sent' : sent'[k].part.frame \in DOMAIN frames'
      BY <1>1, <2>1
    <3>2. LastSent'.part.frame = Len(frames')
      BY <1>2, <1>4, <1>11
    <3> QED
      BY <1>11, <2>2, <3>1, <3>2 DEF LastFrameSent
<1>16. TimeNow'
  BY <1>4, <1>9, <1>11 DEF TimeNow, Timed
<1>17. FrameCovered'
  <2>1. \A m \in 1 .. F : Finished(m)' => \E k \in 1 .. n + 1 : sent'[k].part.frame = m
    <3> SUFFICES ASSUME NEW m \in 1 .. F, Finished(m)'
                 PROVE  \E k \in 1 .. n + 1 : sent'[k].part.frame = m
      OBVIOUS
    <3>1. CASE m = F
      BY <1>4, <3>1, n + 1 \in 1 .. n + 1
    <3>2. CASE m # F
      <4>1. m \in 1 .. Len(frames) /\ (m < Len(frames) \/ ~sending)
        BY <1>2, <3>2
      <4>2. PICK k \in 1 .. n : sent[k].part.frame = m
        BY <1>1, <1>d, <4>1 DEF SinkInv, FrameCovered, Finished
      <4>3. k \in 1 .. n + 1 /\ sent'[k].part.frame = m
        BY <1>1, <1>3, <4>2
      <4> QED
        BY <4>3
    <3> QED
      BY <3>1, <3>2
  <2>2. ASSUME NEW k \in 1 .. n + 1
        PROVE  /\ Opens(k)' => sent'[k].part.first =
                     IF codec' = "AAC" THEN AdtsSize ELSE IF Cut(sent[k].part.frame)' THEN 1 ELSE 0
               /\ Closes(k)' => sent'[k].part.last =
                     frames'[sent'[k].part.frame].size + (IF Cut(sent[k].part.frame)' THEN 1 ELSE 0)
               /\ k < n + 1 =>
                     \/ sent'[k + 1].part.frame = sent'[k].part.frame + 1
                     \/ /\ sent'[k + 1].part.frame = sent'[k].part.frame
                        /\ sent'[k + 1].part.first = sent'[k].part.last
    <3>1. CASE k = n + 1
      BY <1>4, <1>7, <1>9, <3>1 DEF Continues
    <3>2. CASE k \in 1 .. n
      <4>1. /\ Opens(k) => sent[k].part.first =
                  IF codec = "AAC" THEN AdtsSize ELSE IF Cut(sent[k].part.frame) THEN 1 ELSE 0
            /\ Closes(k) => sent[k].part.last =
                  frames[sent[k].part.frame].size + (IF Cut(sent[k].part.frame) THEN 1 ELSE 0)
        BY <1>1, <3>2 DEF SinkInv, FrameCovered
      <4>2. \/ sent'[k + 1].part.frame = sent[k].part.frame + 1
            \/ /\ sent'[k + 1].part.frame = sent[k].part.frame
               /\ sent'[k + 1].part.first = sent[k].part.last
        <5>1. CASE k # n
          <6>1. k + 1 \in 1 .. n /\ k < n
            BY <3>2, <5>1
          <6>2. \/ sent[k + 1].part.frame = sent[k].part.frame + 1
                \/ /\ sent[k + 1].part.frame = sent[k].part.frame
                   /\ sent[k + 1].part.first = sent[k].part.last
            BY <1>0, <1>1, <3>2, <6>1 DEF SinkInv, FrameCovered
          <6> QED
            BY <1>3, <6>1, <6>2
        <5>2. CASE k = n /\ First
          <6>1. sent[n].part.frame = F - 1
            BY <1>8, <3>2, <5>2
          <6> QED
            BY <1>4, <5>2, <6>1
        <5>3. CASE k = n /\ ~First
          <6>1. sent[n].part.frame = F /\ LastSent = sent[n]
            BY <1>8, <1>12, <3>2, <5>3
          <6>2. LastSent.part.last = pos
            BY <5>3 DEF First, SinkInv, Position, TypeOK
          <6>3. P.part.first = pos
            BY <5>3 DEF Continues
          <6> QED
            BY <1>4, <5>3, <6>1, <6>2, <6>3
        <5> QED
          BY <5>1, <5>2, <5>3
      <4> QED
        BY <1>4, <1>6, <1>13, <3>2, <4>1, <4>2
    <3> QED
      BY <1>14, <3>1, <3>2
  <2> QED
    BY <1>1, <1>d, <2>1, <2>2 DEF FrameCovered
<1>18. FragmentsMarked'
  <2>1. ASSUME NEW k \in 1 .. n + 1, Cut(sent[k].part.frame)'
        PROVE  /\ sent'[k].part.start <=> Opens(k)'
               /\ sent'[k].part.end <=> Closes(k)'
               /\ sent'[k].part.kind = frames'[sent'[k].part.frame].kind
                    <=> ~(Closes(k)' /\ frames'[sent'[k].part.frame].size % RTP_MAX_PKT_SIZE # 0)
    <3>1. CASE k = n + 1
      BY <1>4, <1>7, <1>9, <2>1, <3>1 DEF Marked
    <3>2. CASE k \in 1 .. n
      <4>1. Cut(sent[k].part.frame)
        BY <1>13, <2>1, <3>2
      <4>2. /\ sent[k].part.start <=> Opens(k)
            /\ sent[k].part.end <=> Closes(k)
            /\ sent[k].part.kind = frames[sent[k].part.frame].kind
                 <=> ~(Closes(k) /\ frames[sent[k].part.frame].size % RTP_MAX_PKT_SIZE # 0)
        BY <1>1, <3>2, <4>1 DEF SinkInv, FragmentsMarked
      <4> QED
        BY <1>6, <1>13, <3>2, <4>2
    <3> QED
      BY <1>14, <3>1, <3>2
  <2> QED
    BY <1>1, <2>1 DEF FragmentsMarked
<1>19. TimePerFrame'
  <2>1. ASSUME NEW k \in 1 .. n
        PROVE  sent'[k + 1].time =
                  IF sent'[k + 1].part.frame = sent'[k].part.frame \/ Holds(sent[k].part.frame)'
                  THEN sent'[k].time ELSE (sent'[k].time + Step) % TimeMod
    <3>1. CASE k = n
      <4>1. n > 0
        BY <3>1
      <4>2. sending /\ i > 0 <=> ~First
        BY DEF SinkInv, TypeOK, First
      <4>3. m_time_stamp_ = IF ~First \/ Holds(sent[n].part.frame)
                            THEN sent[n].time ELSE (sent[n].time + Step) % TimeMod
        BY <1>12, <4>1, <4>2 DEF SinkInv, TimeNow
      <4>4. F = sent[n].part.frame <=> ~First
        BY <1>8, <4>1
      <4>5. P.time = m_time_stamp_
        BY DEF Timed
      <4> QED
        BY <1>4, <1>13, <3>1, <4>3, <4>4, <4>5
    <3>2. CASE k # n
      <4>1. k \in 1 .. Len(sent) - 1 /\ k + 1 \in 1 .. n
        BY <1>0, <3>2
      <4>2. sent[k + 1].time =
               IF sent[k + 1].part.frame = sent[k].part.frame \/ Holds(sent[k].part.frame)
               THEN sent[k].time ELSE (sent[k].time + Step) % TimeMod
        BY <4>1 DEF SinkInv, TimePerFrame, Holds
      <4> QED
        BY <1>3, <1>13, <4>1, <4>2
    <3> QED
      BY <3>1, <3>2
  <2>2. \A k \in 1 .. Len(sent') - 1 : k \in 1 .. n
    BY <1>1
  <2> QED
    BY <2>1, <2>2 DEF TimePerFrame, Holds
<1>20. FitsAllocation'
  <2>1. ASSUME NEW k \in 1 .. n + 1
        PROVE  PrefixSize + sent'[k].size > RTP_HEADER_SIZE + RTP_MAX_PKT_SIZE + Slack
                 <=> codec' = "AAC"
                     /\ frames'[sent'[k].part.frame].size >= RTP_MAX_PKT_SIZE + Slack
    <3>1. CASE k = n + 1
      BY <1>4, <3>1 DEF Sized
    <3>2. CASE k \in 1 .. n
      <4>1. PrefixSize + sent[k].size > RTP_HEADER_SIZE + RTP_MAX_PKT_SIZE + Slack
              <=> codec = "AAC" /\ frames[sent[k].part.frame].size >= RTP_MAX_PKT_SIZE + Slack
        BY <1>1, <3>2 DEF SinkInv, FitsAllocation
      <4> QED
        BY <1>4, <1>13, <3>2, <4>1
    <3> QED
      BY <1>14, <3>1, <3>2
  <2> QED
    BY <1>1, <2>1 DEF FitsAllocation
<1> QED
  BY <1>b, <1>15, <1>16, <1>17, <1>18, <1>19, <1>20 DEF SinkInv

-----------------------------------------------------------------------------
(* Every step keeps the invariant *)

Packet(p, payload) == [part |-> p, seq |-> m_seq_, time |-> m_time_stamp_,
                       size |-> payload + RTP_HEADER_SIZE]

\* SendRtpPacket appends one packet with the sink's number and time.
LEMMA SendRtpPacketTypes ==
    ASSUME TypeOK, NEW p \in Parts, NEW payload \in Nat, SendRtpPacket(p, payload)
    PROVE  /\ Packet(p, payload) \in Packets
           /\ sent' = Append(sent, Packet(p, payload))
           /\ sent' \in Seq(Packets)
           /\ m_seq_' \in 0 .. SeqMod - 1
<1>1. m_seq_ \in 0 .. SeqMod - 1 /\ SeqMod \in Nat \ {0}
  BY SinkAssumption DEF TypeOK
<1>2. payload + RTP_HEADER_SIZE \in Nat
  BY SinkAssumption
<1>3. Packet(p, payload) \in Packets
  BY <1>2 DEF Packet, Packets, TypeOK
<1>4. sent' = Append(sent, Packet(p, payload))
  BY DEF SendRtpPacket, Packet
<1>5. m_seq_' \in 0 .. SeqMod - 1
  <2>1. m_seq_ + 1 \in Nat /\ m_seq_' = (m_seq_ + 1) % SeqMod
    BY <1>1 DEF SendRtpPacket
  <2> QED
    BY <1>1, <2>1, Division
<1> QED
  BY <1>3, <1>4, <1>5, AppendProperties DEF TypeOK

LEMMA TickTypes ==
    ASSUME TypeOK
    PROVE  (m_time_stamp_ + Step) % TimeMod \in 0 .. TimeMod - 1
<1>1. m_time_stamp_ + Step \in Nat /\ TimeMod \in Nat \ {0}
  BY SinkAssumption DEF TypeOK
<1> QED
  BY <1>1, Division

\* A new frame is one of the sizes and kinds of its codec.
LEMMA BeginTypes ==
    ASSUME TypeOK, NEW f \in Frames, Begin(f)
    PROVE  /\ ~sending /\ UNCHANGED codec
           /\ frames' = Append(frames, f) /\ frames' \in Seq(Frames)
           /\ Len(frames') = Len(frames) + 1
           /\ Len(frames) + 1 \in 1 .. MaxFrames
           /\ f.size \in Nat /\ f.kind \in Kinds
           /\ codec = "AAC" => f.size >= AdtsSize
<1>1. frames \in Seq(Frames) /\ Len(frames) \in Nat
  BY LenProperties DEF TypeOK
<1>2. Len(frames) + 1 \in 1 .. MaxFrames
  BY <1>1, SinkAssumption DEF Begin
<1>3. f.size \in FrameSizes[codec] /\ f.kind \in Kinds
  BY DEF Frames
<1>4. FrameSizes[codec] \subseteq Nat
  BY SinkAssumption DEF TypeOK
<1>5. codec = "AAC" => f.size >= AdtsSize
  BY <1>3, SinkAssumption
<1> QED
  BY <1>1, <1>2, <1>3, <1>4, <1>5, AppendProperties DEF Begin

LEMMA HandleSmallKeeps ==
    ASSUME SinkInv, NEW f \in Frames, HandleSmall(f)
    PROVE  SinkInv'
<1> DEFINE P == Packet(Whole(f, 0), f.size)
<1>1. TypeOK
  BY DEF SinkInv
<1>2. /\ codec = "H264" /\ f.size <= RTP_MAX_PKT_SIZE /\ Begin(f)
      /\ SendRtpPacket(Whole(f, 0), f.size)
      /\ m_time_stamp_' = IF f.kind = "parameters" THEN m_time_stamp_
                          ELSE (m_time_stamp_ + Step) % TimeMod
      /\ UNCHANGED <<i, pos, sending>>
  BY DEF HandleSmall, Tick
<1>3. /\ ~sending /\ UNCHANGED codec /\ frames' = Append(frames, f) /\ frames' \in Seq(Frames)
      /\ Len(frames') = Len(frames) + 1 /\ Len(frames) + 1 \in 1 .. MaxFrames
      /\ f.size \in Nat /\ f.kind \in Kinds
  BY <1>1, <1>2, BeginTypes
<1>4. Whole(f, 0) \in Parts
  BY <1>3 DEF Whole, Parts
<1>5. /\ P \in Packets /\ sent' = Append(sent, P) /\ sent' \in Seq(Packets)
      /\ m_seq_' \in 0 .. SeqMod - 1
  BY <1>1, <1>2, <1>3, <1>4, SendRtpPacketTypes
<1>6. TypeOK'
  BY <1>1, <1>2, <1>3, <1>5, TickTypes DEF TypeOK, Frames, Kinds, Packets, Parts
<1>7. ~MustCut(f)
  BY <1>2, <1>3, SinkAssumption DEF MustCut
<1>8. Adds(P, f)
  BY <1>3, <1>5 DEF Adds, Handled, Packet, Whole
<1>9. Continues(P, f) /\ Marked(P, f) /\ Timed(P, f)
  BY <1>2, <1>3, <1>7 DEF Continues, Marked, Timed, Packet, Whole, First
<1>10. Sized(P, f)
  <2>1. P.size = f.size + RTP_HEADER_SIZE
    BY DEF Packet
  <2> QED
    BY <1>2, <1>3, <2>1, SinkAssumption DEF Sized, PrefixSize
<1>11. ~sending'
  BY <1>2, <1>3
<1> HIDE DEF P
<1> QED
  BY <1>5, <1>6, <1>8, <1>9, <1>10, <1>11, PacketKeeps DEF Position

LEMMA HandleAudioKeeps ==
    ASSUME SinkInv, NEW f \in Frames, HandleAudio(f)
    PROVE  SinkInv'
<1> DEFINE p == Whole(f, AdtsSize)
           payload == f.size - AdtsSize + 4
           P == Packet(p, payload)
<1>1. TypeOK
  BY DEF SinkInv
<1>2. /\ codec = "AAC" /\ Begin(f)
      /\ SendRtpPacket(p, payload)
      /\ m_time_stamp_' = (m_time_stamp_ + Step) % TimeMod
      /\ UNCHANGED <<i, pos, sending>>
  BY DEF HandleAudio, Tick
<1>3. /\ ~sending /\ UNCHANGED codec /\ frames' = Append(frames, f) /\ frames' \in Seq(Frames)
      /\ Len(frames') = Len(frames) + 1 /\ Len(frames) + 1 \in 1 .. MaxFrames
      /\ f.size \in Nat /\ f.kind \in Kinds /\ f.size >= AdtsSize
  BY <1>1, <1>2, BeginTypes
<1>4. p \in Parts /\ payload \in Nat
  <2>1. /\ f.size \in Nat /\ f.size >= 7 /\ AdtsSize = 7
    BY <1>3 DEF AdtsSize
  <2>2. payload \in Nat /\ AdtsSize \in Nat
    BY <2>1
  <2>3. p \in Parts
    BY <1>3, <2>2 DEF Whole, Parts
  <2> QED
    BY <2>2, <2>3
<1>5. /\ P \in Packets /\ sent' = Append(sent, P) /\ sent' \in Seq(Packets)
      /\ m_seq_' \in 0 .. SeqMod - 1
  <2> HIDE DEF p, payload
  <2> QED
    BY <1>1, <1>2, <1>4, SendRtpPacketTypes
<1>6. TypeOK'
  BY <1>1, <1>2, <1>3, <1>5, TickTypes DEF TypeOK, Frames, Kinds, Packets, Parts
<1>7. ~MustCut(f) /\ f.kind # "parameters"
  BY <1>2, <1>3 DEF MustCut, Kinds
<1>8. Adds(P, f)
  BY <1>3, <1>5 DEF Adds, Handled, Packet, Whole
<1>9. Continues(P, f) /\ Marked(P, f) /\ Timed(P, f)
  BY <1>2, <1>3, <1>7 DEF Continues, Marked, Timed, Packet, Whole, First
<1>10. Sized(P, f)
  <2>1. P.size = f.size - AdtsSize + 4 + RTP_HEADER_SIZE
    BY DEF Packet
  <2>2. AdtsSize = 7 /\ PrefixSize = 4
    BY DEF AdtsSize, PrefixSize
  <2>3. /\ f.size \in Nat /\ f.size >= 7
        /\ RTP_MAX_PKT_SIZE \in Nat /\ RTP_HEADER_SIZE \in Nat /\ Slack \in Nat
    BY <1>3, <2>2, SinkAssumption
  <2>4. PrefixSize + P.size > RTP_HEADER_SIZE + RTP_MAX_PKT_SIZE + Slack
          <=> f.size >= RTP_MAX_PKT_SIZE + Slack
    <3> HIDE DEF P
    <3> QED
      BY <2>1, <2>2, <2>3
  <2> QED
    BY <1>2, <2>4 DEF Sized
<1>11. ~sending'
  BY <1>2, <1>3
<1> HIDE DEF P
<1> QED
  BY <1>5, <1>6, <1>8, <1>9, <1>10, <1>11, PacketKeeps DEF Position

\* A frame to be cut has no packet yet, so nothing is said of any.
LEMMA HandleLargeKeeps ==
    ASSUME SinkInv, NEW f \in Frames, HandleLarge(f)
    PROVE  SinkInv'
<1>1. TypeOK
  BY DEF SinkInv
<1>2. /\ codec = "H264" /\ f.size > RTP_MAX_PKT_SIZE /\ Begin(f)
      /\ i' = 0 /\ pos' = 1 /\ sending' = TRUE
      /\ UNCHANGED <<sent, m_seq_, m_time_stamp_>>
  BY DEF HandleLarge
<1>3. /\ ~sending /\ codec' = codec /\ frames' = Append(frames, f) /\ frames' \in Seq(Frames)
      /\ Len(frames') = Len(frames) + 1 /\ Len(frames) + 1 \in 1 .. MaxFrames
      /\ f.size \in Nat /\ f.kind \in Kinds
  BY <1>1, <1>2, BeginTypes
<1>4. TypeOK'
  BY <1>1, <1>2, <1>3 DEF TypeOK, Frames, Kinds, Packets, Parts
<1>5. PICK n \in Nat, F \in Nat : n = Len(sent) /\ F = Len(frames)
  BY <1>1, LenProperties DEF TypeOK
<1>6. /\ DOMAIN sent = 1 .. n /\ DOMAIN frames = 1 .. F
      /\ DOMAIN frames' = 1 .. F + 1 /\ Len(frames') = F + 1 /\ frames'[F + 1] = f
      /\ \A m \in 1 .. F : frames'[m] = frames[m]
  BY <1>1, <1>3, <1>5, LenProperties, AppendProperties DEF TypeOK
<1>7. \A m \in 1 .. F : (Cut(m)' <=> Cut(m)) /\ (Holds(m)' <=> Holds(m))
  BY <1>3, <1>6 DEF Cut, Holds
<1>8. Unopened' /\ ~Unopened
  BY <1>2, <1>3 DEF Unopened
<1>9. \A k \in 1 .. n : sent[k].part.frame \in 1 .. F
  BY <1>6 DEF SinkInv, LastFrameSent
<1>10. ASSUME NEW k \in 1 .. n
       PROVE  /\ Opens(k)' <=> Opens(k)
              /\ Closes(k)' <=> Closes(k)
  <2>1. sent[k].part.frame < F + 1
    BY <1>5, <1>9
  <2> QED
    BY <1>2, <1>3, <1>6, <2>1 DEF Opens, Closes, Finished
<1>11. LastFrameSent'
  <2>1. sent' = sent /\ LastSent' = LastSent
    BY <1>2 DEF LastSent
  <2>2. /\ sent = <<>> => Len(frames) = 0
        /\ sent # <<>> => LastSent.part.frame = Len(frames)
    BY <1>8 DEF SinkInv, LastFrameSent
  <2>3. Len(frames') = F + 1 /\ Len(frames') - 1 = F
    BY <1>5, <1>6
  <2>4. \A k \in DOMAIN sent' : sent'[k].part.frame \in DOMAIN frames'
    BY <1>5, <1>6, <1>9, <2>1
  <2> QED
    BY <1>5, <1>8, <2>1, <2>2, <2>3, <2>4 DEF LastFrameSent
<1>12. Position'
  <2>1. Frame' = f /\ frames' # <<>>
    BY <1>5, <1>6, EmptySeq DEF Frame
  <2>2. Cut(F + 1)'
    BY <1>2, <1>3, <1>6 DEF Cut
  <2>3. RTP_MAX_PKT_SIZE \in Nat \ {0} /\ f.size > RTP_MAX_PKT_SIZE /\ f.size \in Nat
    BY <1>2, <1>3, SinkAssumption
  <2>4. pkt_num' \in Nat /\ pkt_num' # 0
    <3>1. f.size \div RTP_MAX_PKT_SIZE \in Nat /\ f.size \div RTP_MAX_PKT_SIZE # 0
      <4>1. f.size >= RTP_MAX_PKT_SIZE
        BY <2>3
      <4> QED
        BY <2>3, <4>1, Division
    <3>2. pkt_num' = f.size \div RTP_MAX_PKT_SIZE
      BY <2>1 DEF pkt_num
    <3> QED
      BY <3>1, <3>2
  <2>5. pos' = 1 + i' * RTP_MAX_PKT_SIZE /\ i' = 0
    BY <1>2, <2>3
  <2> QED
    BY <1>6, <2>1, <2>2, <2>4, <2>5 DEF Position
<1>13. TimeNow'
  <2>1. sent # <<>> => LastSent.part.frame \in 1 .. F
    <3>1. sent # <<>> => n # 0 /\ n \in 1 .. n
      BY <1>1, <1>5, EmptySeq DEF TypeOK
    <3> QED
      BY <1>5, <1>9, <3>1 DEF LastSent
  <2>2. sent' = sent /\ LastSent' = LastSent /\ m_time_stamp_' = m_time_stamp_
    BY <1>2 DEF LastSent
  <2>3. sent # <<>> => (Holds(LastSent.part.frame)' <=> Holds(LastSent.part.frame))
    <3> SUFFICES ASSUME sent # <<>>
                 PROVE  Holds(LastSent.part.frame)' <=> Holds(LastSent.part.frame)
      OBVIOUS
    <3>1. PICK m \in 1 .. F : m = LastSent.part.frame
      BY <2>1
    <3>2. Holds(m)' <=> Holds(m)
      BY <1>7
    <3> QED
      BY <2>2, <3>1, <3>2 DEF Holds, Cut
  <2>4. ~(sending' /\ i' > 0) /\ ~sending
    BY <1>2, <1>3
  <2> QED
    BY <2>2, <2>3, <2>4 DEF TimeNow, SinkInv
<1>14. FrameCovered'
  <2>1. \A m \in 1 .. F + 1 : Finished(m)' => \E k \in 1 .. n : sent[k].part.frame = m
    <3> SUFFICES ASSUME NEW m \in 1 .. F + 1, Finished(m)'
                 PROVE  \E k \in 1 .. n : sent[k].part.frame = m
      OBVIOUS
    <3>1. m < F + 1
      BY <1>2, <1>6 DEF Finished
    <3>2. m \in 1 .. F
      BY <1>5, <3>1
    <3> QED
      BY <1>3, <1>6, <3>2 DEF SinkInv, FrameCovered, Finished
  <2>2. ASSUME NEW k \in 1 .. n
        PROVE  /\ Opens(k)' => sent[k].part.first =
                     IF codec = "AAC" THEN AdtsSize ELSE IF Cut(sent[k].part.frame)' THEN 1 ELSE 0
               /\ Closes(k)' => sent[k].part.last =
                     frames'[sent[k].part.frame].size + (IF Cut(sent[k].part.frame)' THEN 1 ELSE 0)
               /\ k < n =>
                     \/ sent[k + 1].part.frame = sent[k].part.frame + 1
                     \/ /\ sent[k + 1].part.frame = sent[k].part.frame
                        /\ sent[k + 1].part.first = sent[k].part.last
    <3>1. PICK m \in 1 .. F : m = sent[k].part.frame
      BY <1>9
    <3>2. frames'[m] = frames[m] /\ (Cut(m)' <=> Cut(m)) /\ sent' = sent
      BY <1>2, <1>6, <1>7
    <3>3. Cut(sent[k].part.frame)' <=> Cut(m)'
      BY <3>1, <3>2 DEF Cut
    <3> QED
      BY <1>5, <1>6, <1>10, <3>1, <3>2, <3>3 DEF SinkInv, FrameCovered
  <2>3. sent' = sent /\ codec' = codec /\ DOMAIN sent' = 1 .. n /\ Len(sent') = n
    BY <1>2, <1>3, <1>5, <1>6
  <2> QED
    BY <1>6, <2>1, <2>2, <2>3 DEF FrameCovered
<1>15. FragmentsMarked'
  <2>1. ASSUME NEW k \in 1 .. n, Cut(sent[k].part.frame)'
        PROVE  /\ sent[k].part.start <=> Opens(k)'
               /\ sent[k].part.end <=> Closes(k)'
               /\ sent[k].part.kind = frames'[sent[k].part.frame].kind
                    <=> ~(Closes(k)' /\ frames'[sent[k].part.frame].size % RTP_MAX_PKT_SIZE # 0)
    <3>1. PICK m \in 1 .. F : m = sent[k].part.frame
      BY <1>9
    <3>2. frames'[m] = frames[m] /\ (Cut(m)' <=> Cut(m)) /\ sent' = sent
      BY <1>2, <1>6, <1>7
    <3>3. Cut(sent[k].part.frame)
      BY <2>1, <3>1, <3>2 DEF Cut
    <3> QED
      BY <1>6, <1>10, <3>1, <3>2, <3>3 DEF SinkInv, FragmentsMarked
  <2>2. sent' = sent /\ DOMAIN sent' = 1 .. n
    BY <1>2, <1>6
  <2> QED
    BY <2>1, <2>2 DEF FragmentsMarked
<1>16. TimePerFrame'
  <2>1. ASSUME NEW k \in 1 .. n - 1
        PROVE  sent[k + 1].time =
                  IF sent[k + 1].part.frame = sent[k].part.frame \/ Holds(sent[k].part.frame)'
                  THEN sent[k].time ELSE (sent[k].time + Step) % TimeMod
    <3>1. k \in 1 .. n /\ k \in 1 .. Len(sent) - 1
      BY <1>5
    <3>2. PICK m \in 1 .. F : m = sent[k].part.frame
      BY <1>9, <3>1
    <3>3. Holds(sent[k].part.frame)' <=> Holds(sent[k].part.frame)
      BY <1>2, <1>7, <3>2 DEF Holds, Cut
    <3> QED
      BY <3>1, <3>3 DEF SinkInv, TimePerFrame, Holds
  <2>2. sent' = sent /\ Len(sent') - 1 = n - 1
    BY <1>2, <1>5
  <2> QED
    BY <2>1, <2>2 DEF TimePerFrame, Holds
<1>17. FitsAllocation'
  <2>1. \A k \in 1 .. n : frames'[sent[k].part.frame] = frames[sent[k].part.frame]
    BY <1>6, <1>9
  <2> QED
    BY <1>2, <1>3, <1>4, <1>6, <2>1 DEF SinkInv, FitsAllocation
<1>18. Len(frames') <= MaxFrames
  BY <1>3, SinkAssumption
<1> QED
  BY <1>4, <1>11, <1>12, <1>13, <1>14, <1>15, <1>16, <1>17, <1>18 DEF SinkInv

\* What HandleFrame knows of the frame it is cutting.
LEMMA Cutting ==
    ASSUME SinkInv, sending
    PROVE  /\ Frame \in Frames /\ MustCut(Frame)
           /\ Len(frames) \in 1 .. MaxFrames
           /\ Frame.size \in Nat /\ Frame.kind \in Kinds /\ Frame.kind # "none"
           /\ Frame.size > RTP_MAX_PKT_SIZE
           /\ RTP_MAX_PKT_SIZE \in Nat \ {0}
           /\ pkt_num \in Nat /\ pkt_num # 0
           /\ remain_pkt_size \in 0 .. RTP_MAX_PKT_SIZE - 1
           /\ Frame.size = RTP_MAX_PKT_SIZE * pkt_num + remain_pkt_size
<1>1. frames \in Seq(Frames) /\ Len(frames) \in Nat /\ frames # <<>> /\ Cut(Len(frames))
      /\ Len(frames) <= MaxFrames
  BY LenProperties DEF SinkInv, TypeOK, Position
<1>2. Len(frames) # 0
  BY <1>1, EmptySeq
<1>3. Len(frames) \in 1 .. MaxFrames
  BY <1>1, <1>2, SinkAssumption
<1>4. Frame \in Frames
  <2>1. Len(frames) \in 1 .. Len(frames)
    BY <1>1, <1>2
  <2> QED
    BY <1>1, <2>1 DEF Frame
<1>5. MustCut(Frame)
  BY <1>1 DEF Cut, MustCut, Frame
<1>6. Frame.size \in Nat /\ Frame.kind \in Kinds
  <2>1. Frame.size \in FrameSizes[codec] /\ Frame.kind \in Kinds
    BY <1>4 DEF Frames
  <2>2. FrameSizes[codec] \subseteq Nat
    BY SinkAssumption DEF SinkInv, TypeOK
  <2> QED
    BY <2>1, <2>2
<1>7. Frame.kind # "none"
  BY <1>6 DEF Kinds
<1>8. RTP_MAX_PKT_SIZE \in Nat \ {0} /\ Frame.size > RTP_MAX_PKT_SIZE
  BY <1>5, SinkAssumption DEF MustCut
<1>9. Frame.size >= RTP_MAX_PKT_SIZE
  BY <1>6, <1>8
<1>10. /\ pkt_num \in Nat /\ pkt_num # 0
       /\ remain_pkt_size \in 0 .. RTP_MAX_PKT_SIZE - 1
       /\ Frame.size = RTP_MAX_PKT_SIZE * pkt_num + remain_pkt_size
  BY <1>6, <1>8, <1>9, Division DEF pkt_num, remain_pkt_size
<1> QED
  BY <1>3, <1>4, <1>5, <1>6, <1>7, <1>8, <1>10

\* Full fragments reach a frame's end, and one byte more, exactly when nothing
\* remains; and then there are two of them at least.
LEMMA FullFragments ==
    ASSUME NEW S \in Nat, NEW M \in Nat \ {0}, NEW q \in Nat, NEW r \in 0 .. M - 1,
           NEW j \in Nat, S = M * q + r, S > M, j < q
    PROVE  /\ 1 + j * M \in Nat /\ 1 + j * M + M \in Nat
           /\ 1 + j * M + M = 1 + (j + 1) * M
           /\ (j + 1 = q /\ r = 0) => (1 + j * M + M = S + 1 /\ j > 0)
<1>1. j * M \in Nat
  OBVIOUS
<1>2. (j + 1) * M = j * M + M
  OBVIOUS
<1>3. ASSUME j + 1 = q, r = 0 PROVE S = j * M + M /\ j > 0
  <2>1. S = M * (j + 1)
    BY <1>3
  <2>2. M * (j + 1) = j * M + M
    OBVIOUS
  <2>3. j = 0 => j * M = 0
    OBVIOUS
  <2> QED
    BY <1>1, <2>1, <2>2, <2>3
<1> QED
  BY <1>1, <1>2, <1>3

\* A fragment of the frame being cut, of no more bytes than a packet holds.
LEMMA FragmentKeeps ==
    ASSUME SinkInv, sending, NEW len \in 0 .. RTP_MAX_PKT_SIZE,
           NEW start \in BOOLEAN, NEW end \in BOOLEAN, NEW kind \in Kinds \cup {"none"},
           NEW done \in BOOLEAN,
           Fragment(len, start, end, kind), EndFrame(done), UNCHANGED <<codec, frames>>,
           i' \in Nat, pos' \in Nat,
           start <=> i = 0, end <=> done,
           kind = Frame.kind <=> ~(done /\ remain_pkt_size # 0),
           done => pos + len = Frame.size + 1,
           ~done => /\ i' \in 1 .. pkt_num
                    /\ i' = pkt_num => remain_pkt_size # 0
                    /\ pos' = 1 + i' * RTP_MAX_PKT_SIZE
                    /\ pos' = pos + len
    PROVE  SinkInv'
<1> DEFINE p == [frame |-> Len(frames), fragment |-> TRUE, start |-> start, end |-> end,
                 kind |-> kind, first |-> pos, last |-> pos + len]
           P == Packet(p, len + 2)
<1>1. TypeOK /\ codec' = codec /\ frames' = frames /\ (sending' <=> ~done)
  BY DEF SinkInv, EndFrame
<1>2. /\ Frame \in Frames /\ MustCut(Frame) /\ Len(frames) \in 1 .. MaxFrames
      /\ Frame.size \in Nat /\ RTP_MAX_PKT_SIZE \in Nat \ {0} /\ pkt_num \in Nat
  BY Cutting
<1>3. len \in Nat /\ len + 2 \in Nat /\ pos \in Nat /\ pos + len \in Nat /\ i \in Nat
  BY <1>1, <1>2 DEF TypeOK
<1>4. p \in Parts
  BY <1>2, <1>3 DEF Parts
<1>5. SendRtpPacket(p, len + 2)
  BY DEF Fragment
<1>6. /\ P \in Packets /\ sent' = Append(sent, P) /\ sent' \in Seq(Packets)
      /\ m_seq_' \in 0 .. SeqMod - 1
  <2> HIDE DEF p
  <2> QED
    BY <1>1, <1>3, <1>4, <1>5, SendRtpPacketTypes
<1>7. TypeOK'
  <2>1. m_time_stamp_' \in 0 .. TimeMod - 1
    BY <1>1, TickTypes DEF EndFrame, Tick, TypeOK
  <2>2. sending' \in BOOLEAN
    BY <1>1 DEF EndFrame
  <2> QED
    BY <1>1, <1>6, <2>1, <2>2 DEF TypeOK, Frames, Kinds, Packets, Parts
<1>8. P.part = p /\ P.time = m_time_stamp_ /\ P.size = len + 2 + RTP_HEADER_SIZE
  BY DEF Packet
<1>9. /\ P.part.frame = Len(frames) /\ P.part.start = start /\ P.part.end = end
      /\ P.part.kind = kind /\ P.part.first = pos /\ P.part.last = pos + len
  BY <1>8
<1> HIDE DEF P, p
<1>10. Adds(P, Frame)
  BY <1>1, <1>6, <1>9 DEF Adds, Handled
<1>11. codec = "H264" /\ (First <=> i = 0)
  BY <1>2 DEF MustCut, First
<1>12. Continues(P, Frame)
  <2>1. i = 0 => pos = 1
    <3>1. pos = 1 + i * RTP_MAX_PKT_SIZE
      BY DEF SinkInv, Position
    <3> QED
      BY <1>2, <3>1
  <2> QED
    BY <1>1, <1>2, <1>9, <1>11, <2>1 DEF Continues
<1>13. Marked(P, Frame)
  BY <1>1, <1>9, <1>11 DEF Marked, remain_pkt_size
<1>14. Timed(P, Frame)
  BY <1>1, <1>2, <1>8 DEF Timed, EndFrame, Tick
<1>15. Sized(P, Frame)
  <2>1. /\ RTP_HEADER_SIZE \in Nat /\ Slack \in Nat /\ Slack >= 4 + 2 /\ PrefixSize = 4
        /\ len <= RTP_MAX_PKT_SIZE
    BY <1>2, SinkAssumption DEF PrefixSize
  <2>2. ~(4 + (len + 2 + RTP_HEADER_SIZE) > RTP_HEADER_SIZE + RTP_MAX_PKT_SIZE + Slack)
    BY <1>2, <1>3, <2>1
  <2> QED
    BY <1>8, <1>11, <2>1, <2>2 DEF Sized
<1>16. Position'
  <2>1. Frame' = Frame /\ pkt_num' = pkt_num /\ remain_pkt_size' = remain_pkt_size
        /\ frames' # <<>>
    BY <1>1 DEF Frame, pkt_num, remain_pkt_size, SinkInv, Position
  <2>2. Cut(Len(frames))'
    BY <1>1 DEF Cut, SinkInv, Position
  <2>3. LastSent' = P
    BY <1>1, <1>6, AppendProperties, LenProperties DEF LastSent, TypeOK
  <2>4. ~done => i' \in 0 .. pkt_num
    BY <1>2
  <2> QED
    BY <1>1, <1>9, <2>1, <2>2, <2>3, <2>4 DEF Position
<1>17. sending' => i' > 0
  BY <1>1, <1>2
<1> QED
  BY <1>2, <1>6, <1>7, <1>10, <1>12, <1>13, <1>14, <1>15, <1>16, <1>17, PacketKeeps

LEMMA SendFragmentKeeps ==
    ASSUME SinkInv, SendFragment
    PROVE  SinkInv'
<1> DEFINE M == RTP_MAX_PKT_SIZE
           start == i = 0
           end == i > 0 /\ remain_pkt_size = 0 /\ i = pkt_num - 1
           done == i' = pkt_num /\ remain_pkt_size = 0
<1>1. /\ sending /\ i < pkt_num /\ i' = i + 1 /\ pos' = pos + M
      /\ Fragment(M, start, end, Frame.kind) /\ EndFrame(done) /\ UNCHANGED <<codec, frames>>
  BY DEF SendFragment
<1>2. /\ Frame.size \in Nat /\ Frame.kind \in Kinds /\ Frame.size > M /\ M \in Nat \ {0}
      /\ pkt_num \in Nat /\ remain_pkt_size \in 0 .. M - 1
      /\ Frame.size = M * pkt_num + remain_pkt_size
  BY <1>1, Cutting
<1>3. i \in Nat /\ pos = 1 + i * M
  BY <1>1 DEF SinkInv, TypeOK, Position
<1>4. /\ pos \in Nat /\ pos + M \in Nat
      /\ pos + M = 1 + (i + 1) * M
      /\ (i + 1 = pkt_num /\ remain_pkt_size = 0) => (pos + M = Frame.size + 1 /\ i > 0)
  BY <1>1, <1>2, <1>3, FullFragments
<1>5. i' \in Nat /\ pos' \in Nat /\ M \in 0 .. M
  BY <1>1, <1>2, <1>3, <1>4
<1>6. end <=> done
  BY <1>1, <1>2, <1>3, <1>4
<1>7. Frame.kind = Frame.kind <=> ~(done /\ remain_pkt_size # 0)
  OBVIOUS
<1>8. done => pos + M = Frame.size + 1
  BY <1>1, <1>4
<1>9. ~done => /\ i' \in 1 .. pkt_num
               /\ i' = pkt_num => remain_pkt_size # 0
               /\ pos' = 1 + i' * M
               /\ pos' = pos + M
  BY <1>1, <1>2, <1>3, <1>4
<1>10. /\ start \in BOOLEAN /\ end \in BOOLEAN /\ done \in BOOLEAN
       /\ Frame.kind \in Kinds \cup {"none"}
  BY <1>2
<1>11. start <=> i = 0
  OBVIOUS
<1> HIDE DEF start, end, done
<1> QED
  BY <1>1, <1>5, <1>6, <1>7, <1>8, <1>9, <1>10, <1>11, FragmentKeeps

LEMMA SendRemainderKeeps ==
    ASSUME SinkInv, SendRemainder
    PROVE  SinkInv'
<1> DEFINE M == RTP_MAX_PKT_SIZE
           r == remain_pkt_size
<1>1. /\ sending /\ i = pkt_num /\ UNCHANGED <<codec, frames, i, pos>>
      /\ Fragment(r, FALSE, TRUE, "none") /\ EndFrame(TRUE)
  BY DEF SendRemainder
<1>2. /\ Frame.size \in Nat /\ Frame.kind # "none" /\ M \in Nat \ {0}
      /\ pkt_num \in Nat /\ pkt_num # 0 /\ r \in 0 .. M - 1
      /\ Frame.size = M * pkt_num + r
  BY <1>1, Cutting
<1>3. i \in Nat /\ pos \in Nat /\ pos = 1 + i * M /\ r # 0
  BY <1>1 DEF SinkInv, TypeOK, Position
<1>4. pos + r = Frame.size + 1
  <2>1. M * pkt_num \in Nat /\ pos = 1 + M * pkt_num
    BY <1>1, <1>2, <1>3
  <2> QED
    BY <1>2, <2>1
<1>5. r \in 0 .. M
  BY <1>2
<1>6. i' \in Nat /\ pos' \in Nat /\ i # 0
  BY <1>1, <1>2, <1>3
<1>7. /\ FALSE \in BOOLEAN /\ TRUE \in BOOLEAN /\ "none" \in Kinds \cup {"none"}
      /\ FALSE <=> i = 0
      /\ "none" = Frame.kind <=> ~(TRUE /\ r # 0)
  BY <1>2, <1>3, <1>6
<1> QED
  BY <1>1, <1>4, <1>5, <1>6, <1>7, FragmentKeeps

LEMMA InitSinkInv == SinkInit => SinkInv
<1> SUFFICES ASSUME SinkInit PROVE SinkInv
  OBVIOUS
<1>1. /\ frames = <<>> /\ sent = <<>> /\ Len(frames) = 0 /\ Len(sent) = 0
      /\ DOMAIN sent = {} /\ DOMAIN frames = {} /\ sending = FALSE
  BY DEF SinkInit
<1>2. TypeOK
  <2>1. 0 \in 0 .. SeqMod - 1 /\ 0 \in 0 .. TimeMod - 1
    BY SinkAssumption
  <2>2. frames \in Seq(Frames) /\ sent \in Seq(Packets)
    BY <1>1, EmptySeq
  <2> QED
    BY <1>1, <2>1, <2>2 DEF SinkInit, TypeOK
<1>3. Len(frames) <= MaxFrames
  BY <1>1, SinkAssumption
<1>4. LastFrameSent /\ Position /\ TimeNow
  BY <1>1 DEF LastFrameSent, Position, TimeNow, Unopened
<1>5. FrameCovered /\ FragmentsMarked /\ TimePerFrame /\ FitsAllocation
  BY <1>1, <1>2 DEF FrameCovered, FragmentsMarked, TimePerFrame, FitsAllocation
<1> QED
  BY <1>2, <1>3, <1>4, <1>5 DEF SinkInv

\* The clients and their sockets do not touch the sink.
LEMMA OutsideSink ==
    ASSUME SinkInv, UNCHANGED sinkVars
    PROVE  SinkInv'
  BY DEF SinkInv, sinkVars, TypeOK, LastFrameSent, Position, TimeNow, FrameCovered,
         FragmentsMarked, TimePerFrame, FitsAllocation, Unopened, LastSent, Holds, Cut,
         Finished, Opens, Closes, pkt_num, remain_pkt_size, Frame, Frames, Kinds, Packets, Parts

LEMMA StepSinkInv == SinkInv /\ [Next]_vars => SinkInv'
<1> SUFFICES ASSUME SinkInv, [Next]_vars PROVE SinkInv'
  OBVIOUS
<1>1. ASSUME NEW f \in Frames, HandleSmall(f) PROVE SinkInv'
  BY <1>1, HandleSmallKeeps
<1>2. ASSUME NEW f \in Frames, HandleLarge(f) PROVE SinkInv'
  BY <1>2, HandleLargeKeeps
<1>3. ASSUME NEW f \in Frames, HandleAudio(f) PROVE SinkInv'
  BY <1>3, HandleAudioKeeps
<1>4. CASE SendFragment
  BY <1>4, SendFragmentKeeps
<1>5. CASE SendRemainder
  BY <1>5, SendRemainderKeeps
<1>6. ASSUME NEW c \in Clients, HandleCmdPlay(c) \/ HandleCmdOption(c) PROVE SinkInv'
  BY <1>6, OutsideSink DEF HandleCmdPlay, HandleCmdOption
<1>7. CASE UNCHANGED vars
  BY <1>7, OutsideSink DEF vars
<1> QED
  BY <1>1, <1>2, <1>3, <1>4, <1>5, <1>6, <1>7 DEF Next, SinkStep, SinkNext

LEMMA SinkInvariant == Spec => []SinkInv
<1>1. Init => SinkInv
  BY InitSinkInv DEF Init
<1> QED
  BY <1>1, StepSinkInv, PTL DEF Spec

\* No byte of a frame is left out, repeated or sent out of order, and no frame is
\* overtaken by the next, however the frame is cut; but a cut frame's last packet
\* carries one byte from behind it.
THEOREM FrameCoveredAlways == Spec => []FrameCovered
  BY SinkInvariant, PTL DEF SinkInv

\* The start and end marks are on exactly the first and the last fragment of a cut
\* frame, for every size of it; the type is lost in a last fragment that is short.
THEOREM FragmentsMarkedAlways == Spec => []FragmentsMarked
  BY SinkInvariant, PTL DEF SinkInv

\* The packets of a frame share one time, modulo 2^32 whatever the step.
THEOREM TimePerFrameAlways == Spec => []TimePerFrame
  BY SinkInvariant, PTL DEF SinkInv

\* Only an audio frame as large as the allocation can run over the memory of its
\* packet, and then it does.
THEOREM FitsAllocationAlways == Spec => []FitsAllocation
  BY SinkInvariant, PTL DEF SinkInv

-----------------------------------------------------------------------------
(* The streams of the clients *)

\* A non-empty set of numbers with a bound has a greatest one.
LEMMA GreatestExists ==
    ASSUME NEW n \in Nat, NEW S \in SUBSET (1 .. n), S # {}
    PROVE  \E k \in S : \A j \in S : j <= k
<1> DEFINE R == OpToRel(<, Nat)
           T == {n - k : k \in S}
<1>1. T \in SUBSET Nat /\ T # {}
  <2>1. \A k \in S : n - k \in Nat
    OBVIOUS
  <2> QED
    BY <2>1
<1>2. IsWellFoundedOn(R, Nat)
  BY NatLessThanWellFounded
<1>3. \A a, b \in Nat : a < b => <<a, b>> \in R
  BY DEF OpToRel
<1> HIDE DEF R
<1>4. PICK t \in T : \A u \in T : ~(<<u, t>> \in R)
  <2> HIDE DEF T
  <2> QED
    BY <1>1, <1>2, WFMin
<1>5. \A u \in T : ~(u < t)
  <2> HIDE DEF T
  <2> QED
    BY <1>1, <1>3, <1>4
<1>6. PICK k \in S : t = n - k
  OBVIOUS
<1>7. \A j \in S : j <= k
  <2> SUFFICES ASSUME NEW j \in S PROVE j <= k
    OBVIOUS
  <2>1. ~(n - j < n - k)
    BY <1>5, <1>6
  <2> QED
    BY <2>1, j \in 1 .. n, k \in 1 .. n
<1> QED
  BY <1>7

-----------------------------------------------------------------------------
(* What a client reads *)

Symbols == [symbol : {"$"}, of : Clients]
           \cup [symbol : {"size", "data", "answer"}, of : Nat]

\* The places K of a stream where something begins: everything that begins before
\* the place p is whole and followed by another of them.
Path(c, s, K, p) ==
    /\ K \subseteq 1 .. Len(s) + 1
    /\ 1 \in K /\ p \in K
    /\ \A k \in K \ {p} : k <= Len(s) /\ WholePiece(c, s, k) /\ PieceEnd(s, k) + 1 \in K

LEMMA PieceEndType ==
    ASSUME NEW s \in Seq(Symbols), NEW k \in 1 .. Len(s)
    PROVE  PieceEnd(s, k) \in Nat /\ PieceEnd(s, k) > k
<1>1. Len(s) \in Nat
  BY LenProperties
<1>2. k < Len(s) /\ s[k + 1].symbol = "size" => s[k + 1].of \in Nat
  <2>1. k < Len(s) => k + 1 \in 1 .. Len(s)
    BY <1>1
  <2>2. k < Len(s) => s[k + 1] \in Symbols
    BY <2>1, ElementOfSeq
  <2> QED
    BY <2>2 DEF Symbols
<1> QED
  BY <1>1, <1>2 DEF PieceEnd

\* How a client reads on from a place is how it reads on from the next one, and
\* so there is a function that says so of every place.
Reads(c, s, f) ==
    f = [k \in 1 .. Len(s) + 1 |->
            k <= Len(s) => WholePiece(c, s, k) /\ f[PieceEnd(s, k) + 1]]

LEMMA ReadsExists ==
    ASSUME NEW c, NEW s \in Seq(Symbols)
    PROVE  \E f : Reads(c, s, f)
<1> DEFINE L == Len(s)
           Closed(K) == \A j \in K : j <= L => WholePiece(c, s, j) /\ PieceEnd(s, j) + 1 \in K
           g == [k \in 1 .. L + 1 |-> \E K \in SUBSET (1 .. L + 1) : k \in K /\ Closed(K)]
<1>1. L \in Nat
  BY LenProperties
<1>2. ASSUME NEW k \in 1 .. L + 1
      PROVE  g[k] <=> (k <= L => WholePiece(c, s, k) /\ g[PieceEnd(s, k) + 1])
  <2>1. CASE k > L
    <3>1. k = L + 1
      BY <1>1, <2>1
    <3>2. Closed({k})
      BY <1>1, <2>1
    <3>3. {k} \in SUBSET (1 .. L + 1) /\ k \in {k}
      OBVIOUS
    <3>4. g[k]
      BY <3>2, <3>3
    <3> QED
      BY <1>1, <2>1, <3>4
  <2>2. CASE k <= L
    <3> DEFINE n == PieceEnd(s, k) + 1
    <3>1. k \in 1 .. L
      BY <1>1, <2>2
    <3>2. WholePiece(c, s, k) => n \in 1 .. L + 1
      <4>1. PieceEnd(s, k) \in Nat /\ PieceEnd(s, k) > k
        BY <3>1, PieceEndType
      <4> QED
        BY <1>1, <3>1, <4>1 DEF WholePiece
    <3>3. ASSUME g[k] PROVE WholePiece(c, s, k) /\ g[n]
      <4>1. PICK K \in SUBSET (1 .. L + 1) : k \in K /\ Closed(K)
        BY <3>3
      <4>2. WholePiece(c, s, k) /\ n \in K
        BY <2>2, <4>1
      <4> QED
        BY <4>1, <4>2
    <3>4. ASSUME WholePiece(c, s, k), g[n] PROVE g[k]
      <4>0. n \in 1 .. L + 1
        BY <3>2, <3>4
      <4>1. PICK K \in SUBSET (1 .. L + 1) : n \in K /\ Closed(K)
        BY <3>4, <4>0
      <4>2. Closed(K \cup {k})
        BY <3>4, <4>1
      <4>3. K \cup {k} \in SUBSET (1 .. L + 1) /\ k \in K \cup {k}
        OBVIOUS
      <4> QED
        BY <4>2, <4>3
    <3> QED
      BY <2>2, <3>3, <3>4
  <2> QED
    BY <1>1, <2>1, <2>2
<1>3. Reads(c, s, g)
  <2>1. g = [k \in 1 .. L + 1 |-> g[k]]
    OBVIOUS
  <2>2. \A k \in 1 .. L + 1 :
           g[k] = (k <= L => WholePiece(c, s, k) /\ g[PieceEnd(s, k) + 1])
    <3> SUFFICES ASSUME NEW k \in 1 .. L + 1
                 PROVE  g[k] = (k <= L => WholePiece(c, s, k) /\ g[PieceEnd(s, k) + 1])
      OBVIOUS
    <3>1. g[k] \in BOOLEAN
      OBVIOUS
    <3> HIDE DEF g
    <3> QED
      BY <1>2, <3>1
  <2> HIDE DEF g
  <2> QED
    BY <2>1, <2>2 DEF Reads
<1> QED
  BY <1>3

\* A client can read all of its stream exactly if it can from the end of a path.
LEMMA ReadsAlong ==
    ASSUME NEW c, NEW s \in Seq(Symbols), NEW f, Reads(c, s, f),
           NEW K, NEW p, Path(c, s, K, p)
    PROVE  f[1] <=> (p <= Len(s) => WholePiece(c, s, p) /\ f[PieceEnd(s, p) + 1])
<1>1. Len(s) \in Nat
  BY LenProperties
<1>2. \A k \in 1 .. Len(s) + 1 :
         f[k] = (k <= Len(s) => WholePiece(c, s, k) /\ f[PieceEnd(s, k) + 1])
  BY DEF Reads
<1>3. \A k \in 1 .. Len(s) + 1 : f[k] \in BOOLEAN
  BY <1>2
<1> DEFINE X == {k \in K : f[k] # f[p]}
<1>4. X = {}
  <2> SUFFICES ASSUME X # {} PROVE FALSE
    OBVIOUS
  <2>1. X \in SUBSET (1 .. Len(s) + 1)
    BY DEF Path
  <2>2. PICK m \in X : \A j \in X : j <= m
    BY <1>1, <2>1, GreatestExists, Len(s) + 1 \in Nat
  <2>3. m \in K \ {p} /\ m \in 1 .. Len(s)
    BY <1>1 DEF Path
  <2>4. WholePiece(c, s, m) /\ PieceEnd(s, m) + 1 \in K
    BY <2>3 DEF Path
  <2>5. PieceEnd(s, m) \in Nat /\ PieceEnd(s, m) > m
    BY <2>3, PieceEndType
  <2>6. PieceEnd(s, m) + 1 \notin X
    BY <2>2, <2>3, <2>5
  <2>7. f[PieceEnd(s, m) + 1] = f[p]
    BY <2>4, <2>6
  <2>8. f[m] = f[PieceEnd(s, m) + 1]
    <3>1. PieceEnd(s, m) + 1 \in 1 .. Len(s) + 1
      BY <2>4 DEF Path
    <3>2. f[m] = (WholePiece(c, s, m) /\ f[PieceEnd(s, m) + 1])
      BY <1>2, <2>3
    <3> QED
      BY <1>3, <2>4, <3>1, <3>2
  <2> QED
    BY <2>7, <2>8
<1>5. f[1] = f[p]
  BY <1>4 DEF Path
<1>6. p \in 1 .. Len(s) + 1
  BY DEF Path
<1> QED
  BY <1>2, <1>3, <1>5, <1>6

LEMMA ParsesAlong ==
    ASSUME NEW c, stream[c] \in Seq(Symbols), NEW K, NEW p, Path(c, stream[c], K, p)
    PROVE  /\ p = Len(stream[c]) + 1 => Parses(c)
           /\ p <= Len(stream[c]) /\ ~WholePiece(c, stream[c], p) => ~Parses(c)
<1> DEFINE s == stream[c]
           f == CHOOSE ok : ok = [k \in 1 .. Len(s) + 1 |->
                   k <= Len(s) => WholePiece(c, s, k) /\ ok[PieceEnd(s, k) + 1]]
<1>1. Parses(c) = f[1]
  BY DEF Parses
<1>2. Reads(c, s, f)
  <2>1. \E ok : Reads(c, s, ok)
    BY ReadsExists
  <2> QED
    BY <2>1 DEF Reads
<1> HIDE DEF f
<1>3. f[1] <=> (p <= Len(s) => WholePiece(c, s, p) /\ f[PieceEnd(s, p) + 1])
  BY <1>2, ReadsAlong
<1>4. Len(s) \in Nat
  BY LenProperties
<1> QED
  BY <1>1, <1>3, <1>4

-----------------------------------------------------------------------------
(* What a write adds *)

\* What begins at place p is not there and never will be: a place the symbols
\* before it speak for holds something else or is the next to be written.
Broken(s, p) ==
    /\ p \in 1 .. Len(s)
    /\ \/ /\ s[p].symbol = "answer"
          /\ p < Len(s) => s[p + 1] # Answer[2]
       \/ /\ s[p].symbol = "$"
          /\ p < Len(s) => s[p + 1].symbol # "size"
       \/ /\ s[p].symbol = "$"
          /\ p < Len(s) /\ s[p + 1].symbol = "size"
          /\ \E j \in p + 2 .. p + 1 + s[p + 1].of : j <= Len(s) => s[j].symbol # "data"

\* Every write begins with one of these.
Starts(c) == {Answer[1], DollarSign(c)}

LEMMA SymbolAt ==
    ASSUME NEW s \in Seq(Symbols), NEW k \in 1 .. Len(s)
    PROVE  /\ s[k] \in Symbols
           /\ s[k].symbol = "size" => s[k].of \in Nat
<1>1. s[k] \in Symbols
  BY ElementOfSeq
<1> QED
  BY <1>1 DEF Symbols

LEMMA BrokenNotWhole ==
    ASSUME NEW c, NEW s \in Seq(Symbols), NEW p, Broken(s, p)
    PROVE  ~WholePiece(c, s, p)
<1>1. Len(s) \in Nat /\ p \in 1 .. Len(s)
  BY LenProperties DEF Broken
<1>2. p < Len(s) => p + 1 \in 1 .. Len(s)
  BY <1>1
<1>3. CASE s[p].symbol = "answer" /\ (p < Len(s) => s[p + 1] # Answer[2])
  BY <1>1, <1>3 DEF WholePiece, PieceEnd
<1>4. CASE s[p].symbol = "$" /\ (p < Len(s) => s[p + 1].symbol # "size")
  BY <1>1, <1>4 DEF WholePiece, PieceEnd
<1>5. CASE /\ s[p].symbol = "$" /\ p < Len(s) /\ s[p + 1].symbol = "size"
           /\ \E j \in p + 2 .. p + 1 + s[p + 1].of : j <= Len(s) => s[j].symbol # "data"
  <2>1. PieceEnd(s, p) = p + 1 + s[p + 1].of /\ s[p + 1].of \in Nat
    BY <1>2, <1>5, SymbolAt DEF PieceEnd
  <2>2. PICK j \in p + 2 .. p + 1 + s[p + 1].of : j <= Len(s) => s[j].symbol # "data"
    BY <1>5
  <2>3. SUFFICES ASSUME WholePiece(c, s, p) PROVE FALSE
    OBVIOUS
  <2>4. /\ p + 1 + s[p + 1].of <= Len(s)
        /\ \A k \in p + 2 .. p + 1 + s[p + 1].of : s[k].symbol = "data"
    BY <1>5, <2>1, <2>3 DEF WholePiece
  <2>5. j <= Len(s)
    BY <1>1, <2>1, <2>4
  <2> QED
    BY <2>2, <2>4, <2>5
<1> QED
  BY <1>3, <1>4, <1>5 DEF Broken

\* A stream and what a write appends to it.
LEMMA Appended ==
    ASSUME NEW s \in Seq(Symbols), NEW u \in Seq(Symbols)
    PROVE  /\ s \o u \in Seq(Symbols)
           /\ Len(s) \in Nat /\ Len(u) \in Nat /\ Len(s \o u) = Len(s) + Len(u)
           /\ \A k \in 1 .. Len(s) : (s \o u)[k] = s[k]
           /\ \A k \in 1 .. Len(u) : (s \o u)[Len(s) + k] = u[k]
<1>1. /\ s \o u \in Seq(Symbols) /\ Len(s) \in Nat /\ Len(u) \in Nat
      /\ Len(s \o u) = Len(s) + Len(u)
      /\ \A k \in 1 .. Len(s) + Len(u) :
            (s \o u)[k] = IF k <= Len(s) THEN s[k] ELSE u[k - Len(s)]
  BY ConcatProperties, LenProperties
<1>2. ASSUME NEW k \in 1 .. Len(s) PROVE (s \o u)[k] = s[k]
  <2>1. k \in 1 .. Len(s) + Len(u) /\ k <= Len(s)
    BY <1>1
  <2> QED
    BY <1>1, <2>1
<1>3. ASSUME NEW k \in 1 .. Len(u) PROVE (s \o u)[Len(s) + k] = u[k]
  <2>1. Len(s) + k \in 1 .. Len(s) + Len(u) /\ ~(Len(s) + k <= Len(s))
        /\ Len(s) + k - Len(s) = k
    BY <1>1
  <2> QED
    BY <1>1, <2>1
<1> QED
  BY <1>1, <1>2, <1>3

LEMMA PathKept ==
    ASSUME NEW c, NEW s \in Seq(Symbols), NEW u \in Seq(Symbols), NEW K, NEW p,
           Path(c, s, K, p)
    PROVE  Path(c, s \o u, K, p)
<1> DEFINE t == s \o u
<1>1. /\ t \in Seq(Symbols) /\ Len(s) \in Nat /\ Len(u) \in Nat /\ Len(t) = Len(s) + Len(u)
      /\ \A k \in 1 .. Len(s) : t[k] = s[k]
  BY Appended
<1> HIDE DEF t
<1>2. K \subseteq 1 .. Len(t) + 1
  BY <1>1 DEF Path
<1>3. ASSUME NEW k \in K \ {p}
      PROVE  k <= Len(t) /\ WholePiece(c, t, k) /\ PieceEnd(t, k) + 1 \in K
  <2>1. k \in 1 .. Len(s) /\ WholePiece(c, s, k) /\ PieceEnd(s, k) + 1 \in K
    BY <1>1 DEF Path
  <2>2. PieceEnd(s, k) \in Nat /\ PieceEnd(s, k) > k /\ PieceEnd(s, k) <= Len(s)
    BY <2>1, PieceEndType DEF WholePiece
  <2>3. k < Len(s) /\ k + 1 \in 1 .. Len(s) /\ k < Len(t)
    BY <1>1, <2>1, <2>2
  <2>4. t[k] = s[k] /\ t[k + 1] = s[k + 1]
    BY <1>1, <2>1, <2>3
  <2>5. PieceEnd(t, k) = PieceEnd(s, k)
    <3>1. s[k].symbol = "answer" \/ s[k + 1].symbol = "size"
      BY <2>2, <2>3, <1>1 DEF PieceEnd
    <3> QED
      BY <2>3, <2>4, <3>1 DEF PieceEnd
  <2>6. ASSUME NEW j \in k + 2 .. PieceEnd(s, k) PROVE t[j] = s[j]
    <3>1. j \in 1 .. Len(s)
      BY <1>1, <2>1, <2>2
    <3> QED
      BY <1>1, <3>1
  <2>7. WholePiece(c, t, k)
    <3>1. PieceEnd(t, k) <= Len(t)
      BY <1>1, <2>2, <2>5
    <3> QED
      BY <2>1, <2>4, <2>5, <2>6, <3>1 DEF WholePiece
  <2> QED
    BY <1>1, <2>1, <2>5, <2>7
<1> QED
  BY <1>2, <1>3 DEF Path, t

\* A piece that is whole is followed by the next one.
LEMMA PathGrows ==
    ASSUME NEW c, NEW s \in Seq(Symbols), NEW K, NEW p,
           Path(c, s, K, p), p <= Len(s), WholePiece(c, s, p), PieceEnd(s, p) = Len(s)
    PROVE  Path(c, s, K \cup {Len(s) + 1}, Len(s) + 1)
<1>1. PICK q \in Nat : q = Len(s) + 1 /\ Len(s) \in Nat
  BY LenProperties
<1>2. ASSUME NEW k \in (K \cup {q}) \ {q}
      PROVE  k <= Len(s) /\ WholePiece(c, s, k) /\ PieceEnd(s, k) + 1 \in K \cup {q}
  <2>1. CASE k = p
    BY <1>1, <2>1
  <2>2. CASE k # p
    BY <2>2 DEF Path
  <2> QED
    BY <2>1, <2>2
<1>3. K \cup {q} \subseteq 1 .. Len(s) + 1 /\ 1 \in K
  <2>1. K \subseteq 1 .. Len(s) + 1 /\ 1 \in K
    BY DEF Path
  <2>2. q \in 1 .. Len(s) + 1
    BY <1>1
  <2> QED
    BY <2>1, <2>2
<1>4. Path(c, s, K \cup {q}, q)
  BY <1>2, <1>3 DEF Path
<1> QED
  BY <1>1, <1>4

LEMMA BrokenKept ==
    ASSUME NEW c, NEW s \in Seq(Symbols), NEW u \in Seq(Symbols), NEW p,
           Broken(s, p), Len(u) > 0 => u[1] \in Starts(c)
    PROVE  Broken(s \o u, p)
<1> DEFINE t == s \o u
           n == Len(s)
<1>1. /\ n \in Nat /\ Len(u) \in Nat /\ Len(t) = n + Len(u)
      /\ \A k \in 1 .. n : t[k] = s[k]
      /\ \A k \in 1 .. Len(u) : t[n + k] = u[k]
  BY Appended
<1> HIDE DEF t, n
<1>2. p \in 1 .. n /\ p \in 1 .. Len(t) /\ t[p] = s[p]
  BY <1>1 DEF Broken, n
<1>3. p < n => p + 1 \in 1 .. n /\ t[p + 1] = s[p + 1]
  BY <1>1, <1>2
\* The first symbol behind the stream as it was.
<1>4. n < Len(t) => t[n + 1] \in Starts(c)
  <2>1. n < Len(t) => 1 \in 1 .. Len(u)
    BY <1>1
  <2> QED
    BY <1>1, <2>1
<1>5. n < Len(t) => /\ t[n + 1] # Answer[2]
                    /\ t[n + 1].symbol # "size" /\ t[n + 1].symbol # "data"
  BY <1>4 DEF Starts, Answer, DollarSign
<1>6. CASE s[p].symbol = "answer" /\ (p < n => s[p + 1] # Answer[2])
  <2>1. p < Len(t) => t[p + 1] # Answer[2]
    <3>1. CASE p < n
      BY <1>3, <1>6, <3>1
    <3>2. CASE p = n
      BY <1>5, <3>2
    <3> QED
      BY <1>1, <1>2, <3>1, <3>2
  <2> QED
    BY <1>2, <1>6, <2>1 DEF Broken, t
<1>7. CASE s[p].symbol = "$" /\ (p < n => s[p + 1].symbol # "size")
  <2>1. p < Len(t) => t[p + 1].symbol # "size"
    <3>1. CASE p < n
      BY <1>3, <1>7, <3>1
    <3>2. CASE p = n
      BY <1>5, <3>2
    <3> QED
      BY <1>1, <1>2, <3>1, <3>2
  <2> QED
    BY <1>2, <1>7, <2>1 DEF Broken, t
<1>8. CASE /\ s[p].symbol = "$" /\ p < n /\ s[p + 1].symbol = "size"
           /\ \E j \in p + 2 .. p + 1 + s[p + 1].of : j <= n => s[j].symbol # "data"
  <2>1. PICK j \in p + 2 .. p + 1 + s[p + 1].of : j <= n => s[j].symbol # "data"
    BY <1>8
  <2>2. p + 1 \in 1 .. n /\ t[p + 1] = s[p + 1] /\ s[p + 1].of \in Nat /\ p < Len(t)
    <3>1. p + 1 \in 1 .. n /\ t[p + 1] = s[p + 1] /\ p < Len(t)
      BY <1>1, <1>2, <1>3, <1>8
    <3>2. p + 1 \in 1 .. Len(s)
      BY <3>1 DEF n
    <3> QED
      BY <1>8, <3>1, <3>2, SymbolAt
  <2>3. \E k \in p + 2 .. p + 1 + s[p + 1].of : k <= Len(t) => t[k].symbol # "data"
    <3>1. CASE j <= n
      <4>1. j \in 1 .. n
        BY <1>2, <2>2, <3>1
      <4> QED
        BY <1>1, <2>1, <3>1, <4>1
    <3>2. CASE j > n
      <4>1. n + 1 \in p + 2 .. p + 1 + s[p + 1].of
        BY <1>1, <1>8, <1>2, <2>2, <3>2
      <4>2. n + 1 <= Len(t) => t[n + 1].symbol # "data"
        BY <1>1, <1>5
      <4> QED
        BY <4>1, <4>2
    <3> QED
      BY <1>1, <1>2, <2>2, <3>1, <3>2
  <2> QED
    BY <1>2, <1>8, <2>2, <2>3 DEF Broken, t
<1> QED
  BY <1>6, <1>7, <1>8 DEF Broken, n

-----------------------------------------------------------------------------
(* The texts that are written *)

Text(c, T) == T = Answer \/ \E n \in Nat : T = <<DollarSign(c), Size(n)>> \o Data(n)

LEMMA TextSymbols ==
    ASSUME NEW c \in Clients, NEW T, Text(c, T)
    PROVE  /\ T \in Seq(Symbols) /\ Len(T) \in Nat /\ Len(T) >= 2
           /\ T[1] \in Starts(c)
           /\ \/ Len(T) = 2 /\ T[1] = Answer[1] /\ T[2] = Answer[2]
              \/ \E n \in Nat : /\ Len(T) = n + 2 /\ T[1] = DollarSign(c) /\ T[2] = Size(n)
                                /\ \A k \in 3 .. n + 2 : T[k].symbol = "data"
<1>1. CASE T = Answer
  <2>1. T \in Seq(Symbols) /\ Len(T) = 2
    BY <1>1 DEF Answer, Symbols
  <2> QED
    BY <1>1, <2>1 DEF Starts
<1>2. CASE T # Answer
  <2>1. PICK n \in Nat : T = <<DollarSign(c), Size(n)>> \o Data(n)
    BY <1>2 DEF Text
  <2> DEFINE h == <<DollarSign(c), Size(n)>>
  <2>2. h \in Seq(Symbols) /\ Len(h) = 2 /\ h[1] = DollarSign(c) /\ h[2] = Size(n)
    BY DEF Symbols, DollarSign, Size
  <2>3. Data(n) \in Seq(Symbols) /\ Len(Data(n)) = n
    <3>1. Data(n) \in [1 .. n -> Symbols]
      BY DEF Data, Symbols
    <3> QED
      BY <3>1, IsASeq, LenProperties
  <2> HIDE DEF h
  <2>4. /\ T \in Seq(Symbols) /\ Len(T) = n + 2
        /\ \A k \in 1 .. 2 : T[k] = h[k]
        /\ \A k \in 1 .. n : T[2 + k] = Data(n)[k]
    BY <2>1, <2>2, <2>3, Appended DEF h
  <2>5. ASSUME NEW k \in 3 .. n + 2 PROVE T[k].symbol = "data"
    <3>1. k - 2 \in 1 .. n /\ k = 2 + (k - 2)
      OBVIOUS
    <3>2. Data(n)[k - 2] = [symbol |-> "data", of |-> k - 2]
      BY <3>1 DEF Data
    <3>3. T[k] = Data(n)[k - 2]
      BY <2>4, <3>1
    <3> QED
      BY <3>2, <3>3
  <2>6. T[1] = DollarSign(c) /\ T[2] = Size(n)
    BY <2>2, <2>4
  <2> QED
    BY <2>4, <2>5, <2>6 DEF Starts
<1> QED
  BY <1>1, <1>2

\* A text that is written to its end is a piece of the stream.
LEMMA TextWhole ==
    ASSUME NEW c \in Clients, NEW T, Text(c, T), NEW s \in Seq(Symbols)
    PROVE  /\ WholePiece(c, s \o T, Len(s) + 1)
           /\ PieceEnd(s \o T, Len(s) + 1) = Len(s \o T)
<1> DEFINE t == s \o T
           q == Len(s) + 1
<1>1. T \in Seq(Symbols) /\ Len(T) >= 2 /\ Len(T) \in Nat
  BY TextSymbols
<1>2. /\ t \in Seq(Symbols) /\ Len(s) \in Nat /\ Len(t) = Len(s) + Len(T)
      /\ \A k \in 1 .. Len(T) : t[Len(s) + k] = T[k]
  BY <1>1, Appended
<1>3. t[q] = T[1] /\ t[q + 1] = T[2] /\ q < Len(t)
  <2>1. 1 \in 1 .. Len(T) /\ 2 \in 1 .. Len(T) /\ q + 1 = Len(s) + 2
    BY <1>1, <1>2
  <2> HIDE DEF t
  <2> QED
    BY <1>1, <1>2, <2>1
<1> HIDE DEF t
<1>4. CASE Len(T) = 2 /\ T[1] = Answer[1] /\ T[2] = Answer[2]
  <2>1. t[q].symbol = "answer" /\ t[q].of = 1 /\ t[q + 1] = Answer[2]
    BY <1>3, <1>4 DEF Answer
  <2>2. PieceEnd(t, q) = q + 1 /\ Len(t) = q + 1
    BY <1>2, <1>4, <2>1 DEF PieceEnd
  <2>3. PieceEnd(t, q) <= Len(t)
    BY <1>2, <2>2
  <2> QED
    BY <2>1, <2>2, <2>3 DEF WholePiece, t
<1>5. ASSUME NEW n \in Nat, Len(T) = n + 2, T[1] = DollarSign(c), T[2] = Size(n),
             \A k \in 3 .. n + 2 : T[k].symbol = "data"
      PROVE  WholePiece(c, t, q) /\ PieceEnd(t, q) = Len(t)
  <2>1. t[q] = DollarSign(c) /\ t[q].symbol = "$" /\ t[q + 1].symbol = "size" /\ t[q + 1].of = n
    BY <1>3, <1>5 DEF DollarSign, Size
  <2>2. PieceEnd(t, q) = q + 1 + n /\ Len(t) = q + 1 + n
    BY <1>2, <1>3, <1>5, <2>1 DEF PieceEnd
  <2>3. ASSUME NEW j \in q + 2 .. q + 1 + n PROVE t[j].symbol = "data"
    <3>1. j - Len(s) \in 3 .. n + 2 /\ j - Len(s) \in 1 .. Len(T) /\ j = Len(s) + (j - Len(s))
      BY <1>2, <1>5
    <3>2. t[j] = T[j - Len(s)]
      BY <1>2, <3>1
    <3> QED
      BY <1>5, <3>1, <3>2
  <2>4. PieceEnd(t, q) <= Len(t)
    BY <1>2, <2>2
  <2> QED
    BY <2>1, <2>2, <2>3, <2>4 DEF WholePiece
<1> QED
  BY <1>4, <1>5, TextSymbols DEF t

\* A text of which a part is written is not, and what follows does not mend it.
LEMMA TextTorn ==
    ASSUME NEW c \in Clients, NEW T, Text(c, T), NEW s \in Seq(Symbols),
           NEW m \in 1 .. Len(T) - 1
    PROVE  Broken(s \o SubSeq(T, 1, m), Len(s) + 1)
<1> DEFINE u == SubSeq(T, 1, m)
           t == s \o u
           q == Len(s) + 1
<1>1. T \in Seq(Symbols) /\ Len(T) >= 2 /\ Len(T) \in Nat
  BY TextSymbols
<1>2. /\ u \in Seq(Symbols) /\ Len(u) = m
      /\ \A k \in 1 .. m : u[k] = T[k]
  BY <1>1, SubSeqProperties
<1> HIDE DEF u
<1>3. /\ t \in Seq(Symbols) /\ Len(s) \in Nat /\ Len(t) = Len(s) + m
      /\ \A k \in 1 .. m : t[Len(s) + k] = u[k]
  BY <1>2, Appended
<1> HIDE DEF t
<1>4. t[q] = T[1] /\ (m > 1 => t[q + 1] = T[2]) /\ q \in 1 .. Len(t) /\ (q < Len(t) => m > 1)
  <2>1. 1 \in 1 .. m /\ (m > 1 => 2 \in 1 .. m) /\ q + 1 = Len(s) + 2
    BY <1>1, <1>3
  <2> QED
    BY <1>1, <1>2, <1>3, <2>1
<1>5. CASE Len(T) = 2 /\ T[1] = Answer[1] /\ T[2] = Answer[2]
  <2>1. t[q].symbol = "answer" /\ ~(q < Len(t))
    BY <1>3, <1>4, <1>5 DEF Answer
  <2> QED
    BY <1>4, <2>1 DEF Broken, t, u
<1>6. ASSUME NEW n \in Nat, Len(T) = n + 2, T[1] = DollarSign(c), T[2] = Size(n)
      PROVE  Broken(t, q)
  <2>1. t[q].symbol = "$"
    BY <1>4, <1>6 DEF DollarSign
  <2>2. CASE m = 1
    BY <1>3, <1>4, <2>1, <2>2 DEF Broken
  <2>3. CASE m > 1
    <3>1. t[q + 1].symbol = "size" /\ t[q + 1].of = n /\ q < Len(t)
      BY <1>3, <1>4, <1>6, <2>3 DEF Size
    <3>2. Len(t) + 1 \in q + 2 .. q + 1 + n /\ ~(Len(t) + 1 <= Len(t))
      BY <1>3, <1>6, <2>3
    <3> QED
      BY <1>4, <2>1, <3>1, <3>2 DEF Broken
  <2> QED
    BY <1>1, <2>2, <2>3
<1> QED
  BY <1>5, <1>6, TextSymbols DEF t, u

-----------------------------------------------------------------------------
(* The invariant *)

\* A stream is a path to its end, or, when it is torn, to what is broken for good.
FramedAt(c, s, lost) ==
    \E K \in SUBSET (1 .. Len(s) + 1) : \E p \in K :
        /\ Path(c, s, K, p)
        /\ IF c \in lost THEN Broken(s, p) ELSE p = Len(s) + 1

\* The instance of a client is started by its PLAY.
Played(c) == m_is_alive_[c] => c \in played

\* Until then its stream holds answers only.
AnswersOnly(c) ==
    c \notin played => \A k \in DOMAIN stream[c] : stream[c][k].symbol = "answer"

DeliveryInv ==
    /\ m_is_alive_ \in [Clients -> BOOLEAN]
    /\ stream \in [Clients -> Seq(Symbols)]
    /\ \A c \in Clients : Played(c)
    /\ \A c \in TcpClients : FramedAt(c, stream[c], torn) /\ AnswersOnly(c)
    /\ \A c \in Clients \ played : datagrams[c] = <<>>

LEMMA FramedParses ==
    ASSUME NEW c, stream[c] \in Seq(Symbols), FramedAt(c, stream[c], torn)
    PROVE  Parses(c) <=> c \notin torn
<1>1. PICK K \in SUBSET (1 .. Len(stream[c]) + 1) : \E p \in K :
            /\ Path(c, stream[c], K, p)
            /\ IF c \in torn THEN Broken(stream[c], p) ELSE p = Len(stream[c]) + 1
  BY DEF FramedAt
<1>2. PICK p \in K :
            /\ Path(c, stream[c], K, p)
            /\ IF c \in torn THEN Broken(stream[c], p) ELSE p = Len(stream[c]) + 1
  BY <1>1
<1>3. CASE c \in torn
  <2>1. ~WholePiece(c, stream[c], p)
    BY <1>2, <1>3, BrokenNotWhole
  <2>2. p <= Len(stream[c])
    BY <1>2, <1>3, LenProperties DEF Broken
  <2> QED
    BY <1>2, <1>3, <2>1, <2>2, ParsesAlong
<1>4. CASE c \notin torn
  BY <1>2, <1>4, ParsesAlong
<1> QED
  BY <1>3, <1>4

\* The torn clients after m symbols of a text for c were taken.
TornBy(c, m, T, lost) == IF m \in 1 .. Len(T) - 1 THEN lost \cup {c} ELSE lost

\* A write that takes all of a text, a part of it or nothing.
LEMMA WriteFrames ==
    ASSUME NEW c \in Clients, NEW T, Text(c, T), NEW s \in Seq(Symbols),
           NEW m \in 0 .. Len(T), NEW lost, FramedAt(c, s, lost)
    PROVE  /\ s \o SubSeq(T, 1, m) \in Seq(Symbols)
           /\ FramedAt(c, s \o SubSeq(T, 1, m), TornBy(c, m, T, lost))
<1> DEFINE u == SubSeq(T, 1, m)
           t == s \o u
           more == TornBy(c, m, T, lost)
<1>0. c \in more <=> c \in lost \/ m \in 1 .. Len(T) - 1
  BY DEF TornBy
<1> HIDE DEF more
<1>1. /\ T \in Seq(Symbols) /\ Len(T) >= 2 /\ Len(T) \in Nat /\ T[1] \in Starts(c)
  BY TextSymbols
<1>2. /\ u \in Seq(Symbols) /\ Len(u) = m
      /\ \A k \in 1 .. m : u[k] = T[k]
  BY <1>1, SubSeqProperties
<1>3. m = Len(T) => u = T
  BY <1>1, SubSeqFull
<1> HIDE DEF u
<1>4. /\ t \in Seq(Symbols) /\ Len(s) \in Nat /\ Len(t) = Len(s) + m
      /\ \A k \in 1 .. Len(s) : t[k] = s[k]
  BY <1>2, Appended
<1>5. PICK K \in SUBSET (1 .. Len(s) + 1) : \E p \in K :
            /\ Path(c, s, K, p)
            /\ IF c \in lost THEN Broken(s, p) ELSE p = Len(s) + 1
  BY DEF FramedAt
<1>6. PICK p \in K :
            /\ Path(c, s, K, p)
            /\ IF c \in lost THEN Broken(s, p) ELSE p = Len(s) + 1
  BY <1>5
<1>7. Path(c, t, K, p)
  BY <1>2, <1>6, PathKept
<1>8. K \in SUBSET (1 .. Len(t) + 1)
  BY <1>7 DEF Path
<1>9. FramedAt(c, t, more)
  <2>1. CASE c \in lost
    <3>1. Len(u) > 0 => u[1] \in Starts(c)
      BY <1>1, <1>2
    <3>2. Broken(t, p)
      BY <1>2, <1>6, <2>1, <3>1, BrokenKept
    <3> QED
      BY <1>0, <1>7, <1>8, <2>1, <3>2 DEF FramedAt
  <2>2. CASE c \notin lost /\ m \in 1 .. Len(T) - 1
    <3>1. Broken(t, p)
      BY <1>6, <2>2, TextTorn DEF u
    <3> QED
      BY <1>0, <1>7, <1>8, <2>2, <3>1 DEF FramedAt
  <2>3. CASE c \notin lost /\ m = 0
    <3>1. p = Len(t) + 1
      BY <1>4, <1>6, <2>3
    <3>2. ~(m \in 1 .. Len(T) - 1)
      BY <2>3
    <3> QED
      BY <1>0, <1>7, <1>8, <2>3, <3>1, <3>2 DEF FramedAt
  <2>4. CASE c \notin lost /\ m = Len(T)
    <3>1. WholePiece(c, t, p) /\ PieceEnd(t, p) = Len(t)
      BY <1>3, <1>6, <2>4, TextWhole
    <3>2. p <= Len(t)
      BY <1>1, <1>4, <1>6, <2>4
    <3>3. Path(c, t, K \cup {Len(t) + 1}, Len(t) + 1)
      BY <1>4, <1>7, <3>1, <3>2, PathGrows
    <3>4. K \cup {Len(t) + 1} \in SUBSET (1 .. Len(t) + 1)
      BY <3>3 DEF Path
    <3>5. ~(m \in 1 .. Len(T) - 1)
      BY <1>1, <2>4
    <3> HIDE DEF t
    <3> QED
      BY <1>0, <2>4, <3>3, <3>4, <3>5 DEF FramedAt
  <2> QED
    BY <1>1, <2>1, <2>2, <2>3, <2>4
<1> QED
  BY <1>4, <1>9 DEF u, more

\* Some of an answer behind answers.
LEMMA MoreOfAnswers ==
    ASSUME NEW s \in Seq(Symbols), \A k \in DOMAIN s : s[k].symbol = "answer",
           NEW m \in 0 .. Len(Answer), NEW u, u = SubSeq(Answer, 1, m)
    PROVE  \A k \in DOMAIN (s \o u) : (s \o u)[k].symbol = "answer"
<1>1. /\ Answer \in Seq(Symbols) /\ Len(Answer) = 2
      /\ \A k \in 1 .. 2 : Answer[k].symbol = "answer"
  BY DEF Answer, Symbols
<1>2. /\ u \in Seq(Symbols) /\ Len(u) = m /\ m \in 0 .. 2
      /\ \A k \in 1 .. m : u[k] = Answer[k]
  BY <1>1, SubSeqProperties
<1>3. /\ s \o u \in Seq(Symbols) /\ Len(s) \in Nat /\ Len(s \o u) = Len(s) + m
      /\ \A k \in 1 .. Len(s) : (s \o u)[k] = s[k]
      /\ \A k \in 1 .. m : (s \o u)[Len(s) + k] = u[k]
  BY <1>2, Appended
<1>4. DOMAIN (s \o u) = 1 .. Len(s) + m /\ DOMAIN s = 1 .. Len(s)
  BY <1>3, LenProperties
<1> SUFFICES ASSUME NEW k \in 1 .. Len(s) + m
             PROVE  (s \o u)[k].symbol = "answer"
  BY <1>4
<1>5. CASE k <= Len(s)
  BY <1>3, <1>4, <1>5
<1>6. CASE k > Len(s)
  <2>1. PICK j \in 1 .. m : k = Len(s) + j
    <3>1. k - Len(s) \in 1 .. m /\ k = Len(s) + (k - Len(s))
      BY <1>2, <1>3, <1>6
    <3> QED
      BY <3>1
  <2>2. j \in 1 .. 2
    BY <1>2, <2>1
  <2>3. (s \o u)[k] = Answer[j]
    BY <1>2, <1>3, <2>1
  <2> QED
    BY <1>1, <2>2, <2>3
<1> QED
  BY <1>3, <1>5, <1>6

\* Writes to some of the TCP clients, each of its text.
LEMMA WrittenFrames ==
    ASSUME DeliveryInv, NEW W \in SUBSET TcpClients, NEW text,
           \A c \in W : Text(c, text[c]),
           played \subseteq played',
           \A c \in W : c \notin played' => text[c] = Answer,
           Written(W, text)
    PROVE  /\ stream' \in [Clients -> Seq(Symbols)]
           /\ \A c \in TcpClients : FramedAt(c, stream'[c], torn') /\ AnswersOnly(c)'
<1>1. PICK t \in Writes(W, text) :
         /\ stream' = [c \in Clients |->
               IF c \in W THEN stream[c] \o SubSeq(text[c], 1, t[c]) ELSE stream[c]]
         /\ torn' = torn \cup {c \in W : t[c] \in 1 .. Len(text[c]) - 1}
  BY DEF Written
<1>2. W \subseteq Clients
  BY DeliveryAssumption
<1>3. ASSUME NEW c \in W
      PROVE  /\ stream'[c] \in Seq(Symbols)
             /\ FramedAt(c, stream'[c], torn')
             /\ AnswersOnly(c)'
  <2>1. t[c] \in 0 .. Len(text[c])
    <3>1. t[c] \in 0 .. 2 + RTP_HEADER_SIZE + RTP_MAX_PKT_SIZE + Slack /\ t[c] <= Len(text[c])
      BY DEF Writes
    <3>2. Len(text[c]) \in Nat
      BY <1>2, TextSymbols
    <3> QED
      BY <3>1, <3>2
  <2>2. c \in Clients /\ Text(c, text[c]) /\ stream[c] \in Seq(Symbols)
        /\ FramedAt(c, stream[c], torn)
    BY <1>2 DEF DeliveryInv
  <2> DEFINE T == text[c]
             m == t[c]
             u == SubSeq(T, 1, m)
  <2>3. stream'[c] = stream[c] \o u
    BY <1>1, <1>2
  <2>4. c \in torn' <=> c \in torn \/ t[c] \in 1 .. Len(text[c]) - 1
    BY <1>1
  <2>5. /\ stream[c] \o u \in Seq(Symbols)
        /\ FramedAt(c, stream[c] \o u, torn')
        /\ c \notin played' =>
              \A k \in DOMAIN (stream[c] \o u) : (stream[c] \o u)[k].symbol = "answer"
    <3>1. /\ m \in 0 .. Len(T) /\ Text(c, T) /\ c \in Clients
          /\ stream[c] \in Seq(Symbols) /\ FramedAt(c, stream[c], torn)
      BY <2>1, <2>2
    <3>2. c \in torn' <=> c \in TornBy(c, m, T, torn)
      BY <2>4 DEF TornBy
    <3> HIDE DEF T, m
    <3>3. stream[c] \o u \in Seq(Symbols)
      BY <3>1, WriteFrames
    <3>4. FramedAt(c, stream[c] \o u, TornBy(c, m, T, torn))
      BY <3>1, WriteFrames
    <3> HIDE DEF u
    <3>5. u = SubSeq(T, 1, m)
      BY DEF u
    <3>7. ASSUME c \notin played'
          PROVE  \A k \in DOMAIN (stream[c] \o u) : (stream[c] \o u)[k].symbol = "answer"
      <4>1. T = Answer
        BY <3>7 DEF T
      <4>2. \A k \in DOMAIN stream[c] : stream[c][k].symbol = "answer"
        BY <2>2, <3>7 DEF DeliveryInv, AnswersOnly
      <4> QED
        BY <3>1, <3>5, <4>1, <4>2, MoreOfAnswers
    <3>6. FramedAt(c, stream[c] \o u, torn')
      BY <3>2, <3>4 DEF FramedAt
    <3> QED
      BY <3>3, <3>6, <3>7 DEF T
  <2> HIDE DEF u
  <2>6. FramedAt(c, stream'[c], torn')
    BY <2>3, <2>5
  <2>7. AnswersOnly(c)'
    BY <2>3, <2>5 DEF AnswersOnly
  <2> QED
    BY <2>3, <2>5, <2>6, <2>7
<1>4. ASSUME NEW c \in Clients \ W
      PROVE  /\ stream'[c] = stream[c]
             /\ c \in torn' <=> c \in torn
  BY <1>1
<1>5. ASSUME NEW c \in TcpClients
      PROVE  FramedAt(c, stream'[c], torn') /\ AnswersOnly(c)'
  <2>1. CASE c \in W
    BY <1>3, <2>1
  <2>2. CASE c \notin W
    BY <1>4, <2>2, DeliveryAssumption DEF DeliveryInv, FramedAt, AnswersOnly
  <2> QED
    BY <2>1, <2>2
<1>6. stream' \in [Clients -> Seq(Symbols)]
  <2>1. \A c \in Clients : stream'[c] \in Seq(Symbols)
    BY <1>3, <1>4 DEF DeliveryInv
  <2>2. stream' = [c \in Clients |-> stream'[c]]
    BY <1>1
  <2> QED
    BY <2>1, <2>2
<1> QED
  BY <1>5, <1>6

\* Every packet of a sink has a size.
LEMMA SinkSends ==
    ASSUME SinkInv', SinkNext, sent' # sent
    PROVE  sent'[Len(sent')].size \in Nat
<1>1. \E e : sent' = Append(sent, e)
  BY DEF SinkNext, HandleSmall, HandleLarge, HandleAudio, SendFragment, SendRemainder,
         Fragment, SendRtpPacket
<1>2. sent' \in Seq(Packets')
  BY DEF SinkInv, TypeOK
<1>3. sent' # <<>>
  BY <1>1
<1>4. Len(sent') \in 1 .. Len(sent')
  BY <1>2, <1>3, EmptySeq, LenProperties
<1>5. sent'[Len(sent')] \in Packets'
  BY <1>2, <1>4, ElementOfSeq
<1> QED
  BY <1>5 DEF Packets

LEMMA SendPacketDelivers ==
    ASSUME DeliveryInv, NEW P, P.size \in Nat, SendPacket(P), UNCHANGED <<m_is_alive_, played, answers>>
    PROVE  DeliveryInv'
<1> DEFINE alive == {c \in Clients : m_is_alive_[c]}
           tcp == alive \cap TcpClients
           text == [c \in tcp |-> Interleaved(c, P)]
<1>1. /\ Written(tcp, text)
      /\ datagrams' = [c \in Clients |->
            IF c \in alive \ TcpClients THEN Append(datagrams[c], P) ELSE datagrams[c]]
  BY DEF SendPacket
<1>2. \A c \in tcp : Text(c, text[c])
  BY DEF Text, Interleaved
<1>3. \A c \in tcp : c \in played'
  BY DEF DeliveryInv, Played
<1>4. tcp \in SUBSET TcpClients
  OBVIOUS
<1>5. /\ stream' \in [Clients -> Seq(Symbols)]
      /\ \A c \in TcpClients : FramedAt(c, stream'[c], torn') /\ AnswersOnly(c)'
  <2> HIDE DEF text, tcp
  <2> QED
    BY <1>1, <1>2, <1>3, <1>4, WrittenFrames
<1>6. \A c \in Clients : Played(c)'
  BY <1>5 DEF DeliveryInv, Played
<1>7. \A c \in Clients \ played' : datagrams'[c] = <<>>
  BY <1>1 DEF DeliveryInv, Played
<1> QED
  BY <1>5, <1>6, <1>7 DEF DeliveryInv

LEMMA HandleCmdPlayDelivers ==
    ASSUME DeliveryInv, NEW c \in Clients, HandleCmdPlay(c)
    PROVE  DeliveryInv'
<1> DEFINE W == {c} \cap TcpClients
           text == [d \in {c} |-> Answer]
<1>1. /\ Written(W, text) /\ played' = played \cup {c} /\ datagrams' = datagrams
      /\ m_is_alive_' = [m_is_alive_ EXCEPT ![c] = c \notin TcpClients \/ stream'[c] # stream[c]]
  BY DEF HandleCmdPlay
<1>2. \A d \in W : Text(d, text[d]) /\ text[d] = Answer
  BY DEF Text
<1>3. /\ stream' \in [Clients -> Seq(Symbols)]
      /\ \A d \in TcpClients : FramedAt(d, stream'[d], torn') /\ AnswersOnly(d)'
  <2>1. W \in SUBSET TcpClients
    OBVIOUS
  <2> HIDE DEF W, text
  <2> QED
    BY <1>1, <1>2, <2>1, WrittenFrames
<1>4. ASSUME NEW d \in Clients PROVE Played(d)'
  <2>1. CASE d = c
    BY <1>1, <2>1 DEF Played
  <2>2. CASE d # c
    BY <1>1, <1>3, <2>2 DEF DeliveryInv, Played
  <2> QED
    BY <2>1, <2>2
<1>5. m_is_alive_' \in [Clients -> BOOLEAN]
  BY <1>1 DEF DeliveryInv
<1>6. \A d \in Clients \ played' : datagrams'[d] = <<>>
  BY <1>1 DEF DeliveryInv
<1> QED
  BY <1>3, <1>4, <1>5, <1>6 DEF DeliveryInv

LEMMA HandleCmdOptionDelivers ==
    ASSUME DeliveryInv, NEW c \in Clients, HandleCmdOption(c)
    PROVE  DeliveryInv'
<1> DEFINE text == [d \in {c} |-> Answer]
<1>1. /\ Written({c}, text) /\ UNCHANGED <<m_is_alive_, played, datagrams>>
      /\ {c} \in SUBSET TcpClients
  BY DEF HandleCmdOption
<1>2. \A d \in {c} : Text(d, text[d]) /\ text[d] = Answer
  BY DEF Text
<1>3. /\ stream' \in [Clients -> Seq(Symbols)]
      /\ \A d \in TcpClients : FramedAt(d, stream'[d], torn') /\ AnswersOnly(d)'
  <2> HIDE DEF text
  <2> QED
    BY <1>1, <1>2, WrittenFrames
<1> QED
  BY <1>1, <1>3 DEF DeliveryInv, Played

LEMMA InitDelivers == Init => DeliveryInv
<1> SUFFICES ASSUME Init PROVE DeliveryInv
  OBVIOUS
<1>1. ASSUME NEW c \in TcpClients PROVE FramedAt(c, stream[c], torn)
  <2>1. stream[c] = <<>> /\ c \notin torn /\ Len(stream[c]) = 0
    BY <1>1, DeliveryAssumption DEF Init
  <2>2. Path(c, <<>>, {1}, 1)
    BY DEF Path
  <2>3. {1} \in SUBSET (1 .. Len(<<>>) + 1) /\ 1 = Len(<<>>) + 1
    OBVIOUS
  <2> QED
    BY <2>1, <2>2, <2>3 DEF FramedAt
<1> QED
  BY <1>1, DeliveryAssumption DEF Init, DeliveryInv, Played, AnswersOnly

LEMMA StepDelivers == SinkInv' /\ DeliveryInv /\ [Next]_vars => DeliveryInv'
<1> SUFFICES ASSUME SinkInv', DeliveryInv, [Next]_vars PROVE DeliveryInv'
  OBVIOUS
<1>1. CASE SinkStep
  <2>1. CASE sent' = sent
    BY <1>1, <2>1 DEF SinkStep, deliveryVars, DeliveryInv, Played, AnswersOnly, FramedAt
  <2>2. CASE sent' # sent
    <3>1. /\ SinkNext /\ SendPacket(sent'[Len(sent')])
          /\ UNCHANGED <<m_is_alive_, played, answers>>
      BY <1>1, <2>2 DEF SinkStep
    <3>2. sent'[Len(sent')].size \in Nat
      BY <2>2, <3>1, SinkSends
    <3> QED
      BY <3>1, <3>2, SendPacketDelivers
  <2> QED
    BY <2>1, <2>2
<1>2. ASSUME NEW c \in Clients, HandleCmdPlay(c) PROVE DeliveryInv'
  BY <1>2, HandleCmdPlayDelivers
<1>3. ASSUME NEW c \in Clients, HandleCmdOption(c) PROVE DeliveryInv'
  BY <1>3, HandleCmdOptionDelivers
<1>4. CASE UNCHANGED vars
  BY <1>4 DEF vars, deliveryVars, DeliveryInv, Played, AnswersOnly, FramedAt
<1> QED
  BY <1>1, <1>2, <1>3, <1>4 DEF Next

LEMMA DeliveryStreamFramed == DeliveryInv => StreamFramed
<1> SUFFICES ASSUME DeliveryInv PROVE StreamFramed
  OBVIOUS
<1>1. ASSUME NEW c \in TcpClients PROVE Parses(c) <=> c \notin torn
  BY FramedParses, DeliveryAssumption DEF DeliveryInv
<1> QED
  BY <1>1 DEF DeliveryInv, StreamFramed, AnswersOnly

\* Whatever the sink, the clients, their answers and the writes that fall short, a
\* client can read its stream exactly as long as none of its writes took a part,
\* and a packet comes to no client before its PLAY is answered.
THEOREM StreamFramedAlways == Spec => []StreamFramed
<1>1. Init => DeliveryInv
  BY InitDelivers
<1>2. Spec => []SinkInv
  BY SinkInvariant
<1> QED
  BY <1>1, <1>2, StepDelivers, DeliveryStreamFramed, PTL DEF Spec
=============================================================================
