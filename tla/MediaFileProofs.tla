-------------------------- MODULE MediaFileProofs --------------------------
(***************************************************************************)
(* Proofs about MediaFile: what the two parsers hand on are the units of   *)
(* the file, for files of any length and content and frames of any size.   *)
(***************************************************************************)
EXTENDS MediaFile, FiniteSetTheorems, WellFoundedInduction, TLAPS

-----------------------------------------------------------------------------
(* Audio files *)

\* What FramesAreUnits and OnlyDamagedFail say of an audio file.
AACRight ==
    /\ AAC!FramesAreUnits
    /\ AAC!OnlyDamagedFail

\* Of a file that is units from end to end, every read starts at one of them,
\* or at the end.
AACInv ==
    /\ file \in AAC!Files
    /\ offset \in 0 .. AAC!FileLen
    /\ frame.size \in Nat
    /\ failed \in BOOLEAN
    /\ m_buffer_ = <<>> /\ past = FALSE
    /\ AAC!WellFormed => offset = AAC!FileLen \/ offset \in AAC!UnitStarts
    /\ AACRight

\* AACFile counts with the same operator as the lemmas on finite sets.
LEMMA AACCardinality == \A S : AAC!Cardinality(S) = Cardinality(S)
  BY DEF AAC!Cardinality, Cardinality

\* The length of a file, and the places it has.
LEMMA AACFileLen ==
    ASSUME file \in AAC!Files
    PROVE  /\ AAC!FileLen \in 0 .. MaxLen
           /\ DOMAIN file = 0 .. AAC!FileLen - 1
           /\ \A k \in DOMAIN file : file[k] \in Lengths \cup {0}
<1>1. PICK n \in 0 .. MaxLen : file \in [0 .. n - 1 -> Lengths \cup {0}]
  BY DEF AAC!Files
<1>2. n \in Nat /\ DOMAIN file = 0 .. n - 1
  BY <1>1, FileAssumption
<1>3. Cardinality(0 .. n - 1) = n
  <2>1. 0 \in Int /\ n - 1 \in Int
    BY <1>2
  <2>2. Cardinality(0 .. n - 1) = IF 0 > n - 1 THEN 0 ELSE n - 1 - 0 + 1
    BY <2>1, FS_Interval
  <2> QED
    BY <1>2, <2>2
<1>4. AAC!FileLen = n
  BY <1>2, <1>3, AACCardinality DEF AAC!FileLen
<1> QED
  BY <1>1, <1>2, <1>4

\* From a unit of the file to the next header is a unit again.
LEMMA AACNextUnit ==
    ASSUME NEW k \in AAC!UnitStarts, k + file[k] \in AAC!Headers
    PROVE  k + file[k] \in AAC!UnitStarts
  BY DEF AAC!UnitStarts

\* A source starts at the beginning of its file.
LEMMA InitAACInv == AACInit => AACInv
<1> SUFFICES ASSUME AACInit PROVE AACInv
  OBVIOUS
<1>1. /\ file \in AAC!Files /\ offset = 0 /\ frame = AAC!NoFrame /\ failed = FALSE
      /\ m_buffer_ = <<>> /\ past = FALSE
  BY DEF AACInit, AAC!Init
<1>2. AAC!FileLen \in Nat
  BY <1>1, AACFileLen, FileAssumption
<1>3. AAC!WellFormed => offset \in AAC!UnitStarts
  BY <1>1 DEF AAC!WellFormed
<1>4. offset \in 0 .. AAC!FileLen
  BY <1>1, <1>2
<1>5. frame.size \in Nat /\ failed \in BOOLEAN
  <2>1. frame.size = 0
    BY <1>1 DEF AAC!NoFrame
  <2>2. failed \in BOOLEAN
    BY <1>1
  <2> QED
    BY <2>1, <2>2
<1>6. AACRight
  BY <1>1 DEF AACRight, AAC!FramesAreUnits, AAC!OnlyDamagedFail
<1> QED
  BY <1>1, <1>3, <1>4, <1>5, <1>6 DEF AACInv

\* A read of such a file finds the header of a unit, and goes to the next.
LEMMA StepAACInv ==
    ASSUME AACInv, AACReadFrame
    PROVE  AACInv'
<1> DEFINE L == AAC!FileLen
           k == AAC!Start
<1>0. file' = file /\ UNCHANGED <<m_buffer_, past>>
  BY DEF AACReadFrame, AAC!ReadFrame, videoVars
<1>1. /\ L \in Nat /\ L <= MaxLen
      /\ DOMAIN file = 0 .. L - 1
      /\ \A j \in DOMAIN file : file[j] \in Nat
  BY AACFileLen, FileAssumption DEF AACInv
<1>2. /\ AAC!FileLen' = AAC!FileLen
      /\ AAC!UnitStarts' = AAC!UnitStarts
      /\ AAC!WellFormed' <=> AAC!WellFormed
  BY <1>0 DEF AAC!FileLen, AAC!UnitStarts, AAC!WellFormed, AAC!Headers
<1>3. k \in 0 .. L
  BY <1>1 DEF AAC!Start, AACInv
<1>4. PICK n \in IF L = 0 THEN {0} ELSE AAC!Parsed(k) :
         IF n = 0 \/ n > AudioFrameSize THEN AAC!Fail(k) ELSE AAC!Deliver(k, n)
  BY DEF AACReadFrame, AAC!ReadFrame
<1>5. n \in Nat
  <2>1. \A m \in Lengths : m \in Nat
    BY FileAssumption
  <2>2. CASE L = 0
    BY <1>4, <2>2
  <2>3. CASE L # 0 /\ k + AdtsSize <= L
    <3>1. k \in DOMAIN file
      BY <1>1, <1>3, <2>3, FileAssumption
    <3> QED
      BY <1>1, <1>4, <2>3, <3>1 DEF AAC!Parsed
  <2>4. CASE L # 0 /\ ~(k + AdtsSize <= L)
    BY <1>4, <2>1, <2>4 DEF AAC!Parsed
  <2> QED
    BY <2>2, <2>3, <2>4
<1>6. ASSUME AAC!WellFormed
      PROVE  /\ k \in AAC!UnitStarts /\ k \in DOMAIN file
             /\ n = file[k] /\ n # 0 /\ n <= AudioFrameSize
             /\ k + n < L => k + n \in AAC!UnitStarts
  <2>1. L # 0 /\ 0 \in AAC!UnitStarts
    BY <1>1, <1>6 DEF AAC!WellFormed
  <2>2. k \in AAC!UnitStarts
    BY <1>6, <2>1 DEF AAC!Start, AACInv
  <2>3. k \in DOMAIN file /\ k + AdtsSize <= L /\ file[k] # 0
    BY <2>2 DEF AAC!UnitStarts, AAC!Headers
  <2>4. n = file[k]
    BY <1>4, <2>1, <2>3 DEF AAC!Parsed
  <2>5. n <= AudioFrameSize /\ (k + n < L => k + n \in AAC!Headers)
    BY <1>6, <2>2, <2>4 DEF AAC!WellFormed
  <2> QED
    BY <2>2, <2>3, <2>4, <2>5, AACNextUnit
<1>7. CASE n = 0 \/ n > AudioFrameSize
  <2>1. ~AAC!WellFormed
    BY <1>5, <1>6, <1>7, FileAssumption
  <2>2. AAC!Fail(k)
    BY <1>4, <1>7
  <2>3. offset' \in 0 .. L /\ failed' = TRUE /\ frame' = frame
    BY <1>1, <1>3, <2>2, FileAssumption DEF AAC!Fail, AAC!Smaller
  <2> QED
    BY <1>0, <1>2, <2>1, <2>3
       DEF AACInv, AACRight, AAC!FramesAreUnits, AAC!OnlyDamagedFail, AAC!Files
<1>8. CASE ~(n = 0 \/ n > AudioFrameSize)
  <2>1. /\ offset' = IF k + n < L THEN k + n ELSE L
        /\ frame' = [from |-> k, size |-> n, got |-> IF n < L - k THEN n ELSE L - k]
        /\ failed' = FALSE
    BY <1>4, <1>8 DEF AAC!Deliver, AAC!Smaller
  <2>2. offset' \in 0 .. L
    BY <1>1, <1>3, <1>5, <2>1
  <2>3. AAC!WellFormed => offset' = L \/ offset' \in AAC!UnitStarts
    BY <1>6, <2>1
  <2>4. AAC!FramesAreUnits'
    <3> SUFFICES ASSUME AAC!WellFormed
                 PROVE  /\ frame'.from \in AAC!UnitStarts
                        /\ frame'.size = file[frame'.from]
                        /\ frame'.got = frame'.size \/ frame'.from + frame'.size > L
                        /\ IF frame'.from + frame'.size < L
                           THEN /\ offset' = frame'.from + frame'.size
                                /\ offset' \in AAC!UnitStarts
                           ELSE offset' = L
      BY <1>0, <1>2 DEF AAC!FramesAreUnits
    <3>1. n < L - k \/ n = L - k \/ k + n > L
      BY <1>1, <1>3, <1>5
    <3> QED
      BY <1>6, <2>1, <3>1
  <2>5. AAC!OnlyDamagedFail'
    BY <2>1 DEF AAC!OnlyDamagedFail
  <2> QED
    BY <1>0, <1>2, <1>5, <2>1, <2>2, <2>3, <2>4, <2>5 DEF AACInv, AACRight, AAC!Files
<1> QED
  BY <1>7, <1>8

-----------------------------------------------------------------------------
(* Video files: what a block shows of the file *)

\* A start code of either length.
AtCode(k) == H264!Code3(k) \/ H264!Code4(k)

\* A block that the parser refuses.
NoCode(buf) == ~H264!StartCode3(buf, 0) /\ ~H264!StartCode4(buf, 0)

\* The further start codes of the next block.
FurtherCodes == H264!StartCodes(H264!ReadBlock, 3, H264!ReadSize - 3)

\* What the other lemmas need of the state.
H264Types ==
    /\ file \in VideoFiles
    /\ offset \in 0 .. Len(file)
    /\ m_buffer_ \in [0 .. VideoFrameSize - 1 -> 0 .. 2]
    /\ frame.size \in Nat

\* The least of a set of numbers.
LEMMA LeastIs ==
    ASSUME NEW S \in SUBSET Nat, S # {}
    PROVE  /\ H264!Min(S) \in S
           /\ \A k \in S : H264!Min(S) <= k
<1> DEFINE R == OpToRel(<, Nat)
<1>1. IsWellFoundedOn(R, Nat)
  BY NatLessThanWellFounded
<1>2. \A a, b \in Nat : a < b => <<a, b>> \in R
  BY DEF OpToRel
<1> HIDE DEF R
<1>3. PICK least \in S : \A k \in S : ~(<<k, least>> \in R)
  BY <1>1, WFMin
<1>4. ASSUME NEW k \in S PROVE least <= k
  <2>1. k \in Nat /\ least \in Nat /\ ~(<<k, least>> \in R)
    BY <1>3
  <2>2. ~(k < least)
    BY <1>2, <2>1
  <2> QED
    BY <2>1, <2>2
<1> QED
  BY <1>4 DEF H264!Min

\* The smaller of two numbers.
LEMMA LeastOfTwo ==
    ASSUME NEW a \in Nat, NEW b \in Nat
    PROVE  H264!Min({a, b}) = IF a <= b THEN a ELSE b
<1>1. H264!Min({a, b}) \in {a, b} /\ \A k \in {a, b} : H264!Min({a, b}) <= k
  BY LeastIs
<1> QED
  BY <1>1

\* The sizes of the file and of the next block.
LEMMA BlockSize ==
    ASSUME H264Types
    PROVE  /\ VideoFrameSize \in Nat /\ VideoFrameSize >= 4
           /\ Len(file) \in Nat /\ Len(file) >= 4 /\ Len(file) <= MaxLen + 3
           /\ file \in Seq(0 .. 2)
           /\ offset \in Nat /\ offset <= Len(file)
           /\ H264!ReadSize \in Nat
           /\ H264!ReadSize = IF VideoFrameSize <= Len(file) - offset
                              THEN VideoFrameSize ELSE Len(file) - offset
<1>1. /\ VideoFrameSize \in Nat /\ VideoFrameSize >= 4
      /\ file \in Seq(0 .. 2) /\ Len(file) \in 4 .. MaxLen + 3 /\ MaxLen \in Nat
  BY FileAssumption DEF H264Types
<1>2. /\ Len(file) \in Nat /\ Len(file) >= 4 /\ Len(file) <= MaxLen + 3
      /\ offset \in Nat /\ offset <= Len(file)
  BY <1>1 DEF H264Types
<1>3. H264!ReadSize = IF VideoFrameSize <= Len(file) - offset
                      THEN VideoFrameSize ELSE Len(file) - offset
  <2>1. Len(file) - offset \in Nat
    BY <1>2
  <2> QED
    BY <1>1, <2>1, LeastOfTwo DEF H264!ReadSize
<1>4. H264!ReadSize \in Nat
  BY <1>1, <1>2, <1>3
<1> QED
  BY <1>1, <1>2, <1>3, <1>4

\* What is read is the file's, what follows is what the frame held.
LEMMA BlockBytes ==
    ASSUME H264Types
    PROVE  /\ H264!ReadBlock \in [0 .. VideoFrameSize - 1 -> 0 .. 2]
           /\ \A k \in 0 .. H264!ReadSize - 1 : H264!ReadBlock[k] = file[offset + k + 1]
           /\ H264!ReadSize = 0 => H264!ReadBlock = m_buffer_
<1> DEFINE R == H264!ReadSize
<1>1. /\ R \in Nat /\ R <= VideoFrameSize /\ offset + R <= Len(file)
      /\ Len(file) \in Nat /\ VideoFrameSize \in Nat /\ offset \in Nat
      /\ \A k \in 1 .. Len(file) : file[k] \in 0 .. 2
  BY BlockSize
<1>2. H264!ReadBlock = [k \in 0 .. VideoFrameSize - 1 |->
                           IF k < R THEN file[offset + k + 1] ELSE m_buffer_[k]]
  BY DEF H264!ReadBlock, H264Types
<1> HIDE DEF R
<1>3. ASSUME NEW k \in 0 .. VideoFrameSize - 1
      PROVE  (IF k < R THEN file[offset + k + 1] ELSE m_buffer_[k]) \in 0 .. 2
  <2>1. k < R => offset + k + 1 \in 1 .. Len(file)
    BY <1>1
  <2>2. m_buffer_[k] \in 0 .. 2
    BY DEF H264Types
  <2> QED
    BY <1>1, <2>1, <2>2
<1>4. H264!ReadBlock \in [0 .. VideoFrameSize - 1 -> 0 .. 2]
  BY <1>2, <1>3
<1>5. \A k \in 0 .. R - 1 : H264!ReadBlock[k] = file[offset + k + 1]
  BY <1>1, <1>2
<1>6. R = 0 => H264!ReadBlock = m_buffer_
  <2> SUFFICES ASSUME R = 0 PROVE H264!ReadBlock = m_buffer_
    OBVIOUS
  <2>1. m_buffer_ = [k \in 0 .. VideoFrameSize - 1 |-> m_buffer_[k]]
    BY DEF H264Types
  <2>2. \A k \in 0 .. VideoFrameSize - 1 :
           (IF k < R THEN file[offset + k + 1] ELSE m_buffer_[k]) = m_buffer_[k]
    BY <1>1
  <2> QED
    BY <1>2, <2>1, <2>2
<1> QED
  BY <1>4, <1>5, <1>6 DEF R

\* A start code that is read whole is the file's.
LEMMA BlockCodes ==
    ASSUME H264Types, NEW k \in Nat
    PROVE  /\ k + 3 <= H264!ReadSize =>
                (H264!StartCode3(H264!ReadBlock, k) <=> H264!Code3(offset + k))
           /\ k + 4 <= H264!ReadSize =>
                (H264!StartCode4(H264!ReadBlock, k) <=> H264!Code4(offset + k))
<1> DEFINE R == H264!ReadSize
           B == H264!ReadBlock
<1>1. /\ R \in Nat /\ offset + R <= Len(file) /\ Len(file) \in Nat /\ offset \in Nat
  BY BlockSize
<1>2. \A j \in 0 .. R - 1 : B[j] = file[offset + j + 1]
  BY BlockBytes
<1> HIDE DEF R, B
<1>3. ASSUME k + 3 <= R
      PROVE  H264!StartCode3(B, k) <=> H264!Code3(offset + k)
  <2>1. k \in 0 .. R - 1 /\ k + 1 \in 0 .. R - 1 /\ k + 2 \in 0 .. R - 1
    BY <1>1, <1>3
  <2>2. /\ B[k] = file[offset + k + 1]
        /\ B[k + 1] = file[offset + k + 2]
        /\ B[k + 2] = file[offset + k + 3]
    <3>1. /\ B[k] = file[offset + k + 1]
          /\ B[k + 1] = file[offset + (k + 1) + 1]
          /\ B[k + 2] = file[offset + (k + 2) + 1]
      BY <1>2, <2>1
    <3>2. offset + (k + 1) + 1 = offset + k + 2 /\ offset + (k + 2) + 1 = offset + k + 3
      BY <1>1
    <3> QED
      BY <3>1, <3>2
  <2>3. offset + k + 3 <= Len(file)
    BY <1>1, <1>3
  <2> QED
    BY <1>1, <2>2, <2>3 DEF H264!StartCode3, H264!Code3
<1>4. ASSUME k + 4 <= R
      PROVE  H264!StartCode4(B, k) <=> H264!Code4(offset + k)
  <2>1. /\ k \in 0 .. R - 1 /\ k + 1 \in 0 .. R - 1
        /\ k + 2 \in 0 .. R - 1 /\ k + 3 \in 0 .. R - 1
    BY <1>1, <1>4
  <2>2. /\ B[k] = file[offset + k + 1]
        /\ B[k + 1] = file[offset + k + 2]
        /\ B[k + 2] = file[offset + k + 3]
        /\ B[k + 3] = file[offset + k + 4]
    <3>1. /\ B[k] = file[offset + k + 1]
          /\ B[k + 1] = file[offset + (k + 1) + 1]
          /\ B[k + 2] = file[offset + (k + 2) + 1]
          /\ B[k + 3] = file[offset + (k + 3) + 1]
      BY <1>2, <2>1
    <3>2. /\ offset + (k + 1) + 1 = offset + k + 2 /\ offset + (k + 2) + 1 = offset + k + 3
          /\ offset + (k + 3) + 1 = offset + k + 4
      BY <1>1
    <3> QED
      BY <3>1, <3>2
  <2>3. offset + k + 4 <= Len(file)
    BY <1>1, <1>4
  <2>4. H264!Code4(offset + k) <=>
           /\ file[offset + k + 1] = 0 /\ file[offset + k + 2] = 0
           /\ file[offset + k + 3] = 0 /\ file[offset + k + 4] = 1
    BY <1>1, <2>3 DEF H264!Code4
  <2> QED
    BY <2>2, <2>4 DEF H264!StartCode4
<1> QED
  BY <1>3, <1>4 DEF R, B

-----------------------------------------------------------------------------
(* Video files: the units around a block *)

\* The length of the start code of the unit at a place.
CodeSize(n) == IF H264!Code4(n) THEN 4 ELSE 3

\* A block that begins with a code is read at least to that code's end.
LEMMA CodeIsRead ==
    ASSUME H264Types, AtCode(offset)
    PROVE  /\ H264!ReadSize >= 3
           /\ H264!Code4(offset) => H264!ReadSize >= 4
           /\ H264!StartCode3(H264!ReadBlock, 0) <=> H264!Code3(offset)
           /\ ~NoCode(H264!ReadBlock)
<1> DEFINE R == H264!ReadSize
<1>1. /\ H264!Code3(offset) => offset + 3 <= Len(file)
      /\ H264!Code4(offset) => offset + 4 <= Len(file)
  BY DEF H264!Code3, H264!Code4
<1>2. R >= 3 /\ (H264!Code4(offset) => R >= 4)
  BY <1>1, BlockSize DEF AtCode
<1>3. offset + 0 = offset /\ R \in Nat
  BY BlockSize
<1>4. H264!StartCode3(H264!ReadBlock, 0) <=> H264!Code3(offset)
  <2>1. 0 + 3 <= R
    BY <1>2, <1>3
  <2> QED
    BY <1>3, <2>1, BlockCodes
<1>5. H264!Code4(offset) => H264!StartCode4(H264!ReadBlock, 0)
  <2> SUFFICES ASSUME H264!Code4(offset) PROVE H264!StartCode4(H264!ReadBlock, 0)
    OBVIOUS
  <2>1. 0 + 4 <= R
    BY <1>2, <1>3
  <2> QED
    BY <1>3, <2>1, BlockCodes
<1> QED
  BY <1>2, <1>4, <1>5 DEF AtCode, NoCode

\* The codes the parser finds behind the first one are those of the file.
LEMMA FurtherCodesAre ==
    ASSUME H264Types, AtCode(offset)
    PROVE  /\ FurtherCodes \in SUBSET Nat
           /\ \A k \in Nat : k \in FurtherCodes <=>
                 /\ k >= 3
                 /\ \/ k + 3 <= H264!ReadSize /\ H264!Code3(offset + k)
                    \/ k + 4 <= H264!ReadSize /\ H264!Code4(offset + k)
<1> DEFINE R == H264!ReadSize
           B == H264!ReadBlock
<1>1. R \in Nat /\ R >= 3
  BY BlockSize, CodeIsRead
<1>2. /\ 3 + (R - 3) - 4 = R - 4 /\ 3 + (R - 3) - 3 = R - 3
      /\ R - 3 \in Nat
  BY <1>1
<1>3. FurtherCodes = {k \in 3 .. R - 4 : H264!StartCode3(B, k) \/ H264!StartCode4(B, k)}
                        \cup {k \in {R - 3} : k >= 3 /\ H264!StartCode3(B, k)}
  BY <1>2 DEF FurtherCodes, H264!StartCodes
<1>4. \A k \in Nat :
         /\ k + 3 <= R => (H264!StartCode3(B, k) <=> H264!Code3(offset + k))
         /\ k + 4 <= R => (H264!StartCode4(B, k) <=> H264!Code4(offset + k))
  BY BlockCodes
<1> HIDE DEF R, B
<1>5. FurtherCodes \in SUBSET Nat
  BY <1>1, <1>2, <1>3
<1>6. ASSUME NEW k \in Nat
      PROVE  k \in FurtherCodes <=>
                /\ k >= 3
                /\ \/ k + 3 <= R /\ H264!Code3(offset + k)
                   \/ k + 4 <= R /\ H264!Code4(offset + k)
  <2>1. CASE k \in 3 .. R - 4
    <3>1. k >= 3 /\ k + 3 <= R /\ k + 4 <= R /\ k # R - 3
      BY <1>1, <2>1
    <3> QED
      BY <1>3, <1>4, <2>1, <3>1
  <2>2. CASE k = R - 3
    <3>1. k + 3 <= R /\ ~(k + 4 <= R) /\ k \notin 3 .. R - 4
      BY <1>1, <2>2
    <3> QED
      BY <1>3, <1>4, <2>2, <3>1
  <2>3. CASE k \notin 3 .. R - 4 /\ k # R - 3
    <3>1. k >= 3 => ~(k + 3 <= R) /\ ~(k + 4 <= R)
      BY <1>1, <2>3
    <3> QED
      BY <1>3, <2>3, <3>1
  <2> QED
    BY <2>1, <2>2, <2>3
<1> QED
  BY <1>5, <1>6 DEF R

\* No unit begins inside the start code of another.
LEMMA NoneWithin ==
    ASSUME H264Types, AtCode(offset)
    PROVE  /\ offset + 1 \notin H264!UnitStarts
           /\ offset + 2 \notin H264!UnitStarts
           /\ ~H264!Code4(offset + 2)
<1> DEFINE o == offset
<1>1. o \in Nat
  BY BlockSize
<1>2. (o + 1) + 1 = o + 2 /\ (o + 1) + 2 = o + 3 /\ (o + 1) + 3 = o + 4
      /\ (o + 2) + 1 = o + 3 /\ (o + 2) + 2 = o + 4 /\ (o + 1) - 1 = o /\ o + 1 # 0
  BY <1>1
<1>3. H264!Code3(o) => file[o + 1] = 0 /\ file[o + 2] = 0 /\ file[o + 3] = 1
  BY DEF H264!Code3
<1>4. H264!Code4(o) => /\ file[o + 1] = 0 /\ file[o + 2] = 0
                       /\ file[o + 3] = 0 /\ file[o + 4] = 1
  BY DEF H264!Code4
<1>5. H264!Code3(o + 1) => file[o + 3] = 0
  BY <1>2 DEF H264!Code3
<1>6. H264!Code4(o + 1) => file[o + 3] = 0 /\ file[o + 4] = 0
  <2> SUFFICES ASSUME H264!Code4(o + 1) PROVE file[(o + 1) + 2] = 0 /\ file[(o + 1) + 3] = 0
    BY <1>2
  <2> QED
    BY DEF H264!Code4
<1>7. H264!Code3(o + 2) => file[o + 3] = 0 /\ file[o + 4] = 0
  BY <1>2 DEF H264!Code3
<1>8. H264!Code4(o + 2) => file[o + 3] = 0 /\ file[o + 4] = 0
  <2> SUFFICES ASSUME H264!Code4(o + 2) PROVE file[(o + 2) + 1] = 0 /\ file[(o + 2) + 2] = 0
    BY <1>2
  <2> QED
    BY DEF H264!Code4
<1> HIDE DEF o
<1>9. ~H264!Code4(o + 2) /\ ~H264!Code3(o + 2)
  BY <1>3, <1>4, <1>7, <1>8 DEF AtCode, o
<1>10. ~H264!Code4(o + 1) /\ (H264!Code3(o + 1) => H264!Code4(o))
  BY <1>3, <1>4, <1>5, <1>6 DEF AtCode, o
<1> QED
  BY <1>2, <1>9, <1>10 DEF H264!UnitStarts, o

\* The parser sees a later unit if the block holds its whole start code.
LEMMA UnitSeen ==
    ASSUME H264Types, AtCode(offset),
           NEW n \in H264!UnitStarts, n > offset,
           n + CodeSize(n) - offset <= VideoFrameSize
    PROVE  n - offset \in FurtherCodes
<1> DEFINE k == n - offset
<1>1. /\ offset \in Nat /\ Len(file) \in Nat /\ VideoFrameSize \in Nat
      /\ H264!ReadSize = IF VideoFrameSize <= Len(file) - offset
                         THEN VideoFrameSize ELSE Len(file) - offset
  BY BlockSize
<1>2. n \in 0 .. Len(file) - 3 /\ AtCode(n)
  BY DEF H264!UnitStarts, AtCode
<1>3. k \in Nat /\ k >= 3 /\ offset + k = n
  <2>1. n # offset + 1 /\ n # offset + 2
    BY NoneWithin
  <2> QED
    BY <1>1, <1>2, <2>1
<1>4. n + CodeSize(n) <= Len(file)
  BY <1>1, <1>2 DEF CodeSize, H264!Code4
<1>5. CodeSize(n) \in {3, 4} /\ k + CodeSize(n) <= H264!ReadSize
  <2>1. CodeSize(n) \in {3, 4}
    BY DEF CodeSize
  <2> QED
    BY <1>1, <1>2, <1>4, <2>1
<1>6. \/ CodeSize(n) = 4 /\ H264!Code4(offset + k)
      \/ CodeSize(n) = 3 /\ H264!Code3(offset + k)
  BY <1>2, <1>3 DEF CodeSize, AtCode
<1> HIDE DEF k
<1>7. \/ k + 3 <= H264!ReadSize /\ H264!Code3(offset + k)
      \/ k + 4 <= H264!ReadSize /\ H264!Code4(offset + k)
  BY <1>5, <1>6
<1>8. k \in FurtherCodes
  BY <1>3, <1>7, FurtherCodesAre
<1> QED
  BY <1>8 DEF k

\* The end of a unit is the beginning of the next, or the end of the file.
LEMMA UnitEndIs ==
    ASSUME NEW k \in Nat, Len(file) \in Nat,
           NEW n \in H264!UnitStarts \cup {Len(file)}, n > k, n <= Len(file),
           \A j \in H264!UnitStarts : j > k => n <= j
    PROVE  H264!UnitEnd(k) = n
<1> DEFINE S == {j \in H264!UnitStarts : j > k} \cup {Len(file)}
<1>1. S \in SUBSET Nat /\ n \in S
  BY DEF H264!UnitStarts
<1>2. H264!UnitEnd(k) = H264!Min(S)
  BY DEF H264!UnitEnd
<1>3. \A j \in S : n <= j
  OBVIOUS
<1> HIDE DEF S
<1>4. H264!Min(S) \in S /\ H264!Min(S) <= n
  BY <1>1, LeastIs
<1>5. n <= H264!Min(S) /\ H264!Min(S) \in Nat /\ n \in Nat
  BY <1>1, <1>3, <1>4
<1> QED
  BY <1>2, <1>4, <1>5

\* The first of the further codes begins the next unit, which the block holds.
LEMMA NextUnit ==
    ASSUME H264Types, AtCode(offset), FurtherCodes # {}
    PROVE  LET m == H264!Min(FurtherCodes)
           IN /\ m \in Nat /\ m >= 3
              /\ offset + m \in H264!UnitStarts /\ offset + m < Len(file)
              /\ H264!Code4(offset) => m >= 4
              /\ H264!UnitEnd(offset) = offset + m
              /\ H264!Fits(offset)
<1> DEFINE m == H264!Min(FurtherCodes)
           o == offset
           R == H264!ReadSize
<1>1. /\ o \in Nat /\ Len(file) \in Nat /\ VideoFrameSize \in Nat /\ R \in Nat
      /\ R <= VideoFrameSize /\ o + R <= Len(file)
  BY BlockSize
<1>2. m \in FurtherCodes /\ (\A k \in FurtherCodes : m <= k) /\ m \in Nat
  BY LeastIs, FurtherCodesAre
<1>3. /\ m >= 3
      /\ \/ m + 3 <= R /\ H264!Code3(o + m)
         \/ m + 4 <= R /\ H264!Code4(o + m)
  BY <1>2, FurtherCodesAre
<1>4. H264!Code4(o) => m >= 4
  <2> SUFFICES ASSUME H264!Code4(o), m = 3 PROVE FALSE
    BY <1>2, <1>3
  <2>1. file[o + 4] = 1
    BY DEF H264!Code4
  <2>2. H264!Code3(o + 3) \/ H264!Code4(o + 3)
    BY <1>3
  <2>3. (o + 3) + 1 = o + 4
    BY <1>1
  <2>4. file[(o + 3) + 1] = 0
    BY <2>2 DEF H264!Code3, H264!Code4
  <2> QED
    BY <2>1, <2>3, <2>4
<1> HIDE DEF m, R
<1>5. ~H264!Code4(o + m - 1) \/ H264!Code4(o + m)
  <2> SUFFICES ASSUME H264!Code4(o + m - 1), ~H264!Code4(o + m) PROVE FALSE
    OBVIOUS
  <2>1. CASE m = 3
    <3>1. o + m - 1 = o + 2
      BY <1>1, <2>1
    <3> QED
      BY <3>1, NoneWithin
  <2>2. CASE m > 3
    <3>1. m - 1 \in Nat /\ m - 1 >= 3 /\ o + (m - 1) = o + m - 1
      BY <1>1, <1>2, <2>2
    <3>2. (m - 1) + 4 <= R
      BY <1>1, <1>2, <1>3
    <3>3. m - 1 \in FurtherCodes
      BY <3>1, <3>2, FurtherCodesAre DEF R
    <3>4. m <= m - 1
      BY <1>2, <3>3
    <3> QED
      BY <1>2, <3>4
  <2> QED
    BY <1>2, <1>3, <2>1, <2>2
<1>6. o + m \in 0 .. Len(file) - 3 /\ o + m # 0
  BY <1>1, <1>2, <1>3
<1>7. o + m \in H264!UnitStarts
  <2>1. \/ H264!Code4(o + m)
        \/ H264!Code3(o + m) /\ ~H264!Code4((o + m) - 1)
    <3>1. (o + m) - 1 = o + m - 1
      BY <1>1, <1>2
    <3> QED
      BY <1>3, <1>5, <3>1
  <2> DEFINE n == o + m
  <2>2. n \in 0 .. Len(file) - 3
    BY <1>6
  <2>3. H264!Code4(n) \/ (H264!Code3(n) /\ (n = 0 \/ ~H264!Code4(n - 1)))
    BY <2>1
  <2> HIDE DEF n
  <2>4. n \in H264!UnitStarts
    BY <2>2, <2>3 DEF H264!UnitStarts
  <2> QED
    BY <2>4 DEF n
<1>8. m + CodeSize(o + m) <= VideoFrameSize
  <2>1. CASE H264!Code4(o + m)
    <3>1. ~H264!Code3(o + m)
      <4>1. file[(o + m) + 3] = 0
        BY <2>1 DEF H264!Code4
      <4> QED
        BY <4>1 DEF H264!Code3
    <3> QED
      BY <1>1, <1>2, <1>3, <2>1, <3>1 DEF CodeSize
  <2>2. CASE ~H264!Code4(o + m)
    BY <1>1, <1>2, <1>3, <2>2 DEF CodeSize
  <2> QED
    BY <2>1, <2>2
<1>9. ASSUME NEW j \in H264!UnitStarts, j > o, ~(o + m <= j) PROVE FALSE
  <2>1. j \in Nat /\ CodeSize(j) \in {3, 4} /\ AtCode(j)
    BY DEF H264!UnitStarts, CodeSize, AtCode
  <2>2. j + CodeSize(j) - o <= VideoFrameSize
    BY <1>1, <1>2, <1>3, <1>9, <2>1
  <2>3. j - o \in FurtherCodes
    BY <1>9, <2>2, UnitSeen
  <2>4. m <= j - o
    BY <1>2, <2>3
  <2> QED
    BY <1>1, <1>2, <1>9, <2>1, <2>4
<1>10. H264!UnitEnd(o) = o + m
  <2>1. \A j \in H264!UnitStarts : j > o => o + m <= j
    BY <1>9
  <2>2. o + m > o /\ o + m <= Len(file)
    BY <1>1, <1>2, <1>3, <1>6
  <2> QED
    BY <1>1, <1>7, <2>1, <2>2, UnitEndIs
<1>11. H264!Fits(o)
  <2>1. o + m # Len(file)
    BY <1>1, <1>6
  <2>2. (o + m) + CodeSize(o + m) - o <= VideoFrameSize
    <3>1. CodeSize(o + m) \in Nat
      BY DEF CodeSize
    <3> QED
      BY <1>1, <1>2, <1>8, <3>1
  <2> QED
    BY <1>10, <2>1, <2>2 DEF H264!Fits, CodeSize
<1>12. o + m < Len(file)
  BY <1>1, <1>2, <1>6
<1> QED
  BY <1>2, <1>3, <1>4, <1>7, <1>10, <1>11, <1>12 DEF m

\* A block without a further code holds the last unit, or the first part of one
\* that does not fit.
LEMMA LastUnit ==
    ASSUME H264Types, AtCode(offset), FurtherCodes = {}
    PROVE  /\ H264!ReadSize = IF H264!Fits(offset)
                              THEN H264!UnitEnd(offset) - offset ELSE VideoFrameSize
           /\ H264!Fits(offset) => H264!UnitEnd(offset) = Len(file)
<1> DEFINE o == offset
           end == H264!UnitEnd(o)
           S == {j \in H264!UnitStarts : j > o} \cup {Len(file)}
<1>1. /\ o \in Nat /\ Len(file) \in Nat /\ VideoFrameSize \in Nat /\ o <= Len(file)
      /\ H264!ReadSize = IF VideoFrameSize <= Len(file) - o
                         THEN VideoFrameSize ELSE Len(file) - o
  BY BlockSize
<1>2. o < Len(file)
  BY <1>1, CodeIsRead
<1>3. \A j \in H264!UnitStarts :
         j > o => j \in Nat /\ j # Len(file) /\ ~(j + CodeSize(j) - o <= VideoFrameSize)
  BY <1>1, UnitSeen DEF H264!UnitStarts
<1>4. end \in S
  <2>1. S \in SUBSET Nat /\ S # {}
    BY <1>1 DEF H264!UnitStarts
  <2>2. end = H264!Min(S)
    BY DEF H264!UnitEnd
  <2> HIDE DEF S, end
  <2> QED
    BY <2>1, <2>2, LeastIs
<1>5. H264!Fits(o) => end = Len(file) /\ Len(file) - o <= VideoFrameSize
  <2>1. CASE end = Len(file)
    <3>1. H264!Fits(o) <=> Len(file) + 0 - o <= VideoFrameSize
      BY <2>1 DEF H264!Fits
    <3> QED
      BY <1>1, <2>1, <3>1
  <2>2. CASE end # Len(file)
    <3>1. H264!Fits(o) <=> end + CodeSize(end) - o <= VideoFrameSize
      BY <2>2 DEF H264!Fits, CodeSize
    <3> QED
      BY <1>3, <1>4, <2>2, <3>1
  <2> QED
    BY <2>1, <2>2
<1>6. Len(file) - o <= VideoFrameSize => end = Len(file) /\ H264!Fits(o)
  <2> SUFFICES ASSUME Len(file) - o <= VideoFrameSize
               PROVE  end = Len(file) /\ H264!Fits(o)
    OBVIOUS
  <2>1. ASSUME NEW j \in H264!UnitStarts, j > o PROVE FALSE
    <3>1. j \in 0 .. Len(file) - 3 /\ j + CodeSize(j) <= Len(file)
      <4>1. j \in 0 .. Len(file) - 3
        BY DEF H264!UnitStarts
      <4> QED
        BY <1>1, <4>1 DEF CodeSize, H264!Code4
    <3>2. CodeSize(j) \in Nat
      BY DEF CodeSize
    <3> QED
      BY <1>1, <1>3, <2>1, <3>1, <3>2
  <2>2. end = Len(file)
    BY <1>4, <2>1
  <2>3. H264!Fits(o) <=> Len(file) + 0 - o <= VideoFrameSize
    BY <2>2 DEF H264!Fits
  <2> QED
    BY <1>1, <2>2, <2>3
<1> QED
  BY <1>1, <1>5, <1>6

-----------------------------------------------------------------------------
(* Video files: every read *)

\* Of a file that does not begin with a start code, blocks are read one after
\* the other until one begins with a code, or the file ends.
Searching ==
    /\ ~H264!WellFormed
    /\ offset % VideoFrameSize = 0 \/ offset = Len(file)
    /\ offset > 0 /\ ~past => NoCode(m_buffer_)

\* Otherwise a read starts at a code.  The two conjuncts at the end are the
\* properties of a video file.
H264Inv ==
    /\ H264Types
    /\ past \in BOOLEAN /\ failed = FALSE
    /\ AtCode(offset) \/ Searching
    /\ H264!FramesAreUnits
    /\ H264!OnlyDamagedFail

\* Places that are whole blocks away from the beginning.
LEMMA WholeBlocks ==
    ASSUME NEW size \in Nat, size > 0, NEW o \in Nat, o % size = 0
    PROVE  /\ (o + size) % size = 0
           /\ \A r \in Nat : r < size => (o + r) % size = r
<1>1. PICK q \in Nat : o = q * size
  <2>1. o = size * (o \div size) + (o % size) /\ o \div size \in Nat
    OBVIOUS
  <2>2. o = (o \div size) * size
    BY <2>1
  <2> QED
    BY <2>1, <2>2
<1>2. (o + size) % size = 0
  <2>1. o + size = (q + 1) * size
    BY <1>1
  <2>2. ASSUME NEW p \in Nat PROVE (p * size) % size = 0
    OBVIOUS
  <2>3. q + 1 \in Nat
    OBVIOUS
  <2>4. ((q + 1) * size) % size = 0
    BY <2>2, <2>3, Zenon
  <2> QED
    BY <2>1, <2>4, Zenon
<1>3. ASSUME NEW r \in Nat, r < size
      PROVE  (o + r) % size = r
  <2>1. (q * size + r) % size = r
    BY <1>3
  <2> QED
    BY <1>1, <2>1
<1> QED
  BY <1>2, <1>3

\* A source starts at the beginning of its file.
LEMMA InitH264Inv == H264Init => H264Inv
<1> SUFFICES ASSUME H264Init PROVE H264Inv
  OBVIOUS
<1>1. /\ file \in VideoFiles /\ offset = 0 /\ frame = H264!NoFrame /\ past = FALSE
      /\ m_buffer_ = [k \in 0 .. VideoFrameSize - 1 |-> H264!Other] /\ failed = FALSE
  BY DEF H264Init, H264!Init
<1>2. m_buffer_ \in [0 .. VideoFrameSize - 1 -> 0 .. 2]
  BY <1>1 DEF H264!Other
<1>3. frame.size = 0 /\ frame.skip = 0
  BY <1>1 DEF H264!NoFrame
<1>4. Len(file) \in Nat
  BY <1>1, FileAssumption
<1>5. H264Types
  BY <1>1, <1>2, <1>3, <1>4 DEF H264Types
<1>6. past \in BOOLEAN /\ ~past
  BY <1>1
<1>7. H264!WellFormed => offset \in H264!UnitStarts /\ AtCode(offset)
  BY <1>1 DEF H264!WellFormed, H264!UnitStarts, AtCode
<1>8. ~H264!WellFormed => Searching
  <2>1. 0 % VideoFrameSize = 0
    BY <1>5, BlockSize
  <2> QED
    BY <1>1, <2>1 DEF Searching
<1>9. H264!FramesAreUnits
  BY <1>1 DEF H264!FramesAreUnits
<1>10. H264!OnlyDamagedFail
  BY <1>3, <1>6, <1>7 DEF H264!OnlyDamagedFail
<1> QED
  BY <1>1, <1>5, <1>6, <1>7, <1>8, <1>9, <1>10 DEF H264Inv

\* What a read leaves alone.
LEMMA SameFile ==
    ASSUME file' = file
    PROVE  /\ H264!UnitStarts' = H264!UnitStarts
           /\ H264!WellFormed' <=> H264!WellFormed
           /\ \A k : AtCode(k)' <=> AtCode(k)
           /\ H264!FramesAreUnits' <=>
                 (H264!WellFormed /\ frame' # H264!NoFrame =>
                     /\ frame'.from \in H264!UnitStarts
                     /\ frame'.size = IF H264!Fits(frame'.from)
                                      THEN H264!UnitEnd(frame'.from) - frame'.from
                                      ELSE VideoFrameSize
                     /\ offset' = IF /\ H264!Fits(frame'.from)
                                     /\ H264!UnitEnd(frame'.from) < Len(file)
                                  THEN H264!UnitEnd(frame'.from) ELSE 0)
           /\ H264!OnlyDamagedFail' <=>
                 /\ H264!WellFormed => offset' \in H264!UnitStarts
                 /\ past' \/ frame'.skip > frame'.size =>
                       ~H264!WellFormed /\ Len(file) % VideoFrameSize \in {1, 2, 3}
<1> USE DEF H264!UnitStarts, H264!Code3, H264!Code4, H264!WellFormed
<1>1. H264!UnitStarts' = H264!UnitStarts
  OBVIOUS
<1>2. H264!WellFormed' <=> H264!WellFormed
  OBVIOUS
<1>3. \A k : AtCode(k)' <=> AtCode(k)
  BY DEF AtCode
<1>4. H264!FramesAreUnits' <=>
         (H264!WellFormed /\ frame' # H264!NoFrame =>
             /\ frame'.from \in H264!UnitStarts
             /\ frame'.size = IF H264!Fits(frame'.from)
                              THEN H264!UnitEnd(frame'.from) - frame'.from
                              ELSE VideoFrameSize
             /\ offset' = IF /\ H264!Fits(frame'.from)
                             /\ H264!UnitEnd(frame'.from) < Len(file)
                          THEN H264!UnitEnd(frame'.from) ELSE 0)
  BY DEF H264!FramesAreUnits, H264!Fits, H264!UnitEnd, H264!NoFrame
<1>5. H264!OnlyDamagedFail' <=>
         /\ H264!WellFormed => offset' \in H264!UnitStarts
         /\ past' \/ frame'.skip > frame'.size =>
               ~H264!WellFormed /\ Len(file) % VideoFrameSize \in {1, 2, 3}
  BY DEF H264!OnlyDamagedFail
<1> QED
  BY <1>1, <1>2, <1>3, <1>4, <1>5

\* A read that starts at a code hands on a unit, and the next starts at a code.
LEMMA StepAtCode ==
    ASSUME H264Inv, H264ReadFrame, AtCode(offset)
    PROVE  H264Inv'
<1> DEFINE R == H264!ReadSize
           m == H264!Min(FurtherCodes)
<1>1. /\ H264Types /\ ~past /\ m_buffer_' = H264!ReadBlock /\ file' = file
      /\ failed' = failed /\ failed = FALSE
  BY DEF H264Inv, H264ReadFrame, H264!ReadFrame
<1>2. /\ R \in Nat /\ R >= 3 /\ offset \in Nat /\ Len(file) \in Nat
      /\ offset + R <= Len(file) /\ ~NoCode(m_buffer_')
      /\ VideoFrameSize \in Nat /\ VideoFrameSize >= 4
  BY <1>1, BlockSize, CodeIsRead
<1>3. H264!Deliver
  <2>1. ~(R < 3)
    BY <1>2
  <2> QED
    BY <1>2, <2>1 DEF H264ReadFrame, H264!ReadFrame, NoCode
<1> DEFINE skip == IF H264!Code3(offset) THEN 3 ELSE 4
<1>4. skip = IF H264!StartCode3(m_buffer_', 0) THEN 3 ELSE 4
  BY <1>1, CodeIsRead
<1>5. H264!StartCodes(m_buffer_', 3, R - 3) = FurtherCodes
  BY <1>1 DEF FurtherCodes
<1>6. past' = past
  BY <1>3 DEF H264!Deliver, H264!HandOn
<1> DEFINE size == IF FurtherCodes = {} THEN R ELSE m
<1>7. frame' = [from |-> offset, size |-> size, skip |-> skip]
  BY <1>3, <1>4, <1>5 DEF H264!Deliver, H264!HandOn
<1>8. offset' = IF FurtherCodes = {} THEN 0 ELSE offset + m
  BY <1>3, <1>5 DEF H264!Deliver
<1>9. /\ size \in Nat /\ size >= 3 /\ (H264!Code4(offset) => size >= 4)
      /\ size = IF H264!Fits(offset) THEN H264!UnitEnd(offset) - offset ELSE VideoFrameSize
      /\ offset' = IF H264!Fits(offset) /\ H264!UnitEnd(offset) < Len(file)
                   THEN H264!UnitEnd(offset) ELSE 0
  <2>1. CASE FurtherCodes = {}
    <3>1. /\ R = IF H264!Fits(offset) THEN H264!UnitEnd(offset) - offset ELSE VideoFrameSize
          /\ H264!Fits(offset) => H264!UnitEnd(offset) = Len(file)
      BY <1>1, <2>1, LastUnit
    <3> QED
      BY <1>1, <1>2, <1>8, <2>1, <3>1, CodeIsRead
  <2>2. CASE FurtherCodes # {}
    <3>1. /\ m \in Nat /\ m >= 3 /\ H264!UnitEnd(offset) = offset + m /\ H264!Fits(offset)
          /\ offset + m < Len(file)
          /\ H264!Code4(offset) => m >= 4
      BY <1>1, <2>2, NextUnit
    <3> HIDE DEF m
    <3>2. m = H264!UnitEnd(offset) - offset
      BY <1>2, <3>1
    <3> QED
      BY <1>8, <2>2, <3>1, <3>2 DEF m
  <2> QED
    BY <2>1, <2>2
<1>10. /\ offset' \in 0 .. Len(file)
       /\ H264!WellFormed => offset' \in H264!UnitStarts
       /\ AtCode(offset') \/ (~H264!WellFormed /\ offset' = 0)
  <2>1. \A n \in H264!UnitStarts : n \in 0 .. Len(file) /\ AtCode(n)
    BY <1>2 DEF H264!UnitStarts, AtCode
  <2>2. CASE FurtherCodes = {}
    BY <1>2, <1>8, <2>1, <2>2 DEF H264!WellFormed
  <2>3. CASE FurtherCodes # {}
    <3>1. offset + m \in H264!UnitStarts
      BY <1>1, <2>3, NextUnit
    <3> QED
      BY <1>8, <2>1, <2>3, <3>1
  <2> QED
    BY <2>2, <2>3
<1> HIDE DEF size, m, R, skip
<1>11. ~(frame'.skip > frame'.size)
  <2>1. skip <= size
    BY <1>9 DEF skip, AtCode
  <2>2. frame'.skip = skip /\ frame'.size = size /\ skip \in Nat
    BY <1>7 DEF skip
  <2> QED
    BY <1>9, <2>1, <2>2
<1>12. H264!OnlyDamagedFail'
  BY <1>1, <1>6, <1>10, <1>11, SameFile
<1>13. H264!FramesAreUnits'
  <2>1. H264!WellFormed => offset \in H264!UnitStarts
    BY DEF H264Inv, H264!OnlyDamagedFail
  <2>2. frame'.from = offset /\ frame'.size = size
    BY <1>7
  <2>3. H264!WellFormed =>
           /\ frame'.from \in H264!UnitStarts
           /\ frame'.size = IF H264!Fits(frame'.from)
                            THEN H264!UnitEnd(frame'.from) - frame'.from
                            ELSE VideoFrameSize
           /\ offset' = IF /\ H264!Fits(frame'.from)
                           /\ H264!UnitEnd(frame'.from) < Len(file)
                        THEN H264!UnitEnd(frame'.from) ELSE 0
    BY <1>9, <2>1, <2>2
  <2> QED
    BY <1>1, <2>3, SameFile
<1>14. H264Types'
  <2>1. frame'.size \in Nat
    BY <1>7, <1>9
  <2>2. m_buffer_' \in [0 .. VideoFrameSize - 1 -> 0 .. 2]
    BY <1>1, BlockBytes
  <2> QED
    BY <1>1, <1>10, <2>1, <2>2 DEF H264Types
<1>15. (AtCode(offset) \/ Searching)'
  <2>1. CASE AtCode(offset')
    BY <1>1, <2>1 DEF AtCode, H264!Code3, H264!Code4
  <2>2. CASE ~H264!WellFormed /\ offset' = 0
    <3>1. 0 % VideoFrameSize = 0
      BY <1>2
    <3>2. ~H264!WellFormed'
      BY <1>1, <2>2, SameFile
    <3> QED
      BY <2>2, <3>1, <3>2 DEF Searching
  <2> QED
    BY <1>10, <2>1, <2>2
<1>16. past' \in BOOLEAN /\ failed' = FALSE
  BY <1>1, <1>6 DEF H264Inv
<1> QED
  BY <1>12, <1>13, <1>14, <1>15, <1>16 DEF H264Inv

\* A read that does not finds no code either, or a false one behind the last
\* bytes of the file.
LEMMA StepSearching ==
    ASSUME H264Inv, H264ReadFrame, ~AtCode(offset)
    PROVE  H264Inv'
<1> DEFINE R == H264!ReadSize
<1>1. /\ H264Types /\ ~past /\ m_buffer_' = H264!ReadBlock /\ file' = file
      /\ failed' = failed /\ failed = FALSE
  BY DEF H264Inv, H264ReadFrame, H264!ReadFrame
<1>2. /\ R \in Nat /\ offset \in Nat /\ Len(file) \in Nat /\ offset <= Len(file)
      /\ VideoFrameSize \in Nat /\ VideoFrameSize >= 4 /\ Len(file) >= 4
      /\ R = IF VideoFrameSize <= Len(file) - offset
             THEN VideoFrameSize ELSE Len(file) - offset
  BY <1>1, BlockSize
<1>3. /\ Searching /\ ~H264!WellFormed
      /\ offset % VideoFrameSize = 0 \/ offset = Len(file)
      /\ offset > 0 => NoCode(m_buffer_)
  BY <1>1 DEF H264Inv, Searching
<1>4. m_buffer_' \in [0 .. VideoFrameSize - 1 -> 0 .. 2]
  BY <1>1, BlockBytes
<1>5. H264!FramesAreUnits'
  BY <1>1, <1>3, SameFile
<1>6. past \/ frame.skip > frame.size => Len(file) % VideoFrameSize \in {1, 2, 3}
  BY DEF H264Inv, H264!OnlyDamagedFail
<1>7. CASE NoCode(m_buffer_')
  <2>1. H264!Fail
    BY <1>7 DEF H264ReadFrame, H264!ReadFrame, NoCode
  <2>2. offset' = offset + R /\ frame' = frame /\ past' = past
    BY <2>1 DEF H264!Fail
  <2>3. offset' \in 0 .. Len(file)
    BY <1>2, <2>2
  <2>4. offset' % VideoFrameSize = 0 \/ offset' = Len(file)
    <3>1. CASE VideoFrameSize <= Len(file) - offset
      <4>1. offset # Len(file) /\ offset' = offset + VideoFrameSize
        BY <1>2, <2>2, <3>1
      <4> QED
        BY <1>2, <1>3, <4>1, WholeBlocks
    <3>2. CASE ~(VideoFrameSize <= Len(file) - offset)
      BY <1>2, <2>2, <3>2
    <3> QED
      BY <3>1, <3>2
  <2>5. Searching'
    <3>1. ~H264!WellFormed'
      BY <1>1, <1>3, SameFile
    <3>2. NoCode(m_buffer_)'
      BY <1>7 DEF NoCode
    <3> QED
      BY <1>1, <2>4, <3>1, <3>2 DEF Searching
  <2>6. H264Types'
    BY <1>1, <1>4, <2>2, <2>3 DEF H264Types
  <2>7. H264!OnlyDamagedFail'
    BY <1>1, <1>3, <1>6, <2>2, SameFile
  <2> QED
    BY <1>1, <1>5, <2>2, <2>5, <2>6, <2>7 DEF H264Inv
<1>8. CASE ~NoCode(m_buffer_')
  <2>1. ~(R >= 4)
    <3> SUFFICES ASSUME R >= 4 PROVE FALSE
      OBVIOUS
    <3>1. 0 + 3 <= R /\ 0 + 4 <= R /\ offset + 0 = offset
      BY <1>2
    <3>2. /\ H264!StartCode3(m_buffer_', 0) <=> H264!Code3(offset)
          /\ H264!StartCode4(m_buffer_', 0) <=> H264!Code4(offset)
      BY <1>1, <3>1, BlockCodes
    <3> QED
      BY <1>8, <3>2 DEF NoCode, AtCode
  <2>2. R # 0
    <3> SUFFICES ASSUME R = 0 PROVE FALSE
      OBVIOUS
    <3>1. m_buffer_' = m_buffer_
      BY <1>1, BlockBytes
    <3>2. offset > 0
      BY <1>2
    <3> QED
      BY <1>3, <1>8, <3>1, <3>2
  <2>3. R \in {1, 2, 3} /\ R = Len(file) - offset /\ offset # Len(file)
    BY <1>2, <2>1, <2>2
  <2>4. Len(file) % VideoFrameSize = R /\ offset % VideoFrameSize = 0
    <3>1. offset % VideoFrameSize = 0 /\ R < VideoFrameSize /\ Len(file) = offset + R
      BY <1>2, <1>3, <2>3
    <3>2. VideoFrameSize > 0
      BY <1>2
    <3>3. (offset + R) % VideoFrameSize = R
      BY <1>2, <3>1, <3>2, WholeBlocks, Zenon
    <3> QED
      BY <3>1, <3>3, Zenon
  <2>5. Len(file) % VideoFrameSize \in {1, 2, 3}
    BY <2>3, <2>4
  <2>6. \/ past' = TRUE /\ offset' = offset /\ frame' = frame
        \/ past' = past /\ offset' = 0 /\ frame'.size = R
    <3>1. CASE R < 3
      BY <1>8, <3>1 DEF H264ReadFrame, H264!ReadFrame, NoCode
    <3>2. CASE ~(R < 3)
      <4>1. R = 3
        BY <2>3, <3>2
      <4>2. H264!Deliver
        BY <1>8, <3>2 DEF H264ReadFrame, H264!ReadFrame, NoCode
      <4>3. H264!StartCodes(m_buffer_', 3, R - 3) = {}
        BY <4>1 DEF H264!StartCodes
      <4> QED
        BY <4>2, <4>3 DEF H264!Deliver, H264!HandOn
    <3> QED
      BY <3>1, <3>2
  <2>7. H264Types'
    <3>1. frame'.size \in Nat /\ offset' \in 0 .. Len(file)
      BY <1>1, <1>2, <2>6 DEF H264Types
    <3> QED
      BY <1>1, <1>4, <3>1 DEF H264Types
  <2>8. Searching'
    <3>1. ~H264!WellFormed'
      BY <1>1, <1>3, SameFile
    <3>2. 0 % VideoFrameSize = 0
      BY <1>2
    <3>3. offset' % VideoFrameSize = 0 /\ (past' \/ ~(offset' > 0))
      BY <2>4, <2>6, <3>2
    <3> QED
      BY <3>1, <3>3 DEF Searching
  <2>9. H264!OnlyDamagedFail'
    BY <1>1, <1>3, <2>5, SameFile
  <2>10. past' \in BOOLEAN
    BY <1>1, <2>6 DEF H264Inv
  <2> QED
    BY <1>1, <1>5, <2>7, <2>8, <2>9, <2>10 DEF H264Inv
<1> QED
  BY <1>7, <1>8

-----------------------------------------------------------------------------
(* Both kinds of files *)

\* The invariant of the source's own format.
FileInv ==
    /\ format \in {"H264", "AAC"}
    /\ format = "H264" => H264Inv
    /\ format = "AAC" => AACInv

\* Either source starts with its invariant.
LEMMA InitFileInv == Init => FileInv
<1>1. H264Init => format = "H264"
  BY DEF H264Init
<1>2. AACInit => format = "AAC"
  BY DEF AACInit
<1> QED
  BY <1>1, <1>2, InitH264Inv, InitAACInv DEF Init, FileInv

\* Every read keeps it.
LEMMA StepFileInv == FileInv /\ [Next]_vars => FileInv'
<1> SUFFICES ASSUME FileInv, [Next]_vars PROVE FileInv'
  OBVIOUS
<1>1. CASE H264ReadFrame
  <2>1. format = "H264" /\ format' = format /\ H264Inv
    BY <1>1 DEF FileInv, H264ReadFrame
  <2>2. H264Inv'
    BY <1>1, <2>1, StepAtCode, StepSearching
  <2> QED
    BY <2>1, <2>2 DEF FileInv
<1>2. CASE AACReadFrame
  <2>1. format = "AAC" /\ format' = format /\ AACInv
    BY <1>2 DEF FileInv, AACReadFrame
  <2>2. AACInv'
    BY <1>2, <2>1, StepAACInv
  <2> QED
    BY <2>1, <2>2 DEF FileInv
<1>3. CASE UNCHANGED vars
  <2>1. UNCHANGED <<format, file, offset, frame, m_buffer_, past, failed>>
    BY <1>3 DEF vars, videoVars
  <2>2. format = "H264" => H264Inv'
    <3> SUFFICES ASSUME H264Inv PROVE H264Inv'
      BY DEF FileInv
    <3>1. H264!FramesAreUnits' /\ H264!OnlyDamagedFail'
      BY <2>1, SameFile DEF H264Inv, H264!FramesAreUnits, H264!OnlyDamagedFail
    <3>2. H264Types' /\ past' \in BOOLEAN /\ failed' = FALSE
      BY <2>1 DEF H264Inv, H264Types
    <3>3. (AtCode(offset) \/ Searching)'
      <4>1. AtCode(offset)' <=> AtCode(offset)
        BY <2>1 DEF AtCode, H264!Code3, H264!Code4
      <4>2. H264!WellFormed' <=> H264!WellFormed
        BY <2>1, SameFile
      <4> QED
        BY <2>1, <4>1, <4>2 DEF H264Inv, Searching, NoCode
    <3> QED
      BY <3>1, <3>2, <3>3 DEF H264Inv
  <2>3. format = "AAC" => AACInv'
    BY <2>1 DEF FileInv, AACInv, AACRight, AAC!FramesAreUnits, AAC!OnlyDamagedFail,
                AAC!WellFormed, AAC!UnitStarts, AAC!Headers, AAC!FileLen, AAC!Files
  <2> QED
    BY <2>1, <2>2, <2>3 DEF FileInv
<1> QED
  BY <1>1, <1>2, <1>3 DEF Next

\* Of a file of any length that begins with a start code, or is ADTS frames from
\* end to end with lengths of at least a header, what either GetFrameFrom...
\* hands on are the file's units, as far as they fit a frame.
THEOREM FramesAreUnitsAlways == Spec => []FramesAreUnits
<1>1. FileInv => FramesAreUnits
  <2> SUFFICES ASSUME FileInv PROVE FramesAreUnits
    OBVIOUS
  <2>1. CASE format = "H264"
    <3>1. H264Inv
      BY <2>1 DEF FileInv
    <3>2. offset \in 0 .. MaxLen + 3
      <4>1. /\ offset \in Nat /\ Len(file) \in Nat
            /\ offset <= Len(file) /\ Len(file) <= MaxLen + 3
        BY <3>1, BlockSize DEF H264Inv
      <4> QED
        BY <4>1, FileAssumption
    <3>3. failed \in BOOLEAN
      BY <3>1 DEF H264Inv
    <3>4. TypeOK
      BY <2>1, <3>1, <3>2, <3>3 DEF TypeOK, H264Inv, H264Types
    <3> QED
      BY <2>1, <3>1, <3>4 DEF FramesAreUnits, H264Inv
  <2>2. CASE format = "AAC"
    <3>1. AACInv
      BY <2>2 DEF FileInv
    <3>2. offset \in 0 .. MaxLen + 3
      <4>1. AAC!FileLen \in 0 .. MaxLen
        BY <3>1, AACFileLen DEF AACInv
      <4> QED
        BY <3>1, <4>1, FileAssumption DEF AACInv
    <3>3. past \in BOOLEAN
      BY <3>1 DEF AACInv
    <3>4. TypeOK
      BY <2>2, <3>1, <3>2, <3>3 DEF TypeOK, AACInv
    <3> QED
      BY <2>2, <3>1, <3>4 DEF FramesAreUnits, AACInv, AACRight
  <2> QED
    BY <2>1, <2>2 DEF FileInv
<1> QED
  BY <1>1, InitFileInv, StepFileInv, PTL DEF Spec

\* Only a damaged file makes either GetFrameFrom... fail, or scan behind the
\* bytes that were read.
THEOREM OnlyDamagedFailAlways == Spec => []OnlyDamagedFail
<1>1. FileInv => OnlyDamagedFail
  BY DEF FileInv, OnlyDamagedFail, H264Inv, AACInv, AACRight
<1> QED
  BY <1>1, InitFileInv, StepFileInv, PTL DEF Spec
=============================================================================
