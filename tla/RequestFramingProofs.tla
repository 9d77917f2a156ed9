------------------------- MODULE RequestFramingProofs ------------------------
(***************************************************************************)
(* Proofs of the invariants of RequestFraming, for any number of messages, *)
(* any payloads, and whatever TCP makes of them.                           *)
(***************************************************************************)
EXTENDS RequestFraming, SequenceTheorems, FiniteSetTheorems, TLAPS

-----------------------------------------------------------------------------
(* The least and the greatest of a set of numbers *)

LEMMA Least ==
    ASSUME NEW S \in SUBSET Nat, S # {}
    PROVE  /\ Min(S) \in S
           /\ \A n \in S : Min(S) <= n
<1> DEFINE R == OpToRel(<, Nat)
<1>1. IsWellFoundedOn(R, Nat)
  BY NatLessThanWellFounded
<1>2. \A n, m \in Nat : n < m => <<n, m>> \in R
  BY DEF OpToRel
<1> HIDE DEF R
<1>3. PICK n \in S : \A m \in S : ~(<<m, n>> \in R)
  BY <1>1, WFMin
<1>4. \A m \in S : ~(m < n)
  BY <1>2, <1>3
<1>5. \A m \in S : n <= m
  BY <1>4, n \in Nat, S \subseteq Nat
<1> QED
  BY <1>5 DEF Min

LEMMA Greatest ==
    ASSUME NEW n \in Nat, NEW S \in SUBSET (1 .. n), S # {}
    PROVE  /\ Max(S) \in S
           /\ \A k \in S : Max(S) >= k
<1> DEFINE T == {n - k : k \in S}
<1>1. T \in SUBSET Nat /\ T # {}
  <2>1. \A k \in S : n - k \in Nat
    OBVIOUS
  <2> QED
    BY <2>1
<1> HIDE DEF T
<1>2. Min(T) \in T /\ \A t \in T : Min(T) <= t
  BY <1>1, Least
<1>3. PICK m \in S : Min(T) = n - m
  BY <1>2 DEF T
<1>4. \A k \in S : m >= k
  <2> SUFFICES ASSUME NEW k \in S PROVE m >= k
    OBVIOUS
  <2>1. n - k \in T
    BY DEF T
  <2>2. n - m <= n - k
    BY <1>2, <1>3, <2>1
  <2> QED
    BY <2>2, m \in 1 .. n, k \in 1 .. n
<1> QED
  BY <1>4 DEF Max

-----------------------------------------------------------------------------
(* The text of a message *)

Alphabet == {"line", "CSeq", "Transport", "CR", "LF", "$", "channel", "high", "low", "data"}
AnyByte == [msg : Nat, pos : Nat, symbol : Alphabet]

\* A request is its line, its headers and two ends of a line.
LEMMA RequestText ==
    ASSUME NEW m \in Requests
    PROVE  /\ Text(m) \in Seq(Alphabet)
           /\ Len(Text(m)) = IF m.kind \in Setups THEN 11 ELSE 8
           /\ Text(m)[1] = "line" /\ Text(m)[2] = "CR" /\ Text(m)[3] = "LF"
           /\ Text(m)[4] = "CSeq" /\ Text(m)[5] = "CR" /\ Text(m)[6] = "LF"
           /\ m.kind \in Setups =>
                 /\ Text(m)[7] = "Transport" /\ Text(m)[8] = "CR" /\ Text(m)[9] = "LF"
                 /\ Text(m)[10] = "CR" /\ Text(m)[11] = "LF"
           /\ m.kind \notin Setups => Text(m)[7] = "CR" /\ Text(m)[8] = "LF"
<1>1. m.kind \in RequestKinds /\ m.kind # "PACKET"
  BY DEF Requests, RequestKinds
<1>2. CASE m.kind \in Setups
  <2>1. Text(m) = <<"line">> \o CRLF \o <<"CSeq">> \o CRLF \o <<"Transport">> \o CRLF \o CRLF
    BY <1>1, <1>2 DEF Text, RequestKinds, Setups
  <2> QED
    BY <1>2, <2>1 DEF CRLF, Alphabet
<1>3. CASE m.kind \notin Setups
  <2>1. Text(m) = <<"line">> \o CRLF \o <<"CSeq">> \o CRLF \o CRLF
    BY <1>1, <1>3 DEF Text
  <2> QED
    BY <1>3, <2>1 DEF CRLF, Alphabet
<1> QED
  BY <1>2, <1>3

LEMMA PacketText ==
    ASSUME NEW m \in Packets
    PROVE  /\ Text(m) \in Seq(Alphabet)
           /\ m.payload \in Seq({"CR", "LF", "data"})
           /\ Len(m.payload) \in Nat
           /\ Len(Text(m)) = 4 + Len(m.payload)
           /\ Text(m)[1] = "$" /\ Text(m)[2] = "channel" /\ Text(m)[3] = "high"
           /\ Text(m)[4] = "low"
           /\ \A k \in 1 .. Len(m.payload) : Text(m)[k + 4] = m.payload[k]
<1> DEFINE head == <<"$", "channel", "high", "low">>
<1>1. m.kind = "PACKET" /\ m.payload \in Seq({"CR", "LF", "data"})
  <2>1. m.kind = "PACKET" /\ m.payload \in Payloads
    BY DEF Packets
  <2> QED
    BY <2>1, FramingAssumption
<1>2. Text(m) = head \o m.payload
  BY <1>1 DEF Text, Setups
<1>3. head \in Seq(Alphabet) /\ Len(head) = 4
  BY DEF Alphabet
<1>4. m.payload \in Seq(Alphabet) /\ Len(m.payload) \in Nat
  BY <1>1, SeqMonotonic, LenProperties DEF Alphabet
<1>5. /\ Text(m) \in Seq(Alphabet) /\ Len(Text(m)) = 4 + Len(m.payload)
      /\ \A k \in 1 .. 4 + Len(m.payload) :
            Text(m)[k] = IF k <= 4 THEN head[k] ELSE m.payload[k - 4]
  BY <1>2, <1>3, <1>4, ConcatProperties
<1>6. \A k \in 1 .. Len(m.payload) : Text(m)[k + 4] = m.payload[k]
  <2> HIDE DEF head
  <2> SUFFICES ASSUME NEW k \in 1 .. Len(m.payload) PROVE Text(m)[k + 4] = m.payload[k]
    OBVIOUS
  <2>1. k + 4 \in 1 .. 4 + Len(m.payload) /\ ~(k + 4 <= 4) /\ k + 4 - 4 = k
    BY <1>4
  <2> QED
    BY <1>5, <2>1
<1>7. Text(m)[1] = head[1] /\ Text(m)[2] = head[2] /\ Text(m)[3] = head[3] /\ Text(m)[4] = head[4]
  <2>1. 1 \in 1 .. 4 + Len(m.payload) /\ 2 \in 1 .. 4 + Len(m.payload)
        /\ 3 \in 1 .. 4 + Len(m.payload) /\ 4 \in 1 .. 4 + Len(m.payload)
    BY <1>4
  <2> HIDE DEF head
  <2> QED
    BY <1>5, <2>1
<1> QED
  BY <1>1, <1>4, <1>5, <1>6, <1>7

LEMMA NoTransportInPacket ==
    ASSUME NEW m \in Packets, NEW k \in 1 .. Len(Text(m))
    PROVE  Text(m)[k] # "Transport"
<1>1. /\ m.payload \in Seq({"CR", "LF", "data"}) /\ Len(m.payload) \in Nat
      /\ Len(Text(m)) = 4 + Len(m.payload)
      /\ Text(m)[1] = "$" /\ Text(m)[2] = "channel" /\ Text(m)[3] = "high" /\ Text(m)[4] = "low"
      /\ \A j \in 1 .. Len(m.payload) : Text(m)[j + 4] = m.payload[j]
  BY PacketText
<1>2. CASE k \in {1, 2, 3, 4}
  BY <1>1, <1>2
<1>3. CASE k > 4
  <2> DEFINE j == k - 4
  <2>1. j \in 1 .. Len(m.payload) /\ j + 4 = k
    BY <1>1, <1>3
  <2> HIDE DEF j
  <2>2. m.payload[j] \in {"CR", "LF", "data"}
    BY <1>1, <2>1, ElementOfSeq
  <2> QED
    BY <1>1, <2>1, <2>2
<1> QED
  BY <1>1, <1>2, <1>3

\* A message has at least the four bytes of a packet's header; only a request
\* begins with a line and only a packet with the dollar sign, and neither stands
\* anywhere else; and no message begins in the middle of CR LF.
LEMMA MessageText ==
    ASSUME NEW m \in Requests \cup Packets
    PROVE  /\ Text(m) \in Seq(Alphabet) /\ Len(Text(m)) \in Nat /\ Len(Text(m)) >= 4
           /\ Text(m)[1] = IF m \in Requests THEN "line" ELSE "$"
           /\ \A k \in 1 .. Len(Text(m)) : Text(m)[k] \in {"line", "$"} => k = 1
<1>1. CASE m \in Requests
  <2>1. \A k \in 1 .. Len(Text(m)) : Text(m)[k] \in {"line", "$"} => k = 1
    <3> SUFFICES ASSUME NEW k \in 1 .. Len(Text(m)), k # 1
                 PROVE  Text(m)[k] \notin {"line", "$"}
      OBVIOUS
    <3>1. CASE m.kind \in Setups
      <4>1. Len(Text(m)) = 11
        BY <1>1, <3>1, RequestText
      <4>2. k \in {2, 3, 4, 5, 6, 7, 8, 9, 10, 11}
        BY <4>1
      <4> QED
        BY <1>1, <3>1, <4>2, RequestText
    <3>2. CASE m.kind \notin Setups
      <4>1. Len(Text(m)) = 8
        BY <1>1, <3>2, RequestText
      <4>2. k \in {2, 3, 4, 5, 6, 7, 8}
        BY <4>1
      <4> QED
        BY <1>1, <3>2, <4>2, RequestText
    <3> QED
      BY <3>1, <3>2
  <2> QED
    BY <1>1, <2>1, RequestText
<1>2. CASE m \notin Requests
  <2>1. m \in Packets
    BY <1>2
  <2>2. \A k \in 1 .. Len(Text(m)) : Text(m)[k] \in {"line", "$"} => k = 1
    <3> SUFFICES ASSUME NEW k \in 1 .. Len(Text(m)), k # 1
                 PROVE  Text(m)[k] \notin {"line", "$"}
      OBVIOUS
    <3>1. Len(m.payload) \in Nat /\ Len(Text(m)) = 4 + Len(m.payload)
      BY <2>1, PacketText
    <3>2. k \in {2, 3, 4} \/ k - 4 \in 1 .. Len(m.payload)
      BY <3>1
    <3>3. ASSUME k - 4 \in 1 .. Len(m.payload)
          PROVE  Text(m)[k] \in {"CR", "LF", "data"}
      <4>1. Text(m)[(k - 4) + 4] = m.payload[k - 4]
        BY <2>1, <3>3, PacketText
      <4>2. m.payload[k - 4] \in {"CR", "LF", "data"}
        BY <2>1, <3>3, PacketText, ElementOfSeq
      <4>3. (k - 4) + 4 = k
        OBVIOUS
      <4> QED
        BY <4>1, <4>2, <4>3
    <3> QED
      BY <2>1, <3>2, <3>3, PacketText
  <2>3. Len(Text(m)) \in Nat /\ Len(Text(m)) >= 4
    BY <2>1, PacketText
  <2> QED
    BY <1>2, <2>1, <2>2, <2>3, PacketText
<1> QED
  BY <1>1, <1>2

-----------------------------------------------------------------------------
(* The bytes of a client, whole or a part of them *)

Messages == Requests \cup Packets

Length(ms, i) == Len(Text(ms[i]))

IsByte(ms, x) == /\ x.msg \in 1 .. Len(ms)
                 /\ x.pos \in 1 .. Length(ms, x.msg)
                 /\ x.symbol = Text(ms[x.msg])[x.pos]

\* Bytes of the messages in the order they were sent, none left out in between.
Contiguous(ms, q) ==
    /\ \A k \in 1 .. Len(q) : IsByte(ms, q[k])
    /\ \A j, k \in 1 .. Len(q) : j < k =>
          q[j].msg < q[k].msg \/ (q[j].msg = q[k].msg /\ q[j].pos < q[k].pos)
    /\ \A j, k \in 1 .. Len(q) :
          j < k /\ q[j].pos + (k - j) <= Length(ms, q[j].msg)
            => q[k].msg = q[j].msg /\ q[k].pos = q[j].pos + (k - j)
    /\ \A k \in 1 .. Len(q) - 1 :
          q[k].pos = Length(ms, q[k].msg) => q[k + 1].msg = q[k].msg + 1 /\ q[k + 1].pos = 1

\* The last message is there to its end.
EndsWhole(ms, q) ==
    q # <<>> => /\ q[Len(q)].msg = Len(ms)
                /\ q[Len(q)].pos = Length(ms, Len(ms))

\* The bytes of s from the one after a on, not necessarily all of them.
Part(q, s, a) == /\ a + Len(q) <= Len(s)
                 /\ \A k \in 1 .. Len(q) : q[k] = s[a + k]

\* Consecutive bytes of a contiguous stream are contiguous.
LEMMA PartContiguous ==
    ASSUME NEW ms, NEW s \in Seq(AnyByte), NEW q \in Seq(AnyByte), NEW a \in Nat,
           Part(q, s, a), Contiguous(ms, s)
    PROVE  Contiguous(ms, q)
<1>1. Len(s) \in Nat /\ Len(q) \in Nat /\ a + Len(q) <= Len(s)
  BY LenProperties DEF Part
<1>2. \A k \in 1 .. Len(q) : q[k] = s[a + k] /\ a + k \in 1 .. Len(s)
  BY <1>1 DEF Part
<1>3. \A k \in 1 .. Len(q) : IsByte(ms, q[k])
  BY <1>2 DEF Contiguous
<1>4. ASSUME NEW j \in 1 .. Len(q), NEW k \in 1 .. Len(q), j < k
      PROVE  /\ q[j].msg < q[k].msg \/ (q[j].msg = q[k].msg /\ q[j].pos < q[k].pos)
             /\ q[j].pos + (k - j) <= Length(ms, q[j].msg)
                  => q[k].msg = q[j].msg /\ q[k].pos = q[j].pos + (k - j)
  <2>1. a + j < a + k /\ (a + k) - (a + j) = k - j
    BY <1>4
  <2>2. q[j] = s[a + j] /\ q[k] = s[a + k] /\ a + j \in 1 .. Len(s) /\ a + k \in 1 .. Len(s)
    BY <1>2
  <2>3. PICK j1 \in 1 .. Len(s), k1 \in 1 .. Len(s) : j1 = a + j /\ k1 = a + k
    BY <2>2
  <2>4. /\ s[j1].msg < s[k1].msg \/ (s[j1].msg = s[k1].msg /\ s[j1].pos < s[k1].pos)
        /\ s[j1].pos + (k1 - j1) <= Length(ms, s[j1].msg)
                  => s[k1].msg = s[j1].msg /\ s[k1].pos = s[j1].pos + (k1 - j1)
    BY <2>1, <2>3 DEF Contiguous
  <2> QED
    BY <2>1, <2>2, <2>3, <2>4
<1>5. ASSUME NEW k \in 1 .. Len(q) - 1, q[k].pos = Length(ms, q[k].msg)
      PROVE  q[k + 1].msg = q[k].msg + 1 /\ q[k + 1].pos = 1
  <2>1. k \in 1 .. Len(q) /\ k + 1 \in 1 .. Len(q)
    BY <1>1
  <2>2. q[k] = s[a + k] /\ q[k + 1] = s[a + (k + 1)]
    BY <1>2, <2>1
  <2>3. PICK k1 \in 1 .. Len(s) - 1 : k1 = a + k /\ k1 + 1 = a + (k + 1)
    BY <1>1
  <2>4. s[k1].pos = Length(ms, s[k1].msg) => s[k1 + 1].msg = s[k1].msg + 1 /\ s[k1 + 1].pos = 1
    BY DEF Contiguous
  <2> QED
    BY <1>5, <2>2, <2>3, <2>4
<1> QED
  BY <1>3, <1>4, <1>5 DEF Contiguous

LEMMA PartOfPart ==
    ASSUME NEW s \in Seq(AnyByte), NEW q \in Seq(AnyByte), NEW r \in Seq(AnyByte),
           NEW a \in Nat, NEW b \in Nat, Part(q, s, a), Part(r, q, b)
    PROVE  Part(r, s, a + b)
<1>1. Len(s) \in Nat /\ Len(q) \in Nat /\ Len(r) \in Nat
  BY LenProperties
<1>2. a + b + Len(r) <= Len(s)
  BY <1>1 DEF Part
<1>3. ASSUME NEW k \in 1 .. Len(r) PROVE r[k] = s[a + b + k]
  <2>1. b + k \in 1 .. Len(q) /\ a + (b + k) = a + b + k
    BY <1>1 DEF Part
  <2>2. r[k] = q[b + k] /\ q[b + k] = s[a + (b + k)]
    BY <2>1 DEF Part
  <2> QED
    BY <2>1, <2>2
<1> QED
  BY <1>2, <1>3 DEF Part

\* Buffer::RetrieveUntil, and what is left in front of a place.
LEMMA AfterPart ==
    ASSUME NEW q \in Seq(AnyByte), NEW k \in 0 .. Len(q)
    PROVE  /\ After(q, k) \in Seq(AnyByte) /\ Len(After(q, k)) = Len(q) - k
           /\ Part(After(q, k), q, k)
<1>1. Len(q) \in Nat /\ k \in Nat
  BY LenProperties
<1>2. \A j \in k + 1 .. Len(q) : q[j] \in AnyByte
  BY <1>1, ElementOfSeq
<1>3. /\ After(q, k) \in Seq(AnyByte)
      /\ Len(After(q, k)) = IF k + 1 <= Len(q) THEN Len(q) - (k + 1) + 1 ELSE 0
      /\ \A j \in 1 .. Len(q) - (k + 1) + 1 : After(q, k)[j] = q[(k + 1) + j - 1]
  BY <1>1, <1>2, SubSeqProperties DEF After
<1>4. Len(After(q, k)) = Len(q) - k
  BY <1>1, <1>3
<1>5. \A j \in 1 .. Len(q) - k : After(q, k)[j] = q[k + j]
  BY <1>1, <1>3
<1> QED
  BY <1>1, <1>3, <1>4, <1>5 DEF Part

LEMMA BeforePart ==
    ASSUME NEW q \in Seq(AnyByte), NEW k \in 1 .. Len(q) + 1
    PROVE  /\ Before(q, k) \in Seq(AnyByte) /\ Len(Before(q, k)) = k - 1
           /\ Part(Before(q, k), q, 0)
<1>1. Len(q) \in Nat /\ k \in Nat /\ k - 1 \in Int
  BY LenProperties
<1>2. \A j \in 1 .. k - 1 : q[j] \in AnyByte
  BY <1>1, ElementOfSeq
<1>3. /\ Before(q, k) \in Seq(AnyByte)
      /\ Len(Before(q, k)) = IF 1 <= k - 1 THEN (k - 1) - 1 + 1 ELSE 0
      /\ \A j \in 1 .. (k - 1) - 1 + 1 : Before(q, k)[j] = q[1 + j - 1]
  BY <1>1, <1>2, SubSeqProperties DEF Before
<1>4. Len(Before(q, k)) = k - 1
  BY <1>1, <1>3
<1>5. \A j \in 1 .. k - 1 : Before(q, k)[j] = q[0 + j]
  BY <1>1, <1>3
<1> QED
  BY <1>1, <1>3, <1>4, <1>5 DEF Part

LEMMA MessageBytes ==
    ASSUME NEW i \in Nat, NEW m \in Messages
    PROVE  /\ Bytes(i, m) \in Seq(AnyByte) /\ Len(Bytes(i, m)) = Len(Text(m))
           /\ \A k \in 1 .. Len(Text(m)) :
                 /\ Bytes(i, m)[k].msg = i /\ Bytes(i, m)[k].pos = k
                 /\ Bytes(i, m)[k].symbol = Text(m)[k]
<1>1. Text(m) \in Seq(Alphabet) /\ Len(Text(m)) \in Nat
  BY MessageText DEF Messages
<1>2. DOMAIN Text(m) = 1 .. Len(Text(m))
  BY <1>1, LenProperties
<1>3. Bytes(i, m) = [k \in 1 .. Len(Text(m)) |-> [msg |-> i, pos |-> k, symbol |-> Text(m)[k]]]
  BY <1>2 DEF Bytes
<1>4. \A k \in 1 .. Len(Text(m)) : [msg |-> i, pos |-> k, symbol |-> Text(m)[k]] \in AnyByte
  <2> SUFFICES ASSUME NEW k \in 1 .. Len(Text(m))
               PROVE  [msg |-> i, pos |-> k, symbol |-> Text(m)[k]] \in AnyByte
    OBVIOUS
  <2>1. k \in Nat /\ Text(m)[k] \in Alphabet
    BY <1>1, ElementOfSeq
  <2> QED
    BY <2>1 DEF AnyByte
<1>5. Bytes(i, m) \in Seq(AnyByte)
  BY <1>1, <1>3, <1>4, IsASeq
<1>6. Len(Bytes(i, m)) = Len(Text(m))
  BY <1>1, <1>3, <1>5, LenProperties
<1> QED
  BY <1>3, <1>5, <1>6

\* What the client sends next continues the stream.
LEMMA AppendContiguous ==
    ASSUME NEW ms \in Seq(Messages), NEW m \in Messages, NEW q \in Seq(AnyByte),
           Contiguous(ms, q), EndsWhole(ms, q)
    PROVE  /\ Contiguous(Append(ms, m), q \o Bytes(Len(ms) + 1, m))
           /\ EndsWhole(Append(ms, m), q \o Bytes(Len(ms) + 1, m))
           /\ Contiguous(Append(ms, m), q)
<1>1. PICK N \in Nat, n \in Nat, L \in Nat : N = Len(ms) /\ n = Len(q) /\ L = Len(Text(m))
  BY LenProperties, MessageText DEF Messages
<1> DEFINE b == Bytes(N + 1, m)
           s == q \o b
           mt == Append(ms, m)
<1>2. /\ b \in Seq(AnyByte) /\ Len(b) = L
      /\ \A k \in 1 .. L : b[k].msg = N + 1 /\ b[k].pos = k /\ b[k].symbol = Text(m)[k]
  BY <1>1, MessageBytes, N + 1 \in Nat
<1>3. L >= 4
  BY <1>1, MessageText DEF Messages
<1>4. /\ Len(mt) = N + 1 /\ mt[N + 1] = m
      /\ \A i \in 1 .. N : mt[i] = ms[i]
  BY <1>1, AppendProperties
<1>5. /\ Length(mt, N + 1) = L
      /\ \A i \in 1 .. N : Length(mt, i) = Length(ms, i)
  BY <1>1, <1>4 DEF Length
<1> HIDE DEF b
<1>6. /\ Len(s) = n + L
      /\ \A k \in 1 .. n + L : s[k] = IF k <= n THEN q[k] ELSE b[k - n]
  <2>1. /\ Len(q \o b) = Len(q) + Len(b)
        /\ \A k \in 1 .. Len(q) + Len(b) : (q \o b)[k] = IF k <= Len(q) THEN q[k] ELSE b[k - Len(q)]
    BY <1>2, ConcatProperties
  <2> QED
    BY <1>1, <1>2, <2>1
<1> HIDE DEF s, mt
<1>7. \A k \in 1 .. n : s[k] = q[k] /\ k \in 1 .. n + L
  BY <1>6
<1>8. \A k \in n + 1 .. n + L :
         s[k].msg = N + 1 /\ s[k].pos = k - n /\ s[k].symbol = Text(m)[k - n]
  <2> SUFFICES ASSUME NEW k \in n + 1 .. n + L
               PROVE  s[k].msg = N + 1 /\ s[k].pos = k - n /\ s[k].symbol = Text(m)[k - n]
    OBVIOUS
  <2>1. k - n \in 1 .. L /\ k \in 1 .. n + L /\ ~(k <= n)
    OBVIOUS
  <2> QED
    BY <1>2, <1>6, <2>1
<1>9. \A k \in 1 .. n : /\ q[k].msg \in 1 .. N
                         /\ q[k].pos \in 1 .. Length(ms, q[k].msg)
                         /\ q[k].symbol = Text(ms[q[k].msg])[q[k].pos]
  BY <1>1 DEF Contiguous, IsByte
<1>10. n > 0 => q[n].msg = N /\ q[n].pos = Length(ms, N)
  <2>1. Len(<<>>) = 0
    BY EmptySeq
  <2>2. n > 0 => q # <<>>
    BY <1>1, <2>1
  <2> QED
    BY <1>1, <2>2 DEF EndsWhole
<1>11. \A k \in 1 .. n + L : k \in 1 .. n \/ k \in n + 1 .. n + L
  OBVIOUS
<1>12. ASSUME NEW k \in 1 .. n + L PROVE IsByte(mt, s[k])
  <2>1. CASE k \in 1 .. n
    <3>1. q[k].msg \in 1 .. N + 1 /\ mt[q[k].msg] = ms[q[k].msg]
          /\ Length(mt, q[k].msg) = Length(ms, q[k].msg)
      BY <1>4, <1>5, <1>9, <2>1
    <3> QED
      BY <1>4, <1>7, <1>9, <2>1, <3>1 DEF IsByte
  <2>2. CASE k \in n + 1 .. n + L
    <3>1. k - n \in 1 .. L /\ N + 1 \in 1 .. N + 1
      BY <2>2
    <3> QED
      BY <1>4, <1>5, <1>8, <2>2, <3>1 DEF IsByte
  <2> QED
    BY <1>11, <2>1, <2>2
\* Two bytes, the second of which may be of the new message.
<1>13. ASSUME NEW j \in 1 .. n + L, NEW k \in 1 .. n + L, j < k
       PROVE  /\ s[j].msg < s[k].msg \/ (s[j].msg = s[k].msg /\ s[j].pos < s[k].pos)
              /\ s[j].pos + (k - j) <= Length(mt, s[j].msg)
                   => s[k].msg = s[j].msg /\ s[k].pos = s[j].pos + (k - j)
  <2>1. CASE k \in 1 .. n
    <3>1. j \in 1 .. n
      BY <1>13, <2>1
    <3>2. s[j] = q[j] /\ s[k] = q[k] /\ Length(mt, q[j].msg) = Length(ms, q[j].msg)
      BY <1>5, <1>7, <1>9, <2>1, <3>1
    <3>3. /\ q[j].msg < q[k].msg \/ (q[j].msg = q[k].msg /\ q[j].pos < q[k].pos)
          /\ q[j].pos + (k - j) <= Length(ms, q[j].msg)
               => q[k].msg = q[j].msg /\ q[k].pos = q[j].pos + (k - j)
      <4>1. j \in 1 .. Len(q) /\ k \in 1 .. Len(q)
        BY <1>1, <2>1, <3>1
      <4> QED
        BY <1>13, <4>1 DEF Contiguous
    <3> QED
      BY <3>2, <3>3
  <2>2. CASE j \in 1 .. n /\ k \in n + 1 .. n + L
    <3>1. s[j] = q[j] /\ s[k].msg = N + 1
      BY <1>7, <1>8, <2>2
    <3>2. PICK i \in 1 .. N : i = q[j].msg
      BY <1>9, <2>2
    <3>3. PICK p \in 1 .. Length(ms, i) : p = q[j].pos
      BY <1>9, <2>2, <3>2
    <3>4. Length(mt, i) = Length(ms, i)
      BY <1>5
    <3>5. ~(p + (k - j) <= Length(ms, i))
      <4>1. SUFFICES ASSUME p + (k - j) <= Length(ms, i) PROVE FALSE
        OBVIOUS
      <4>0. Length(ms, i) \in Int
        <5>1. ms[i] \in Messages
          BY <1>1, ElementOfSeq
        <5> QED
          BY <5>1, MessageText DEF Messages, Length
      <4>2. CASE j = n
        <5>1. p = Length(ms, i)
          BY <1>10, <2>2, <3>2, <3>3, <4>2
        <5> QED
          BY <2>2, <4>0, <4>1, <4>2, <5>1
      <4>3. CASE j # n
        <5>1. j < n /\ n \in 1 .. n /\ p + (n - j) <= Length(ms, i)
          BY <2>2, <4>0, <4>1, <4>3
        <5>2. q[n].msg = i /\ q[n].pos = p + (n - j)
          BY <1>1, <2>2, <3>2, <3>3, <5>1 DEF Contiguous
        <5>3. p + (n - j) = Length(ms, i)
          BY <1>10, <2>2, <5>2
        <5> QED
          BY <2>2, <4>0, <4>1, <5>3
      <4> QED
        BY <4>2, <4>3
    <3> QED
      BY <3>1, <3>2, <3>3, <3>4, <3>5
  <2>3. CASE j \in n + 1 .. n + L
    <3>1. k \in n + 1 .. n + L
      BY <1>13, <2>3
    <3>2. s[j].msg = N + 1 /\ s[k].msg = N + 1 /\ s[j].pos = j - n /\ s[k].pos = k - n
      BY <1>8, <2>3, <3>1
    <3> QED
      BY <1>13, <3>2
  <2> QED
    BY <1>11, <2>1, <2>2, <2>3
<1>14. ASSUME NEW k \in 1 .. n + L - 1, s[k].pos = Length(mt, s[k].msg)
       PROVE  s[k + 1].msg = s[k].msg + 1 /\ s[k + 1].pos = 1
  <2>1. CASE k < n
    <3>1. k \in 1 .. n - 1 /\ k \in 1 .. n /\ k + 1 \in 1 .. n
      BY <2>1
    <3>2. s[k] = q[k] /\ s[k + 1] = q[k + 1] /\ Length(mt, q[k].msg) = Length(ms, q[k].msg)
      BY <1>5, <1>7, <1>9, <3>1
    <3> QED
      BY <1>1, <1>14, <3>1, <3>2 DEF Contiguous
  <2>2. CASE k = n
    <3>1. n > 0 /\ n \in 1 .. n /\ n + 1 \in n + 1 .. n + L /\ n + 1 - n = 1
      BY <1>3, <2>2
    <3>2. s[n] = q[n] /\ q[n].msg = N
      BY <1>7, <1>10, <3>1
    <3>3. s[n + 1].msg = N + 1 /\ s[n + 1].pos = 1
      BY <1>8, <3>1
    <3> QED
      BY <2>2, <3>2, <3>3
  <2>3. CASE k > n
    <3>1. k \in n + 1 .. n + L /\ k - n < L
      BY <2>3
    <3> QED
      BY <1>5, <1>8, <1>14, <3>1
  <2> QED
    BY <2>1, <2>2, <2>3
<1>15. Contiguous(mt, s)
  BY <1>6, <1>12, <1>13, <1>14 DEF Contiguous
<1>16. EndsWhole(mt, s)
  <2>1. n + L \in n + 1 .. n + L /\ n + L - n = L
    BY <1>3
  <2>2. s[n + L].msg = N + 1 /\ s[n + L].pos = L
    BY <1>8, <2>1
  <2> QED
    BY <1>4, <1>5, <1>6, <2>2 DEF EndsWhole
<1>17. Contiguous(mt, q)
  <2>1. s \in Seq(AnyByte)
    BY <1>2, ConcatProperties DEF s
  <2>2. Part(q, s, 0)
    <3>1. 0 + Len(q) <= Len(s)
      BY <1>1, <1>6
    <3>2. \A k \in 1 .. Len(q) : q[k] = s[0 + k]
      BY <1>1, <1>7
    <3> QED
      BY <3>1, <3>2 DEF Part
  <2> QED
    BY <1>15, <2>1, <2>2, PartContiguous, 0 \in Nat
<1> QED
  BY <1>1, <1>15, <1>16, <1>17 DEF s, mt, b

-----------------------------------------------------------------------------
(* What a byte says of its message, and of the bytes around it *)

LEMMA ByteOfMessage ==
    ASSUME NEW ms \in Seq(Messages), NEW x \in AnyByte, IsByte(ms, x)
    PROVE  /\ ms[x.msg] \in Messages
           /\ Length(ms, x.msg) \in Nat /\ Length(ms, x.msg) >= 4
           /\ x.symbol = "line" <=> x.pos = 1 /\ ms[x.msg] \in Requests
           /\ x.symbol = "$" <=> x.pos = 1 /\ ms[x.msg] \in Packets
           /\ ms[x.msg] \in Requests <=> ms[x.msg].kind \in RequestKinds
           /\ ms[x.msg] \in Requests <=> ms[x.msg] \notin Packets
<1>1. PICK m \in Messages : m = ms[x.msg]
  BY ElementOfSeq DEF IsByte
<1>2. /\ x.pos \in 1 .. Len(Text(m)) /\ x.symbol = Text(m)[x.pos]
      /\ Length(ms, x.msg) = Len(Text(m))
  BY <1>1 DEF IsByte, Length
<1>3. /\ m \in Requests <=> m.kind \in RequestKinds
      /\ m \in Requests <=> m \notin Packets
  <2>1. m \in Requests => m.kind \in RequestKinds /\ m.kind # "PACKET"
    BY DEF Requests, RequestKinds
  <2>2. m \in Packets => m.kind = "PACKET" /\ m.kind \notin RequestKinds
    BY DEF Packets, RequestKinds
  <2> QED
    BY <2>1, <2>2 DEF Messages
<1>4. /\ Len(Text(m)) \in Nat /\ Len(Text(m)) >= 4
      /\ Text(m)[1] = IF m \in Requests THEN "line" ELSE "$"
      /\ \A k \in 1 .. Len(Text(m)) : Text(m)[k] \in {"line", "$"} => k = 1
  BY MessageText DEF Messages
<1>5. /\ x.symbol = "line" <=> x.pos = 1 /\ m \in Requests
      /\ x.symbol = "$" <=> x.pos = 1 /\ m \in Packets
  BY <1>2, <1>3, <1>4
<1> QED
  BY <1>1, <1>2, <1>3, <1>4, <1>5

\* The bytes that follow one of a message, and the one before it.
LEMMA NextBytes ==
    ASSUME NEW ms \in Seq(Messages), NEW q \in Seq(AnyByte), Contiguous(ms, q),
           NEW k \in 1 .. Len(q)
    PROVE  /\ q[k] \in AnyByte /\ IsByte(ms, q[k])
           /\ \A d \in Nat : k + d <= Len(q) /\ q[k].pos + d <= Length(ms, q[k].msg)
                 => q[k + d].msg = q[k].msg /\ q[k + d].pos = q[k].pos + d
           /\ k > 1 /\ q[k].pos # 1
                 => q[k - 1].msg = q[k].msg /\ q[k - 1].pos = q[k].pos - 1
<1>1. Len(q) \in Nat
  BY LenProperties
<1>2. \A j \in 1 .. Len(q) : q[j] \in AnyByte /\ IsByte(ms, q[j])
  BY ElementOfSeq DEF Contiguous
<1>3. ASSUME NEW d \in Nat, k + d <= Len(q), q[k].pos + d <= Length(ms, q[k].msg)
      PROVE  q[k + d].msg = q[k].msg /\ q[k + d].pos = q[k].pos + d
  <2>1. CASE d = 0
    BY <1>2, <2>1 DEF AnyByte
  <2>2. CASE d # 0
    <3>1. PICK j \in 1 .. Len(q) : j = k + d /\ k < j /\ j - k = d
      BY <1>1, <1>3, <2>2
    <3> QED
      BY <1>3, <3>1 DEF Contiguous
  <2> QED
    BY <2>1, <2>2
<1>4. ASSUME k > 1, q[k].pos # 1
      PROVE  q[k - 1].msg = q[k].msg /\ q[k - 1].pos = q[k].pos - 1
  <2>1. PICK j \in 1 .. Len(q) - 1 : j = k - 1 /\ j + 1 = k /\ j \in 1 .. Len(q)
    BY <1>1, <1>4
  <2>2. q[j] \in AnyByte /\ q[j].pos <= Length(ms, q[j].msg) /\ Length(ms, q[j].msg) \in Nat
    <3>1. q[j] \in AnyByte /\ IsByte(ms, q[j])
      BY <1>2, <2>1
    <3> QED
      BY <3>1, ByteOfMessage DEF IsByte
  <2>3. q[j].pos # Length(ms, q[j].msg)
    BY <1>4, <2>1 DEF Contiguous
  <2>4. q[j].pos + 1 <= Length(ms, q[j].msg) /\ k - j = 1 /\ j < k
    BY <2>1, <2>2, <2>3 DEF AnyByte
  <2>5. q[k].msg = q[j].msg /\ q[k].pos = q[j].pos + 1
    BY <2>1, <2>4 DEF Contiguous
  <2> QED
    BY <2>1, <2>2, <2>5 DEF AnyByte
<1> QED
  BY <1>2, <1>3, <1>4

\* A request's line is followed by CR, LF and its first header.
LEMMA AfterLine ==
    ASSUME NEW ms \in Seq(Messages), NEW q \in Seq(AnyByte), Contiguous(ms, q),
           NEW a \in 1 .. Len(q), q[a].symbol = "line"
    PROVE  /\ ms[q[a].msg] \in Requests /\ q[a].pos = 1
           /\ \A p \in 1 .. Length(ms, q[a].msg) : a + p - 1 <= Len(q) =>
                 /\ q[a + p - 1].msg = q[a].msg /\ q[a + p - 1].pos = p
                 /\ q[a + p - 1].symbol = Text(ms[q[a].msg])[p]
           /\ Length(ms, q[a].msg) = IF ms[q[a].msg].kind \in Setups THEN 11 ELSE 8
           /\ a + 2 <= Len(q) => q[a + 1].symbol = "CR" /\ q[a + 2].symbol = "LF"
           /\ a + 3 <= Len(q) => q[a + 3].symbol = "CSeq" /\ q[a + 3].msg = q[a].msg
<1>1. Len(q) \in Nat
  BY LenProperties
<1>2. q[a] \in AnyByte /\ IsByte(ms, q[a])
  BY NextBytes
<1>3. ms[q[a].msg] \in Requests /\ q[a].pos = 1 /\ Length(ms, q[a].msg) \in Nat
  BY <1>2, ByteOfMessage
<1>4. ASSUME NEW p \in 1 .. Length(ms, q[a].msg), a + p - 1 <= Len(q)
      PROVE  /\ q[a + p - 1].msg = q[a].msg /\ q[a + p - 1].pos = p
             /\ q[a + p - 1].symbol = Text(ms[q[a].msg])[p]
  <2>1. PICK d \in Nat : d = p - 1 /\ a + d = a + p - 1 /\ a + d \in 1 .. Len(q)
    BY <1>1, <1>3, <1>4
  <2>2. q[a].pos + d = p /\ p <= Length(ms, q[a].msg)
    BY <1>3, <2>1
  <2>3. q[a + d].msg = q[a].msg /\ q[a + d].pos = q[a].pos + d
    BY <2>1, <2>2, NextBytes
  <2>4. IsByte(ms, q[a + d])
    BY <2>1, NextBytes
  <2> QED
    BY <2>1, <2>2, <2>3, <2>4 DEF IsByte
<1>5. PICK m \in Requests : m = ms[q[a].msg]
  BY <1>3
<1>6. Length(ms, q[a].msg) = IF m.kind \in Setups THEN 11 ELSE 8
  BY <1>5, RequestText DEF Length
<1>7. Text(m)[2] = "CR" /\ Text(m)[3] = "LF" /\ Text(m)[4] = "CSeq"
  BY RequestText
<1>8. {2, 3, 4} \subseteq 1 .. Length(ms, q[a].msg)
  BY <1>6
<1>9. a + 2 <= Len(q) => q[a + 1].symbol = "CR" /\ q[a + 2].symbol = "LF"
  <2> SUFFICES ASSUME a + 2 <= Len(q) PROVE q[a + 1].symbol = "CR" /\ q[a + 2].symbol = "LF"
    OBVIOUS
  <2>1. a + 2 - 1 = a + 1 /\ a + 3 - 1 = a + 2 /\ a + 1 <= Len(q)
    BY <1>1
  <2>2. q[a + 2 - 1].symbol = Text(m)[2] /\ q[a + 3 - 1].symbol = Text(m)[3]
    BY <1>4, <1>5, <1>8, <2>1
  <2> QED
    BY <1>7, <2>1, <2>2
<1>10. a + 3 <= Len(q) => q[a + 3].symbol = "CSeq" /\ q[a + 3].msg = q[a].msg
  <2> SUFFICES ASSUME a + 3 <= Len(q) PROVE q[a + 3].symbol = "CSeq" /\ q[a + 3].msg = q[a].msg
    OBVIOUS
  <2>1. a + 4 - 1 = a + 3
    OBVIOUS
  <2>2. q[a + 4 - 1].symbol = Text(m)[4] /\ q[a + 4 - 1].msg = q[a].msg
    BY <1>4, <1>5, <1>8, <2>1
  <2> QED
    BY <1>7, <2>1, <2>2
<1> QED
  BY <1>3, <1>4, <1>5, <1>6, <1>9, <1>10

-----------------------------------------------------------------------------
(* What ParseRequest makes of a contiguous piece *)

LEMMA EndsOfLines ==
    ASSUME NEW q \in Seq(AnyByte), CRLFs(q) # {}
    PROVE  /\ FindCRLF(q) \in CRLFs(q) /\ \A k \in CRLFs(q) : FindCRLF(q) <= k
           /\ FindLastCRLF(q) \in CRLFs(q) /\ \A k \in CRLFs(q) : k <= FindLastCRLF(q)
           /\ CRLFs(q) \subseteq 1 .. Len(q) - 1
<1>1. Len(q) \in Nat
  BY LenProperties
<1>2. CRLFs(q) \subseteq 1 .. Len(q) - 1
  BY DEF CRLFs
<1>3. CRLFs(q) \in SUBSET Nat /\ CRLFs(q) \in SUBSET (1 .. Len(q))
  BY <1>1, <1>2
<1>4. FindCRLF(q) \in CRLFs(q) /\ \A k \in CRLFs(q) : FindCRLF(q) <= k
  BY <1>3, Least DEF FindCRLF
<1>5. Max(CRLFs(q)) \in CRLFs(q) /\ \A k \in CRLFs(q) : Max(CRLFs(q)) >= k
  BY <1>1, <1>3, Greatest
<1> QED
  BY <1>2, <1>3, <1>4, <1>5 DEF FindLastCRLF

\* In the first l bytes the line is at a, and the last end of a line ends at e.
Found(s, l, a, e) ==
    /\ a \in 1 .. l /\ e \in 1 .. l /\ a + 5 <= e
    /\ s[a].symbol = "line"
    /\ \A k \in 1 .. a - 1 : s[k].symbol \in {"CR", "LF"}
                              /\ ~(s[k].symbol = "CR" /\ s[k + 1].symbol = "LF")
    /\ s[e - 1].symbol = "CR" /\ s[e].symbol = "LF"
    /\ \A k \in e + 1 .. l : ~(s[k - 1].symbol = "CR" /\ s[k].symbol = "LF")

\* The place of the request line: nothing else stands in front of its end.
LEMMA ParsedLine ==
    ASSUME msgs \in Seq(Messages), NEW q \in Seq(AnyByte), Contiguous(msgs, q), Parses(q)
    PROVE  \E a \in 1 .. Len(q) :
              /\ q[a].symbol = "line" /\ FirstOf(Line(q), "line") = q[a]
              /\ \A k \in 1 .. a - 1 : q[k].symbol \in {"CR", "LF"}
                                        /\ ~(q[k].symbol = "CR" /\ q[k + 1].symbol = "LF")
              /\ FindCRLF(q) = a + 1 /\ a + 2 <= Len(q)
<1>1. Len(q) \in Nat
  BY LenProperties
<1>2. PICK c \in 1 .. Len(q) - 1 : c = FindCRLF(q) /\ \A k \in CRLFs(q) : c <= k
  BY EndsOfLines DEF Parses
<1>3. Before(q, c) \in Seq(AnyByte) /\ Len(Before(q, c)) = c - 1 /\ Part(Before(q, c), q, 0)
  <2>1. c \in 1 .. Len(q) + 1
    BY <1>1
  <2> QED
    BY <2>1, BeforePart
<1>4. PICK line \in Seq(AnyByte) : line = Line(q) /\ Len(line) = c - 1 /\ Part(line, q, 0)
  BY <1>2, <1>3 DEF Line
<1>5. DOMAIN line = 1 .. c - 1
  BY <1>4, LenProperties
<1>6. \A k \in 1 .. c - 1 : line[k] = q[k]
  BY <1>4 DEF Part
<1>7. PICK a \in 1 .. c - 1 : /\ line[a].symbol = "line"
                              /\ \A k \in (1 .. c - 1) \ {a} : line[k].symbol \in {"CR", "LF"}
  BY <1>4, <1>5 DEF Parses, ParseRequest1
<1>8. a \in 1 .. Len(q) /\ q[a].symbol = "line" /\ a + 1 <= c
      /\ \A k \in (1 .. c - 1) \ {a} : q[k].symbol \in {"CR", "LF"}
  BY <1>1, <1>6, <1>7
<1>9. \A k \in 1 .. a - 1 : q[k].symbol \in {"CR", "LF"}
  BY <1>8
<1>10. a + 1 \in CRLFs(q)
  <2>1. a + 1 \in 1 .. Len(q) - 1 /\ a + 2 <= Len(q) /\ a + 1 + 1 = a + 2
    BY <1>1, <1>8
  <2>2. q[a + 1].symbol = "CR" /\ q[a + 2].symbol = "LF"
    BY <1>8, <2>1, AfterLine
  <2> QED
    BY <2>1, <2>2 DEF CRLFs
<1>11. c = a + 1
  BY <1>2, <1>8, <1>10
<1>12. ASSUME NEW k \in 1 .. a - 1, q[k].symbol = "CR", q[k + 1].symbol = "LF"
       PROVE  FALSE
  <2>1. k \in CRLFs(q)
    BY <1>1, <1>8, <1>12 DEF CRLFs
  <2> QED
    BY <1>2, <1>11, <2>1
<1>13. FirstOf(line, "line") = q[a]
  <2>1. {k \in DOMAIN line : line[k].symbol = "line"} = {a}
    BY <1>5, <1>7
  <2>2. Min({a}) = a
    <3>1. {a} \in SUBSET Nat
      OBVIOUS
    <3> QED
      BY <3>1, Least
  <2> QED
    BY <1>6, <2>1, <2>2 DEF FirstOf
<1> QED
  BY <1>1, <1>2, <1>4, <1>8, <1>9, <1>11, <1>12, <1>13

LEMMA Parsed ==
    ASSUME msgs \in Seq(Messages), NEW q \in Seq(AnyByte), Contiguous(msgs, q), Parses(q)
    PROVE  \E a, e \in 1 .. Len(q) :
              /\ Found(q, Len(q), a, e)
              /\ FirstOf(Line(q), "line") = q[a] /\ ParseCSeq(Headers(q)) = q[a].msg
              /\ After(Rest(q), FindLastCRLF(Rest(q)) + 1) = After(q, e)
              /\ Headers(q) \in Seq(AnyByte) /\ Len(Headers(q)) = e - a - 4
              /\ Part(Headers(q), q, a + 2)
              /\ msgs[q[a].msg].kind \in Setups => "Transport" \in Symbols(Headers(q))
<1>1. Len(q) \in Nat
  BY LenProperties
<1>2. PICK a \in 1 .. Len(q) :
              /\ q[a].symbol = "line" /\ FirstOf(Line(q), "line") = q[a]
              /\ \A k \in 1 .. a - 1 : q[k].symbol \in {"CR", "LF"}
                                        /\ ~(q[k].symbol = "CR" /\ q[k + 1].symbol = "LF")
              /\ FindCRLF(q) = a + 1 /\ a + 2 <= Len(q)
  BY ParsedLine
<1>3. PICK r \in Seq(AnyByte) : r = Rest(q) /\ Len(r) = Len(q) - (a + 2) /\ Part(r, q, a + 2)
  <2>1. a + 2 \in 0 .. Len(q) /\ a + 1 + 1 = a + 2
    BY <1>1, <1>2
  <2> QED
    BY <1>2, <2>1, AfterPart DEF Rest
<1>4. /\ CRLFs(r) # {}
      /\ "CSeq" \in Symbols(Headers(q))
      /\ msgs[q[a].msg].kind \in Setups => "Transport" \in Symbols(Headers(q))
  BY <1>2, <1>3 DEF Parses, ParseRequest2
<1>5. PICK d \in 1 .. Len(r) - 1 : d = FindLastCRLF(r) /\ d \in CRLFs(r) /\ \A k \in CRLFs(r) : k <= d
  BY <1>4, EndsOfLines
<1>6. PICK e \in 1 .. Len(q) : e = a + 3 + d
  BY <1>1, <1>3
<1>7. \A k \in 1 .. Len(r) : r[k] = q[a + 2 + k]
  BY <1>3 DEF Part
<1>8. /\ q[e - 1].symbol = "CR" /\ q[e].symbol = "LF"
      /\ \A k \in e + 1 .. Len(q) : ~(q[k - 1].symbol = "CR" /\ q[k].symbol = "LF")
  <2>1. q[e - 1].symbol = "CR" /\ q[e].symbol = "LF"
    <3>1. d \in 1 .. Len(r) /\ d + 1 \in 1 .. Len(r) /\ a + 2 + d = e - 1 /\ a + 2 + (d + 1) = e
      BY <1>1, <1>3, <1>6
    <3>2. r[d].symbol = "CR" /\ r[d + 1].symbol = "LF"
      BY <1>5 DEF CRLFs
    <3> QED
      BY <1>7, <3>1, <3>2
  <2>2. ASSUME NEW k \in e + 1 .. Len(q), q[k - 1].symbol = "CR", q[k].symbol = "LF"
        PROVE  FALSE
    <3>1. PICK j \in 1 .. Len(r) - 1 : j = k - 1 - (a + 2) /\ j > d
      BY <1>1, <1>3, <1>6
    <3>2. j \in 1 .. Len(r) /\ j + 1 \in 1 .. Len(r) /\ a + 2 + j = k - 1 /\ a + 2 + (j + 1) = k
      BY <1>1, <1>3, <3>1
    <3>3. r[j].symbol = "CR" /\ r[j + 1].symbol = "LF"
      BY <1>7, <2>2, <3>2
    <3>4. j \in CRLFs(r)
      BY <3>3 DEF CRLFs
    <3> QED
      BY <1>5, <3>1, <3>4
  <2> QED
    BY <2>1, <2>2
<1>9. PICK h \in Seq(AnyByte) : h = Headers(q) /\ Len(h) = d - 1 /\ Part(h, r, 0)
  <2>1. d \in 1 .. Len(r) + 1
    BY <1>1, <1>3
  <2> QED
    BY <1>3, <1>5, <2>1, BeforePart DEF Headers
<1>10. Part(h, q, a + 2)
  <2>1. a + 2 \in Nat /\ a + 2 + 0 = a + 2
    OBVIOUS
  <2>2. Part(h, q, a + 2 + 0)
    BY <1>3, <1>9, <2>1, PartOfPart
  <2> QED
    BY <2>1, <2>2
<1>11. DOMAIN h = 1 .. d - 1
  BY <1>9, LenProperties
<1>12. d >= 2
  BY <1>4, <1>9, <1>11 DEF Symbols
<1>13. Found(q, Len(q), a, e)
  <2>1. a + 5 <= e
    BY <1>6, <1>12
  <2> QED
    BY <1>2, <1>8, <2>1 DEF Found
\* The first header is the request's own CSeq.
<1>14. h[1].symbol = "CSeq" /\ h[1].msg = q[a].msg
  <2>1. h[1] = q[a + 3]
    <3>1. 1 \in 1 .. Len(h) /\ a + 2 + 1 = a + 3
      BY <1>9, <1>12
    <3>2. h[1] = q[a + 2 + 1]
      BY <1>10, <3>1 DEF Part
    <3> QED
      BY <3>1, <3>2
  <2>2. a + 3 <= Len(q)
    BY <1>1, <1>6, <1>12
  <2>3. q[a + 3].symbol = "CSeq" /\ q[a + 3].msg = q[a].msg
    BY <1>2, <2>2, AfterLine
  <2> QED
    BY <2>1, <2>3
<1>15. ParseCSeq(h) = q[a].msg
  <2> DEFINE S == {k \in DOMAIN h : h[k].symbol = "CSeq"}
  <2>1. S \in SUBSET Nat /\ 1 \in S /\ \A k \in S : k >= 1
    BY <1>11, <1>12, <1>14
  <2> HIDE DEF S
  <2>2. Min(S) = 1
    <3>1. Min(S) \in S /\ Min(S) <= 1
      BY <2>1, Least
    <3>2. Min(S) \in Nat /\ Min(S) >= 1
      BY <2>1, <3>1
    <3> QED
      BY <3>1, <3>2
  <2> QED
    BY <1>14, <2>2 DEF S, ParseCSeq, FirstOf
<1>16. After(r, d + 1) = After(q, e)
  <2>1. d + 1 \in 0 .. Len(r) /\ e \in 0 .. Len(q)
    BY <1>1, <1>3
  <2>2. PICK u \in Seq(AnyByte) : u = After(r, d + 1) /\ Len(u) = Len(r) - (d + 1) /\ Part(u, r, d + 1)
    BY <2>1, AfterPart
  <2>3. PICK v \in Seq(AnyByte) : v = After(q, e) /\ Len(v) = Len(q) - e /\ Part(v, q, e)
    BY <2>1, AfterPart
  <2>4. a + 2 \in Nat /\ d + 1 \in Nat /\ a + 2 + (d + 1) = e
    BY <1>6
  <2>5. Part(u, q, e)
    <3>1. Part(u, q, a + 2 + (d + 1))
      BY <1>3, <2>2, <2>4, PartOfPart
    <3> QED
      BY <2>4, <3>1
  <2>6. Len(u) = Len(v)
    BY <1>1, <1>3, <1>6, <2>2, <2>3
  <2>7. \A k \in 1 .. Len(u) : u[k] = v[k]
    BY <2>3, <2>5, <2>6 DEF Part
  <2>8. u = v
    BY <2>6, <2>7, SeqEqual
  <2> QED
    BY <2>2, <2>3, <2>8
<1>17. Len(h) = e - a - 4
  BY <1>6, <1>9
<1> QED
  BY <1>2, <1>3, <1>4, <1>5, <1>9, <1>10, <1>13, <1>15, <1>16, <1>17

-----------------------------------------------------------------------------
(* What a read does to the stream of the bytes not handled yet *)

Stream == m_input_buffer_ \o wire

Dropped(t, s, e) == Len(t) = Len(s) - e /\ Part(t, s, e)

StreamInv ==
    /\ msgs \in Seq(Messages) /\ Len(msgs) <= MaxMessages
    /\ wire \in Seq(AnyByte) /\ m_input_buffer_ \in Seq(AnyByte)
    /\ m_is_rtp_over_tcp_ \in BOOLEAN
    /\ handled \in {"nothing", "request", "packet"}
    /\ closed \in BOOLEAN /\ orderly \in BOOLEAN
    /\ Contiguous(msgs, Stream)
    /\ EndsWhole(msgs, Stream)

\* A read that finds l bytes in the buffer and leaves those behind the first e.
ReadTo(l, e) ==
    /\ l \in 1 .. Len(Stream) /\ e \in 0 .. l
    /\ Dropped(Stream', Stream, e)
    /\ wire' \in Seq(AnyByte) /\ m_input_buffer_' \in Seq(AnyByte)
    /\ Len(m_input_buffer_') = l - e
    /\ ~closed /\ msgs' = msgs
    /\ orderly' \in BOOLEAN
    /\ orderly' => /\ orderly
                   /\ l < Len(Stream) =>
                        Stream[l + 1].pos = 1 \/ msgs[Stream[l + 1].msg].kind \notin RequestKinds

TookPacket(e) ==
    /\ \/ e = 0
       \/ Stream[1].symbol = "$" /\ e = Length(msgs, Stream[1].msg)
    /\ UNCHANGED <<m_is_rtp_over_tcp_, answers, closed>>
    /\ handled' \in {"nothing", "packet"}

TookRequest(l, e, a) ==
    LET i == Stream[a].msg
        Transports == {x \in a + 3 .. e - 2 : Stream[x].symbol = "Transport"}
    IN /\ Found(Stream, l, a, e)
       /\ m_is_rtp_over_tcp_' =
            (m_is_rtp_over_tcp_ \/ (/\ msgs[i].kind \in Setups
                                    /\ \E x \in Transports :
                                          msgs[Stream[x].msg].kind = "SETUP_TCP"))
       /\ msgs[i].kind \in Setups => Transports # {}
       /\ handled' = "request"
       /\ \/ msgs[i].kind = "GET_PARAMETER" /\ UNCHANGED <<answers, closed>>
          \/ /\ msgs[i].kind # "GET_PARAMETER"
             /\ closed' = TRUE /\ UNCHANGED answers
          \/ /\ msgs[i].kind # "GET_PARAMETER"
             /\ UNCHANGED closed
             /\ \E w \in BOOLEAN :
                   /\ answers' = Append(answers,
                        [request |-> i, cseq |-> i,
                         tcp |-> msgs[i].kind \in Setups /\ m_is_rtp_over_tcp_', whole |-> w])
                   /\ w <=> \E k \in 1 .. l : Stream[k].msg = i /\ Stream[k].pos = Length(msgs, i)

Refused(l, e) ==
    /\ e = l /\ closed' = TRUE
    /\ UNCHANGED <<m_is_rtp_over_tcp_, answers, handled>>

Joined(s, b, w) == /\ Len(s) = Len(b) + Len(w)
                   /\ \A k \in 1 .. Len(b) : s[k] = b[k]
                   /\ \A k \in 1 .. Len(w) : s[Len(b) + k] = w[k]

LEMMA Join ==
    ASSUME NEW b \in Seq(AnyByte), NEW w \in Seq(AnyByte)
    PROVE  b \o w \in Seq(AnyByte) /\ Joined(b \o w, b, w)
<1>1. PICK m \in Nat, n \in Nat : m = Len(b) /\ n = Len(w)
  BY LenProperties
<1> DEFINE s == b \o w
<1>2. /\ s \in Seq(AnyByte) /\ Len(s) = m + n
      /\ \A k \in 1 .. m + n : s[k] = IF k <= m THEN b[k] ELSE w[k - m]
  BY <1>1, ConcatProperties
<1> HIDE DEF s
<1>3. \A k \in 1 .. m : s[k] = b[k]
  <2>1. \A k \in 1 .. m : k \in 1 .. m + n /\ k <= m
    OBVIOUS
  <2> QED
    BY <1>2, <2>1
<1>4. ASSUME NEW k \in 1 .. n PROVE s[m + k] = w[k]
  <2>1. m + k \in 1 .. m + n /\ ~(m + k <= m) /\ m + k - m = k
    OBVIOUS
  <2> QED
    BY <1>2, <2>1
<1> QED
  BY <1>1, <1>2, <1>3, <1>4 DEF Joined, s

LEMMA Prefix ==
    ASSUME NEW w \in Seq(AnyByte), NEW n \in 1 .. Len(w)
    PROVE  /\ SubSeq(w, 1, n) \in Seq(AnyByte) /\ Len(SubSeq(w, 1, n)) = n
           /\ \A k \in 1 .. n : SubSeq(w, 1, n)[k] = w[k]
<1>1. Len(w) \in Nat /\ n \in Int
  BY LenProperties
<1>2. \A k \in 1 .. n : w[k] \in AnyByte
  BY <1>1, ElementOfSeq
<1> DEFINE u == SubSeq(w, 1, n)
<1>3. /\ u \in Seq(AnyByte)
      /\ Len(u) = IF 1 <= n THEN n - 1 + 1 ELSE 0
      /\ \A k \in 1 .. n - 1 + 1 : u[k] = w[1 + k - 1]
  BY <1>1, <1>2, SubSeqProperties
<1> HIDE DEF u
<1>4. n - 1 + 1 = n /\ 1 <= n /\ \A k \in 1 .. n : 1 + k - 1 = k
  OBVIOUS
<1>5. Len(u) = n
  BY <1>3, <1>4
<1>6. \A k \in 1 .. n : u[k] = w[k]
  BY <1>3, <1>4
<1> QED
  BY <1>3, <1>5, <1>6 DEF u

LEMMA ReadsTo ==
    ASSUME StreamInv, NEW n \in 1 .. Len(wire), HandleReadBytes(n)
    PROVE  \E q \in Seq(AnyByte) :
              /\ q = m_input_buffer_ \o SubSeq(wire, 1, n)
              /\ Len(q) \in 1 .. Len(Stream) /\ \A k \in 1 .. Len(q) : q[k] = Stream[k]
              /\ Contiguous(msgs, q)
              /\ \A e \in 0 .. Len(q) : m_input_buffer_' = After(q, e) => ReadTo(Len(q), e)
<1>1. PICK b \in Seq(AnyByte), w \in Seq(AnyByte) : b = m_input_buffer_ /\ w = wire
  BY DEF StreamInv
<1>2. Len(b) \in Nat /\ Len(w) \in Nat /\ n \in 1 .. Len(w)
  BY <1>1, LenProperties
<1>3. PICK u \in Seq(AnyByte) : u = SubSeq(w, 1, n) /\ Len(u) = n /\ \A k \in 1 .. n : u[k] = w[k]
  BY <1>2, Prefix
<1>4. PICK q \in Seq(AnyByte) : q = b \o u /\ Joined(q, b, u)
  BY Join
<1>5. PICK s \in Seq(AnyByte) : s = Stream /\ Joined(s, b, w)
  BY <1>1, Join DEF Stream
<1>6. Len(q) \in 1 .. Len(s) /\ \A k \in 1 .. Len(q) : q[k] = s[k]
  <2>1. Len(q) \in 1 .. Len(s) /\ Len(q) = Len(b) + n /\ Len(s) = Len(b) + Len(w)
    BY <1>2, <1>3, <1>4, <1>5 DEF Joined
  <2>2. ASSUME NEW k \in 1 .. Len(q) PROVE q[k] = s[k]
    <3>1. CASE k <= Len(b)
      <4>1. k \in 1 .. Len(b)
        BY <1>2, <3>1
      <4> QED
        BY <1>4, <1>5, <4>1 DEF Joined
    <3>2. CASE ~(k <= Len(b))
      <4> DEFINE j == k - Len(b)
      <4>1. j \in 1 .. n /\ k = Len(b) + j /\ j \in 1 .. Len(u) /\ j \in 1 .. Len(w)
        BY <1>2, <1>3, <2>1, <3>2
      <4> HIDE DEF j
      <4> QED
        BY <1>3, <1>4, <1>5, <4>1 DEF Joined
    <3> QED
      BY <3>1, <3>2
  <2> QED
    BY <2>1, <2>2
<1>7. Contiguous(msgs, q)
  <2>1. Part(q, s, 0)
    BY <1>6, LenProperties DEF Part
  <2> QED
    BY <1>5, <2>1, PartContiguous, 0 \in Nat DEF StreamInv
<1>8. ASSUME NEW e \in 0 .. Len(q), m_input_buffer_' = After(q, e) PROVE ReadTo(Len(q), e)
  <2>1. PICK c \in Seq(AnyByte) : c = m_input_buffer_' /\ Len(c) = Len(q) - e /\ Part(c, q, e)
    BY <1>8, AfterPart
  <2>2. n \in 0 .. Len(w) /\ wire' = After(w, n)
    BY <1>1, <1>2 DEF HandleReadBytes
  <2>3. PICK v \in Seq(AnyByte) : v = wire' /\ Len(v) = Len(w) - n /\ Part(v, w, n)
    BY <2>2, AfterPart
  <2>4. PICK t \in Seq(AnyByte) : t = Stream' /\ Joined(t, c, v)
    BY <2>1, <2>3, Join DEF Stream
  <2>5. /\ Len(t) = Len(s) - e /\ Len(q) = Len(b) + n /\ Len(s) = Len(b) + Len(w)
        /\ Len(t) = Len(c) + Len(v) /\ Len(c) = Len(b) + n - e
    <3>1. Len(q) = Len(b) + n /\ Len(s) = Len(b) + Len(w) /\ Len(t) = Len(c) + Len(v)
      BY <1>3, <1>4, <1>5, <2>4 DEF Joined
    <3>2. Len(c) = Len(b) + n - e /\ Len(v) = Len(w) - n
      BY <2>1, <2>3, <3>1
    <3> QED
      BY <1>2, <3>1, <3>2
  <2>6. ASSUME NEW k \in 1 .. Len(t) PROVE t[k] = s[e + k]
    <3>1. CASE k <= Len(c)
      <4>1. k \in 1 .. Len(c) /\ e + k \in 1 .. Len(q)
        BY <1>2, <2>5, <3>1
      <4>2. t[k] = c[k] /\ c[k] = q[e + k]
        BY <2>1, <2>4, <4>1 DEF Part, Joined
      <4> QED
        BY <1>6, <4>1, <4>2
    <3>2. CASE ~(k <= Len(c))
      <4> DEFINE j == k - Len(c)
      <4>1. j \in 1 .. Len(v) /\ k = Len(c) + j
        BY <1>2, <2>5, <3>2
      <4> HIDE DEF j
      <4>2. t[k] = v[j] /\ v[j] = w[n + j]
        BY <2>3, <2>4, <4>1 DEF Part, Joined
      <4>3. n + j \in 1 .. Len(w) /\ e + k = Len(b) + (n + j)
        BY <1>2, <2>3, <2>5, <4>1
      <4>4. s[Len(b) + (n + j)] = w[n + j]
        BY <1>5, <4>3 DEF Joined
      <4> QED
        BY <4>2, <4>3, <4>4
    <3> QED
      BY <3>1, <3>2
  <2>7. Dropped(Stream', Stream, e)
    <3>1. e + Len(t) <= Len(s)
      BY <1>2, <1>5, <2>5
    <3> QED
      BY <1>5, <2>4, <2>5, <2>6, <3>1 DEF Dropped, Part
  <2>8. orderly' \in BOOLEAN
    BY DEF HandleReadBytes, StreamInv
  <2>9. ASSUME orderly', Len(q) < Len(s)
        PROVE  s[Len(q) + 1].pos = 1 \/ msgs[s[Len(q) + 1].msg].kind \notin RequestKinds
    <3>1. ~CutsRequest(n)
      BY <2>9 DEF HandleReadBytes
    <3>2. n < Len(w) /\ s[Len(q) + 1] = w[n + 1]
      <4>1. n < Len(w) /\ n + 1 \in 1 .. Len(w) /\ Len(q) + 1 = Len(b) + (n + 1)
        BY <1>2, <2>5, <2>9
      <4> QED
        BY <1>5, <4>1 DEF Joined
    <3> QED
      BY <1>1, <3>1, <3>2 DEF CutsRequest, IsRequest
  <2>10. orderly' => orderly
    BY DEF HandleReadBytes
  <2>11. ~closed /\ msgs' = msgs
    BY DEF HandleReadBytes
  <2> QED
    BY <1>5, <1>6, <2>1, <2>3, <2>7, <2>8, <2>9, <2>10, <2>11 DEF ReadTo
<1> QED
  BY <1>1, <1>3, <1>4, <1>5, <1>6, <1>7, <1>8

\* What is dropped is nothing or a whole packet; or a request and all up to the
\* last end of a line; or everything.
LEMMA ReadCases ==
    ASSUME StreamInv, NEW n \in 1 .. Len(wire), HandleReadBytes(n)
    PROVE  \E l \in 1 .. Len(Stream) : \E e \in 0 .. l :
              /\ ReadTo(l, e)
              /\ TookPacket(e) \/ Refused(l, e) \/ \E a \in 1 .. l : TookRequest(l, e, a)
<1>1. PICK q \in Seq(AnyByte) :
              /\ q = m_input_buffer_ \o SubSeq(wire, 1, n)
              /\ Len(q) \in 1 .. Len(Stream) /\ \A k \in 1 .. Len(q) : q[k] = Stream[k]
              /\ Contiguous(msgs, q)
              /\ \A e \in 0 .. Len(q) : m_input_buffer_' = After(q, e) => ReadTo(Len(q), e)
  BY ReadsTo
<1>2. PICK l \in Nat : l = Len(q) /\ l >= 1
  BY <1>1, LenProperties
<1>3. IF m_is_rtp_over_tcp_ /\ Head(q).symbol = "$"
      THEN HandleRtpOverTcp(q)
      ELSE IF Parses(q) THEN HandleRequest(q) ELSE RefuseRequest
  BY <1>1 DEF HandleReadBytes
<1>4. SUFFICES \E e \in 0 .. l :
         /\ m_input_buffer_' = After(q, e)
         /\ TookPacket(e) \/ Refused(l, e) \/ \E a \in 1 .. l : TookRequest(l, e, a)
  BY <1>1, <1>2
<1>5. After(q, 0) = q /\ After(q, l) = <<>>
  <2>1. 0 \in 0 .. Len(q) /\ l \in 0 .. Len(q)
    BY <1>2
  <2>2. PICK u \in Seq(AnyByte) : u = After(q, 0) /\ Len(u) = Len(q) - 0 /\ Part(u, q, 0)
    BY <2>1, AfterPart
  <2>3. Len(u) = Len(q) /\ \A k \in 1 .. Len(u) : u[k] = q[k]
    BY <1>2, <2>2 DEF Part
  <2>4. u = q
    BY <2>3, SeqEqual
  <2>5. PICK v \in Seq(AnyByte) : v = After(q, l) /\ Len(v) = Len(q) - l
    BY <2>1, AfterPart
  <2>6. Len(v) = 0
    BY <1>2, <2>5
  <2>7. v = <<>>
    BY <2>6, EmptySeq
  <2> QED
    BY <2>2, <2>4, <2>5, <2>7
<1>6. msgs \in Seq(Messages) /\ handled \in {"nothing", "request", "packet"}
  BY DEF StreamInv
<1>7. CASE m_is_rtp_over_tcp_ /\ Head(q).symbol = "$"
  <2>1. q # <<>> /\ Head(q) = q[1] /\ 1 \in 1 .. Len(q)
    <3>1. q # <<>>
      BY <1>2, EmptySeq
    <3> QED
      BY <1>2, <3>1, HeadTailProperties
  <2>2. q[1].symbol = "$" /\ Stream[1].symbol = "$" /\ Stream[1] = q[1]
    BY <1>1, <1>7, <2>1
  <2>3. PICK size \in PacketSizes(q) :
          IF Len(q) < size + 4
          THEN m_input_buffer_' = q /\ handled' = "nothing"
          ELSE m_input_buffer_' = After(q, size + 4) /\ handled' = "packet"
    BY <1>3, <1>7 DEF HandleRtpOverTcp
  <2>4. UNCHANGED <<m_is_rtp_over_tcp_, answers, closed>>
    BY <1>3, <1>7 DEF HandleRtpOverTcp
  <2>5. PICK m \in Packets : m = msgs[q[1].msg]
    <3>1. q[1] \in AnyByte /\ IsByte(msgs, q[1])
      BY <1>1, <1>6, <2>1, NextBytes
    <3> QED
      BY <1>6, <2>2, <3>1, ByteOfMessage
  <2>6. Len(m.payload) \in Nat /\ Length(msgs, q[1].msg) = Len(m.payload) + 4
    BY <2>5, PacketText DEF Length
  <2>7. PacketSizes(q) = IF l < 4 THEN 0 .. MaxSize ELSE {Len(m.payload)}
    BY <1>2, <2>1, <2>5 DEF PacketSizes
  <2>8. size \in Nat
    BY <2>3, <2>6, <2>7, FramingAssumption
  <2>9. CASE l < size + 4
    <3>1. m_input_buffer_' = After(q, 0) /\ handled' = "nothing"
      BY <1>2, <1>5, <2>3, <2>9
    <3>2. TookPacket(0)
      BY <2>4, <3>1 DEF TookPacket
    <3> QED
      BY <1>2, <3>1, <3>2
  <2>10. CASE ~(l < size + 4)
    <3>1. ~(l < 4) /\ size = Len(m.payload)
      BY <2>7, <2>8, <2>10, <2>3
    <3>2. m_input_buffer_' = After(q, size + 4) /\ handled' = "packet" /\ size + 4 \in 0 .. l
      BY <1>2, <2>3, <2>8, <2>10
    <3>3. TookPacket(size + 4)
      BY <2>2, <2>4, <2>6, <3>1, <3>2 DEF TookPacket
    <3> QED
      BY <3>2, <3>3
  <2> QED
    BY <2>9, <2>10
<1>8. CASE ~(m_is_rtp_over_tcp_ /\ Head(q).symbol = "$") /\ ~Parses(q)
  <2>1. RefuseRequest
    BY <1>3, <1>8
  <2>2. m_input_buffer_' = After(q, l) /\ Refused(l, l)
    BY <1>5, <2>1 DEF RefuseRequest, Refused
  <2> QED
    BY <1>2, <2>2
<1>9. CASE ~(m_is_rtp_over_tcp_ /\ Head(q).symbol = "$") /\ Parses(q)
  <2>1. HandleRequest(q)
    BY <1>3, <1>9
  <2>2. PICK a \in 1 .. l, e \in 1 .. l :
              /\ Found(q, l, a, e)
              /\ FirstOf(Line(q), "line") = q[a] /\ ParseCSeq(Headers(q)) = q[a].msg
              /\ After(Rest(q), FindLastCRLF(Rest(q)) + 1) = After(q, e)
              /\ Headers(q) \in Seq(AnyByte) /\ Len(Headers(q)) = e - a - 4
              /\ Part(Headers(q), q, a + 2)
              /\ msgs[q[a].msg].kind \in Setups => "Transport" \in Symbols(Headers(q))
    BY <1>1, <1>2, <1>6, <1>9, Parsed
  <2>3. \A k \in 1 .. l : q[k] = Stream[k]
    BY <1>1, <1>2
  <2>4. PICK i : i = Stream[a].msg /\ i = q[a].msg
    BY <2>3
  <2>5. m_input_buffer_' = After(q, e) /\ e \in 0 .. l
    BY <1>2, <2>1, <2>2 DEF HandleRequest
  <2>6. Found(Stream, l, a, e)
    <3>1. a \in 1 .. l /\ e \in 1 .. l /\ e - 1 \in 1 .. l
          /\ (\A k \in 1 .. a - 1 : k \in 1 .. l /\ k + 1 \in 1 .. l)
          /\ \A k \in e + 1 .. l : k \in 1 .. l /\ k - 1 \in 1 .. l
      BY <1>2, <2>2 DEF Found
    <3> QED
      BY <2>2, <2>3, <3>1 DEF Found
  <2> DEFINE T == {x \in a + 3 .. e - 2 : Stream[x].symbol = "Transport"}
  <2>7. /\ "Transport" \in Symbols(Headers(q)) => T # {}
        /\ AsksTcp(Headers(q)) <=> \E x \in T : msgs[Stream[x].msg].kind = "SETUP_TCP"
    <3>1. PICK h \in Seq(AnyByte) : h = Headers(q) /\ Len(h) = e - a - 4 /\ Part(h, q, a + 2)
      BY <2>2
    <3>2. DOMAIN h = 1 .. e - a - 4
      BY <3>1, LenProperties
    <3>3. ASSUME NEW k \in DOMAIN h
          PROVE  a + 2 + k \in a + 3 .. e - 2 /\ h[k] = Stream[a + 2 + k]
      <4>1. a + 2 + k \in a + 3 .. e - 2 /\ a + 2 + k \in 1 .. l /\ k \in 1 .. Len(h)
        BY <3>1, <3>2, <3>3
      <4>2. h[k] = q[a + 2 + k]
        BY <3>1, <4>1 DEF Part
      <4> QED
        BY <2>3, <4>1, <4>2
    <3>4. ASSUME NEW x \in T
          PROVE  \E k \in DOMAIN h : h[k] = Stream[x]
      <4>1. x - a - 2 \in DOMAIN h /\ a + 2 + (x - a - 2) = x
        BY <3>2
      <4> QED
        BY <3>3, <4>1
    <3>5. "Transport" \in Symbols(h) => T # {}
      <4>1. ASSUME NEW k \in DOMAIN h, h[k].symbol = "Transport" PROVE T # {}
        BY <3>3, <4>1
      <4> QED
        BY <4>1 DEF Symbols
    <3>6. ASSUME AsksTcp(h) PROVE \E x \in T : msgs[Stream[x].msg].kind = "SETUP_TCP"
      <4>1. PICK k \in DOMAIN h : h[k].symbol = "Transport" /\ msgs[h[k].msg].kind = "SETUP_TCP"
        BY <3>6 DEF AsksTcp
      <4>2. a + 2 + k \in T /\ h[k] = Stream[a + 2 + k]
        BY <3>3, <4>1
      <4> QED
        BY <4>1, <4>2
    <3>7. ASSUME NEW x \in T, msgs[Stream[x].msg].kind = "SETUP_TCP" PROVE AsksTcp(h)
      BY <3>4, <3>7 DEF AsksTcp
    <3> QED
      BY <3>1, <3>5, <3>6, <3>7
  <2>8. m_is_rtp_over_tcp_' = (m_is_rtp_over_tcp_ \/ (/\ msgs[i].kind \in Setups
                                    /\ \E x \in T : msgs[Stream[x].msg].kind = "SETUP_TCP"))
    <3>1. CASE msgs[i].kind \in Setups
      <4>1. ParseTransport(Headers(q))
        BY <2>1, <2>2, <2>4, <3>1 DEF HandleRequest
      <4> QED
        BY <2>7, <3>1, <4>1 DEF ParseTransport
    <3>2. CASE msgs[i].kind \notin Setups
      <4>1. m_is_rtp_over_tcp_' = m_is_rtp_over_tcp_ /\ m_is_rtp_over_tcp_ \in BOOLEAN
        BY <2>1, <2>2, <2>4, <3>2 DEF HandleRequest, StreamInv
      <4> QED
        BY <3>2, <4>1
    <3> QED
      BY <3>1, <3>2
  <2>9. /\ msgs[i].kind \in Setups => T # {}
        /\ handled' = "request"
    BY <2>1, <2>2, <2>4, <2>7 DEF HandleRequest
  <2>10. \/ msgs[i].kind = "GET_PARAMETER" /\ UNCHANGED <<answers, closed>>
         \/ /\ msgs[i].kind # "GET_PARAMETER"
            /\ closed' = TRUE /\ UNCHANGED answers
         \/ /\ msgs[i].kind # "GET_PARAMETER"
            /\ UNCHANGED closed
            /\ \E w \in BOOLEAN :
                   /\ answers' = Append(answers,
                        [request |-> i, cseq |-> i,
                         tcp |-> msgs[i].kind \in Setups /\ m_is_rtp_over_tcp_', whole |-> w])
                   /\ w <=> \E k \in 1 .. l : Stream[k].msg = i /\ Stream[k].pos = Length(msgs, i)
    <3>1. CASE msgs[i].kind = "GET_PARAMETER"
      BY <2>1, <2>2, <2>4, <3>1 DEF HandleRequest
    <3>2. CASE msgs[i].kind # "GET_PARAMETER"
      <4>1. \/ Answer(q, i) /\ UNCHANGED closed
            \/ closed' = TRUE /\ UNCHANGED answers
        BY <2>1, <2>2, <2>4, <3>2 DEF HandleRequest
      <4>2. CASE Answer(q, i) /\ UNCHANGED closed
        <5> DEFINE w == \E k \in DOMAIN q : q[k].msg = i /\ q[k].pos = Len(Text(msgs[i]))
        <5>1. answers' = Append(answers,
                        [request |-> i, cseq |-> i,
                         tcp |-> msgs[i].kind \in Setups /\ m_is_rtp_over_tcp_', whole |-> w])
          BY <2>2, <2>4, <4>2 DEF Answer
        <5>2. w <=> \E k \in 1 .. l : Stream[k].msg = i /\ Stream[k].pos = Length(msgs, i)
          <6>1. DOMAIN q = 1 .. l
            BY <1>2, LenProperties
          <6> QED
            BY <2>3, <6>1 DEF Length
        <5>3. w \in BOOLEAN
          OBVIOUS
        <5> HIDE DEF w
        <5> QED
          BY <3>2, <4>2, <5>1, <5>2, <5>3
      <4> QED
        BY <3>2, <4>1, <4>2
    <3> QED
      BY <3>1, <3>2
  <2>11. TookRequest(l, e, a)
    BY <2>4, <2>6, <2>8, <2>9, <2>10 DEF TookRequest
  <2> QED
    BY <2>5, <2>11
<1> QED
  BY <1>7, <1>8, <1>9

-----------------------------------------------------------------------------
(* What is left behind the last end of a line *)

\* The stream has every message it has the beginning of.
LEMMA NoneCut ==
    ASSUME NEW ms \in Seq(Messages), NEW s \in Seq(AnyByte),
           Contiguous(ms, s), EndsWhole(ms, s), NEW k \in 1 .. Len(s)
    PROVE  k + (Length(ms, s[k].msg) - s[k].pos) <= Len(s)
<1>1. s[k] \in AnyByte /\ IsByte(ms, s[k]) /\ Len(s) \in Nat
  BY NextBytes, LenProperties
<1>2. PICK L \in Nat : L = Length(ms, s[k].msg) /\ s[k].pos \in 1 .. L
  BY <1>1, ByteOfMessage DEF IsByte
<1> DEFINE p == s[k].pos
<1> HIDE DEF p
<1>3. SUFFICES ASSUME k + (L - p) > Len(s) PROVE FALSE
  BY <1>1, <1>2 DEF p
<1>4. Len(s) - k \in Nat /\ k + (Len(s) - k) = Len(s) /\ p + (Len(s) - k) < L
  BY <1>1, <1>2, <1>3 DEF p
<1>5. s[Len(s)].msg = s[k].msg /\ s[Len(s)].pos = p + (Len(s) - k)
  <2>1. \A c \in Nat : k + c <= Len(s) /\ p + c <= L
           => s[k + c].msg = s[k].msg /\ s[k + c].pos = p + c
    BY <1>2, NextBytes DEF p
  <2> DEFINE d == Len(s) - k
  <2>2. d \in Nat /\ k + d = Len(s) /\ k + d <= Len(s) /\ p + d <= L
    BY <1>1, <1>2, <1>4 DEF p
  <2> HIDE DEF d
  <2>3. s[k + d].msg = s[k].msg /\ s[k + d].pos = p + d
    BY <2>1, <2>2
  <2> QED
    BY <2>2, <2>3 DEF d
<1>6. s # <<>>
  BY <1>1, EmptySeq
<1>7. s[Len(s)].pos = L
  BY <1>1, <1>2, <1>5, <1>6 DEF EndsWhole
<1> QED
  BY <1>4, <1>5, <1>7

\* A request that is taken before its last byte has come leaves its end behind.
LEMMA EndLeftBehind ==
    ASSUME NEW ms \in Seq(Messages), NEW s \in Seq(AnyByte),
           Contiguous(ms, s), EndsWhole(ms, s),
           NEW l \in 1 .. Len(s), NEW a \in 1 .. l, NEW e \in 1 .. l, Found(s, l, a, e),
           ms[s[a].msg].kind \in Setups => \E x \in a + 3 .. e - 2 : s[x].symbol = "Transport",
           ~\E k \in 1 .. l : s[k].msg = s[a].msg /\ s[k].pos = Length(ms, s[a].msg)
    PROVE  e + 2 <= Len(s) /\ s[e + 1].symbol = "CR" /\ s[e + 2].symbol = "LF"
<1>1. Len(s) \in Nat /\ a \in 1 .. Len(s) /\ s[a].symbol = "line" /\ a + 5 <= e
      /\ s[e - 1].symbol = "CR" /\ s[e].symbol = "LF"
  BY LenProperties DEF Found
<1>2. PICK m \in Requests : m = ms[s[a].msg]
  BY <1>1, AfterLine
<1>3. PICK L \in Nat : L = Length(ms, s[a].msg) /\ L = IF m.kind \in Setups THEN 11 ELSE 8
  BY <1>1, <1>2, AfterLine
<1>4. a + L - 1 <= Len(s)
  <2>1. s[a].pos = 1
    BY <1>1, AfterLine
  <2>2. a + (L - 1) <= Len(s)
    BY <1>1, <1>3, <2>1, NoneCut
  <2> QED
    BY <1>3, <2>2
<1>5. \A k \in a .. a + L - 1 : /\ s[k].msg = s[a].msg /\ s[k].pos = k - a + 1
                                 /\ s[k].symbol = Text(m)[k - a + 1]
  <2> SUFFICES ASSUME NEW k \in a .. a + L - 1
               PROVE  /\ s[k].msg = s[a].msg /\ s[k].pos = k - a + 1
                      /\ s[k].symbol = Text(m)[k - a + 1]
    OBVIOUS
  <2> DEFINE p == k - a + 1
  <2>1. p \in 1 .. Length(ms, s[a].msg) /\ a + p - 1 <= Len(s) /\ a + p - 1 = k
    BY <1>1, <1>3, <1>4
  <2> HIDE DEF p
  <2>2. s[a + p - 1].msg = s[a].msg /\ s[a + p - 1].pos = p /\ s[a + p - 1].symbol = Text(m)[p]
    BY <1>1, <1>2, <2>1, AfterLine
  <2> QED
    BY <2>1, <2>2 DEF p
<1>6. l < a + L - 1
  <2>1. s[a + L - 1].msg = s[a].msg /\ s[a + L - 1].pos = L
    <3> DEFINE k == a + L - 1
    <3>0. a \in Nat /\ L \in Nat /\ L >= 1
      BY <1>1, <1>3
    <3>1. k \in a .. a + L - 1 /\ k - a + 1 = L
      BY <3>0
    <3>2. s[k].msg = s[a].msg /\ s[k].pos = k - a + 1
      BY <1>5, <3>1
    <3> QED
      BY <3>1, <3>2
  <2>2. ~(a + L - 1 \in 1 .. l)
    BY <1>3, <2>1
  <2> QED
    BY <1>1, <1>3, <1>4, <2>2
<1>7. e <= a + L - 2 /\ e \in Nat
  BY <1>3, <1>6
<1>8. CASE m.kind \notin Setups
  <2>1. L = 8 /\ Text(m)[7] = "CR" /\ Text(m)[8] = "LF"
    BY <1>3, <1>8, RequestText
  <2>2. s[a + 6].symbol = "CR" /\ s[a + 7].symbol = "LF"
    <3>1. s[a + 6].symbol = Text(m)[7]
      BY <1>5, <2>1
    <3>2. s[a + 7].symbol = Text(m)[8]
      BY <1>5, <2>1
    <3> QED
      BY <2>1, <3>1, <3>2
  <2>3. e = a + 5
    BY <1>1, <1>7, <2>1, <2>2
  <2> QED
    BY <1>4, <2>1, <2>2, <2>3
<1>9. CASE m.kind \in Setups
  <2>1. L = 11 /\ Text(m)[4] = "CSeq" /\ Text(m)[5] = "CR" /\ Text(m)[6] = "LF"
        /\ Text(m)[10] = "CR" /\ Text(m)[11] = "LF"
    BY <1>3, <1>9, RequestText
  <2>2. PICK x \in a + 3 .. e - 2 : s[x].symbol = "Transport"
    BY <1>2, <1>9
  <2>3. x >= a + 6
    <3>1. s[a + 3].symbol = Text(m)[4]
      BY <1>5, <2>1
    <3>2. s[a + 4].symbol = Text(m)[5]
      BY <1>5, <2>1
    <3>3. s[a + 5].symbol = Text(m)[6]
      BY <1>5, <2>1
    <3>4. x # a + 3 /\ x # a + 4 /\ x # a + 5
      BY <2>1, <2>2, <3>1, <3>2, <3>3
    <3> QED
      BY <1>7, <3>4
  <2>4. s[a + 9].symbol = "CR" /\ s[a + 10].symbol = "LF"
    <3>1. s[a + 9].symbol = Text(m)[10]
      BY <1>5, <2>1
    <3>2. s[a + 10].symbol = Text(m)[11]
      BY <1>5, <2>1
    <3> QED
      BY <2>1, <3>1, <3>2
  <2>5. e = a + 8
    BY <1>1, <1>7, <2>1, <2>2, <2>3, <2>4
  <2> QED
    BY <1>4, <2>1, <2>4, <2>5
<1> QED
  BY <1>8, <1>9

HoldsCR(ms, i) == "CR" \in {ms[i].payload[k] : k \in DOMAIN ms[i].payload}

\* When no request is cut at l, the rest begins with a message or in a packet.
LEMMA BeginsWithMessage ==
    ASSUME NEW ms \in Seq(Messages), NEW s \in Seq(AnyByte),
           Contiguous(ms, s), EndsWhole(ms, s),
           NEW l \in 1 .. Len(s), NEW a \in 1 .. l, NEW e \in 1 .. l, Found(s, l, a, e),
           l < Len(s) => s[l + 1].pos = 1 \/ ms[s[l + 1].msg].kind \notin RequestKinds,
           e < Len(s)
    PROVE  s[e + 1].pos = 1 \/ HoldsCR(ms, s[e + 1].msg)
<1>1. Len(s) \in Nat /\ e + 1 \in 1 .. Len(s) /\ e \in 1 .. Len(s) /\ l \in 1 .. Len(s)
      /\ s[e - 1].symbol = "CR" /\ s[e].symbol = "LF" /\ e > 1
  BY LenProperties DEF Found
<1>2. SUFFICES ASSUME s[e + 1].pos # 1 PROVE HoldsCR(ms, s[e + 1].msg)
  OBVIOUS
<1> DEFINE j == s[e].msg
           p == s[e].pos
<1>3. j \in Nat /\ p \in Nat /\ s[e + 1].msg = j /\ s[e + 1].pos = p + 1
  <2>1. e + 1 - 1 = e /\ e + 1 > 1 /\ s[e] \in AnyByte /\ s[e + 1] \in AnyByte
    BY <1>1, NextBytes
  <2>2. s[e].msg = s[e + 1].msg /\ s[e].pos = s[e + 1].pos - 1
    BY <1>1, <1>2, <2>1, NextBytes
  <2>3. j \in Nat /\ p \in Nat /\ s[e + 1].pos \in Nat
    BY <2>1 DEF AnyByte
  <2>4. s[e + 1].msg = j /\ p = s[e + 1].pos - 1
    BY <2>2
  <2> HIDE DEF j, p
  <2> QED
    BY <2>3, <2>4
<1>10. j = s[e].msg /\ p = s[e].pos
  OBVIOUS
<1> HIDE DEF j, p
<1>4. IsByte(ms, s[e]) /\ IsByte(ms, s[e + 1]) /\ s[e] \in AnyByte
  BY <1>1, NextBytes
<1>5. PICK m \in Messages : m = ms[j]
  BY <1>3, <1>4, <1>10, ByteOfMessage
<1>6. PICK L \in Nat : L = Length(ms, j) /\ L = Len(Text(m)) /\ p >= 1 /\ p + 1 <= L
  BY <1>3, <1>4, <1>5, <1>10, ByteOfMessage DEF IsByte, Length
<1>7. CASE m \in Requests
  <2> DEFINE f == e + (L - p)
  <2>1. f \in 1 .. Len(s) /\ f \in Nat /\ f > e
    <3>1. e + (Length(ms, s[e].msg) - s[e].pos) <= Len(s)
      BY <1>1, NoneCut
    <3>2. f <= Len(s)
      BY <1>6, <1>10, <3>1
    <3> QED
      BY <1>1, <1>3, <1>6, <3>2
  <2> HIDE DEF f
  <2>2. \A k \in e .. f : s[k].msg = j /\ s[k].pos = p + (k - e)
    <3> SUFFICES ASSUME NEW k \in e .. f PROVE s[k].msg = j /\ s[k].pos = p + (k - e)
      OBVIOUS
    <3> DEFINE d == k - e
    <3>1. d \in Nat /\ e + d = k /\ e + d <= Len(s) /\ p + d <= L
      BY <1>1, <1>3, <1>6, <2>1 DEF f
    <3> HIDE DEF d
    <3>2. s[e + d].msg = s[e].msg /\ s[e + d].pos = s[e].pos + d
      BY <1>1, <1>6, <1>10, <3>1, NextBytes
    <3> QED
      BY <1>10, <3>1, <3>2 DEF d
  <2>3. CASE f <= l
    <3>1. Text(m)[L - 1] = "CR" /\ Text(m)[L] = "LF"
      <4>1. CASE m.kind \in Setups
        <5>1. L = 11 /\ Text(m)[10] = "CR" /\ Text(m)[11] = "LF"
          BY <1>6, <1>7, <4>1, RequestText
        <5> QED
          BY <5>1
      <4>2. CASE m.kind \notin Setups
        <5>1. L = 8 /\ Text(m)[7] = "CR" /\ Text(m)[8] = "LF"
          BY <1>6, <1>7, <4>2, RequestText
        <5> QED
          BY <5>1
      <4> QED
        BY <4>1, <4>2
    <3>2. f \in e .. f /\ f - 1 \in e .. f /\ f - 1 \in 1 .. Len(s)
          /\ p + (f - e) = L /\ p + (f - 1 - e) = L - 1
      <4>1. e \in Nat /\ L \in Nat /\ p \in Nat /\ e > 1 /\ p + 1 <= L /\ f <= Len(s) /\ Len(s) \in Nat
        BY <1>1, <1>3, <1>6, <2>1
      <4>2. f = e + (L - p)
        BY DEF f
      <4>3. f \in Nat /\ f - e = L - p /\ f - 1 >= e
        BY <4>1, <4>2
      <4>4. f \in e .. f /\ f - 1 \in e .. f /\ f - 1 \in 1 .. Len(s)
        BY <4>1, <4>3
      <4>5. p + (f - e) = L
        BY <4>1, <4>3
      <4>6. p + (f - 1 - e) = L - 1
        BY <4>1, <4>3
      <4> QED
        BY <4>4, <4>5, <4>6
    <3>3. s[f].msg = j /\ s[f].pos = L
      BY <2>2, <3>2
    <3>4. s[f - 1].msg = j /\ s[f - 1].pos = L - 1
      BY <2>2, <3>2
    <3>5. IsByte(ms, s[f]) /\ IsByte(ms, s[f - 1])
      BY <2>1, <3>2, NextBytes
    <3>6. s[f - 1].symbol = "CR" /\ s[f].symbol = "LF"
      BY <1>5, <3>1, <3>3, <3>4, <3>5 DEF IsByte
    <3>7. f \in e + 1 .. l
      BY <1>1, <2>1, <2>3
    <3> QED
      BY <3>6, <3>7 DEF Found
  <2>4. CASE f > l
    <3>1. l < Len(s)
      BY <1>1, <2>1, <2>4
    <3>2. l + 1 \in e .. f /\ p + (l + 1 - e) # 1
      BY <1>1, <1>3, <1>6, <2>1, <2>4
    <3>3. s[l + 1].msg = j /\ s[l + 1].pos = p + (l + 1 - e)
      BY <2>2, <3>2
    <3>4. m.kind \in RequestKinds
      BY <1>7 DEF Requests
    <3> QED
      BY <1>5, <3>1, <3>2, <3>3, <3>4
  <2> QED
    BY <1>1, <2>1, <2>3, <2>4
<1>8. CASE m \in Packets
  <2>1. /\ Text(m)[1] = "$" /\ Text(m)[2] = "channel" /\ Text(m)[3] = "high"
        /\ Text(m)[4] = "low" /\ L = 4 + Len(m.payload) /\ Len(m.payload) \in Nat
        /\ m.payload \in Seq({"CR", "LF", "data"})
        /\ \A k \in 1 .. Len(m.payload) : Text(m)[k + 4] = m.payload[k]
    BY <1>6, <1>8, PacketText
  <2>2. Text(m)[p] = "LF"
    BY <1>1, <1>4, <1>5, <1>10 DEF IsByte
  <2>3. p # 1
    BY <2>1, <2>2
  <2>4. s[e - 1].msg = j /\ s[e - 1].pos = p - 1
    BY <1>1, <1>10, <2>3, NextBytes
  <2>5. Text(m)[p - 1] = "CR"
    <3>1. e - 1 \in 1 .. Len(s)
      BY <1>1
    <3>2. IsByte(ms, s[e - 1])
      BY <3>1, NextBytes
    <3> QED
      BY <1>1, <1>5, <2>4, <3>2 DEF IsByte
  <2>6. p - 1 \notin {1, 2, 3, 4}
    BY <2>1, <2>5
  <2>7. p - 5 \in 1 .. Len(m.payload) /\ (p - 5) + 4 = p - 1
    BY <1>3, <1>6, <2>1, <2>3, <2>6
  <2>8. m.payload[p - 5] = "CR"
    BY <2>1, <2>5, <2>7
  <2>9. DOMAIN m.payload = 1 .. Len(m.payload)
    BY <2>1, LenProperties
  <2> QED
    BY <1>3, <1>5, <2>7, <2>8, <2>9 DEF HoldsCR
<1> QED
  BY <1>5, <1>7, <1>8 DEF Messages

-----------------------------------------------------------------------------
(* The stream is contiguous and ends with the last message *)

LEMMA InitStream == Init => StreamInv
<1> SUFFICES ASSUME Init PROVE StreamInv
  OBVIOUS
<1>1. Stream = <<>> /\ Len(Stream) = 0 /\ Stream \in Seq(AnyByte)
  <2>1. <<>> \in Seq(AnyByte) /\ Len(<<>>) = 0
    BY EmptySeq
  <2> QED
    BY <2>1, ConcatEmptySeq DEF Init, Stream
<1>2. Contiguous(msgs, Stream) /\ EndsWhole(msgs, Stream)
  BY <1>1 DEF Contiguous, EndsWhole
<1>3. msgs \in Seq(Messages) /\ Len(msgs) <= MaxMessages
  BY FramingAssumption, EmptySeq DEF Init
<1> QED
  BY <1>2, <1>3, EmptySeq DEF Init, StreamInv

LEMMA SendStream ==
    ASSUME StreamInv, NEW m \in Messages, Send(m)
    PROVE  /\ StreamInv'
           /\ msgs' = Append(msgs, m) /\ Len(msgs') = Len(msgs) + 1
           /\ Len(Stream') = Len(Stream) + Len(Text(m)) /\ Len(Text(m)) >= 4
           /\ \A k \in 1 .. Len(Stream) : Stream'[k] = Stream[k]
           /\ \A k \in 1 .. Len(Text(m)) :
                 /\ Stream'[Len(Stream) + k].msg = Len(msgs) + 1
                 /\ Stream'[Len(Stream) + k].pos = k
                 /\ Stream'[Len(Stream) + k].symbol = Text(m)[k]
<1>1. PICK b \in Seq(AnyByte), w \in Seq(AnyByte), ms \in Seq(Messages) :
         b = m_input_buffer_ /\ w = wire /\ ms = msgs
  BY DEF StreamInv
<1>2. PICK c \in Seq(AnyByte) :
         /\ c = Bytes(Len(ms) + 1, m) /\ Len(c) = Len(Text(m))
         /\ \A k \in 1 .. Len(Text(m)) :
               c[k].msg = Len(ms) + 1 /\ c[k].pos = k /\ c[k].symbol = Text(m)[k]
  <2>1. Len(ms) + 1 \in Nat
    BY LenProperties
  <2> QED
    BY <2>1, MessageBytes
<1>3. wire' = w \o c /\ wire' \in Seq(AnyByte) /\ m_input_buffer_' = b
  BY <1>1, <1>2, ConcatProperties DEF Send
<1>4. PICK s \in Seq(AnyByte) : s = Stream /\ s = b \o w
  BY <1>1, Join DEF Stream
<1>5. Stream' = s \o c
  BY <1>3, <1>4, ConcatAssociative DEF Stream
<1>6. Joined(Stream', s, c)
  BY <1>5, Join
<1>7. msgs' = Append(ms, m) /\ Len(msgs') = Len(ms) + 1 /\ msgs' \in Seq(Messages)
  BY <1>1, AppendProperties DEF Send
<1>8. Contiguous(msgs', Stream') /\ EndsWhole(msgs', Stream')
  BY <1>1, <1>2, <1>4, <1>5, <1>7, AppendContiguous DEF StreamInv
<1>9. Len(msgs') <= MaxMessages
  BY <1>1, <1>7, FramingAssumption, LenProperties DEF Send
<1>10. StreamInv'
  <2>1. m_is_rtp_over_tcp_' = m_is_rtp_over_tcp_ /\ handled' = handled /\ closed' = closed
    BY DEF Send
  <2>2. orderly' \in BOOLEAN
    BY DEF Send
  <2> QED
    BY <1>1, <1>3, <1>7, <1>8, <1>9, <2>1, <2>2 DEF StreamInv
<1>11. Len(Text(m)) >= 4
  BY MessageText DEF Messages
<1>12. /\ Len(Stream') = Len(s) + Len(Text(m))
       /\ \A k \in 1 .. Len(s) : Stream'[k] = s[k]
       /\ \A k \in 1 .. Len(Text(m)) : Stream'[Len(s) + k] = c[k]
  BY <1>2, <1>6 DEF Joined
<1>13. \A k \in 1 .. Len(Text(m)) : /\ Stream'[Len(s) + k].msg = Len(ms) + 1
                                    /\ Stream'[Len(s) + k].pos = k
                                    /\ Stream'[Len(s) + k].symbol = Text(m)[k]
  BY <1>2, <1>12
<1> QED
  BY <1>1, <1>4, <1>7, <1>10, <1>11, <1>12, <1>13

LEMMA ReadStream ==
    ASSUME StreamInv, NEW l \in 1 .. Len(Stream), NEW e \in 0 .. l, ReadTo(l, e),
           TookPacket(e) \/ Refused(l, e) \/ \E a \in 1 .. l : TookRequest(l, e, a)
    PROVE  StreamInv'
<1>1. PICK s \in Seq(AnyByte), t \in Seq(AnyByte) : s = Stream /\ t = Stream'
  BY Join DEF StreamInv, ReadTo, Stream
<1>2. Len(s) \in Nat /\ Len(t) = Len(s) - e /\ Part(t, s, e)
  BY <1>1, LenProperties DEF ReadTo, Dropped
<1>3. Contiguous(msgs', t)
  <2>1. Contiguous(msgs, s) /\ msgs' = msgs /\ e \in Nat
    BY <1>1, <1>2 DEF StreamInv, ReadTo
  <2>2. Contiguous(msgs, t)
    BY <1>2, <2>1, PartContiguous
  <2> QED
    BY <2>1, <2>2
<1>4. EndsWhole(msgs', t)
  <2>1. SUFFICES ASSUME t # <<>> PROVE EndsWhole(msgs', t)
    BY DEF EndsWhole
  <2>2. Len(t) \in Nat \ {0}
    BY <2>1, EmptySeq
  <2>3. Len(t) \in 1 .. Len(t) /\ e + Len(t) = Len(s) /\ Len(s) # 0
    BY <1>1, <1>2, <2>2
  <2>4. t[Len(t)] = s[Len(s)] /\ s # <<>>
    BY <1>2, <2>3, EmptySeq DEF Part
  <2> QED
    BY <1>1, <2>4 DEF EndsWhole, StreamInv, ReadTo
<1>5. /\ m_is_rtp_over_tcp_' \in BOOLEAN
      /\ handled' \in {"nothing", "request", "packet"}
      /\ closed' \in BOOLEAN
  <2>1. ASSUME TookPacket(e)
        PROVE  m_is_rtp_over_tcp_' \in BOOLEAN /\ handled' \in {"nothing", "request", "packet"}
               /\ closed' \in BOOLEAN
    BY <2>1 DEF TookPacket, StreamInv
  <2>2. ASSUME Refused(l, e)
        PROVE  m_is_rtp_over_tcp_' \in BOOLEAN /\ handled' \in {"nothing", "request", "packet"}
               /\ closed' \in BOOLEAN
    BY <2>2 DEF Refused, StreamInv
  <2>3. ASSUME NEW a \in 1 .. l, TookRequest(l, e, a)
        PROVE  m_is_rtp_over_tcp_' \in BOOLEAN /\ handled' \in {"nothing", "request", "packet"}
               /\ closed' \in BOOLEAN
    BY <2>3 DEF TookRequest, StreamInv
  <2> QED
    BY <2>1, <2>2, <2>3
<1>6. /\ wire' \in Seq(AnyByte) /\ m_input_buffer_' \in Seq(AnyByte)
      /\ msgs' = msgs /\ orderly' \in BOOLEAN
  BY DEF ReadTo
<1> QED
  BY <1>1, <1>3, <1>4, <1>5, <1>6 DEF StreamInv

-----------------------------------------------------------------------------
(* Answers match the requests *)

\* Lines still in the stream are of requests after those answered; and an answer
\* given too early has left the end of its request at the head of the stream,
\* which no request begins with.
AnswerInv ==
    /\ answers \in Seq(Answers)
    /\ \A k \in 1 .. Len(answers) : /\ answers[k].request \in 1 .. Len(msgs)
                                    /\ answers[k].cseq = answers[k].request
    /\ \A k, l \in 1 .. Len(answers) : k < l => answers[k].request < answers[l].request
    /\ \A k \in 1 .. Len(answers) : k < Len(answers) => answers[k].whole
    /\ \A k \in 1 .. Len(answers), x \in 1 .. Len(Stream) :
          Stream[x].symbol = "line" => answers[k].request < Stream[x].msg
    /\ \A k \in 1 .. Len(answers) :
          ~answers[k].whole /\ ~closed =>
             2 <= Len(Stream) /\ Stream[1].symbol = "CR" /\ Stream[2].symbol = "LF"

LEMMA TookLine ==
    ASSUME StreamInv, NEW l \in 1 .. Len(Stream), NEW e \in 0 .. l, ReadTo(l, e),
           NEW a \in 1 .. l, TookRequest(l, e, a)
    PROVE  /\ a \in 1 .. Len(Stream) /\ a + 5 <= e /\ Len(Stream) \in Nat
           /\ Stream[a].symbol = "line" /\ Stream[a].pos = 1
           /\ Stream[a].msg \in 1 .. Len(msgs) /\ msgs[Stream[a].msg] \in Requests
           /\ \A x \in a + 1 .. Len(Stream) : /\ Stream[x].msg >= Stream[a].msg
                                              /\ Stream[x].symbol = "line" => Stream[x].msg > Stream[a].msg
<1>1. PICK s \in Seq(AnyByte) : s = Stream /\ Contiguous(msgs, s)
  BY Join DEF StreamInv, Stream
<1>2. Len(s) \in Nat /\ a \in 1 .. Len(s) /\ msgs \in Seq(Messages)
  BY <1>1, LenProperties DEF StreamInv
<1>3. s[a].symbol = "line" /\ a + 5 <= e
  BY <1>1 DEF TookRequest, Found
<1>4. s[a] \in AnyByte /\ IsByte(msgs, s[a])
  BY <1>1, <1>2, NextBytes
<1>5. s[a].pos = 1 /\ msgs[s[a].msg] \in Requests /\ s[a].msg \in 1 .. Len(msgs)
  BY <1>2, <1>3, <1>4, ByteOfMessage DEF IsByte
<1>6. ASSUME NEW x \in a + 1 .. Len(s)
      PROVE  s[x].msg >= s[a].msg /\ (s[x].symbol = "line" => s[x].msg > s[a].msg)
  <2>1. x \in 1 .. Len(s) /\ a < x
    BY <1>2
  <2>2. s[x] \in AnyByte /\ IsByte(msgs, s[x])
    BY <1>1, <1>2, <2>1, NextBytes
  <2>3. s[a].msg < s[x].msg \/ (s[a].msg = s[x].msg /\ s[a].pos < s[x].pos)
    BY <1>1, <1>2, <2>1 DEF Contiguous
  <2>4. s[x].symbol = "line" => s[x].pos = 1
    BY <1>2, <2>2, ByteOfMessage
  <2>5. s[x].msg \in Nat /\ s[a].msg \in Nat
    BY <1>4, <2>2 DEF AnyByte
  <2> QED
    BY <1>5, <2>3, <2>4, <2>5
<1> QED
  BY <1>1, <1>2, <1>3, <1>5, <1>6

\* No request is taken after an answer that was given too early.
LEMMA WholeSoFar ==
    ASSUME StreamInv, AnswerInv, NEW l \in 1 .. Len(Stream), NEW e \in 0 .. l, ReadTo(l, e),
           NEW a \in 1 .. l, TookRequest(l, e, a), NEW k \in 1 .. Len(answers)
    PROVE  answers[k].whole
<1>1. SUFFICES ASSUME ~answers[k].whole PROVE FALSE
  OBVIOUS
<1>2. 2 <= Len(Stream) /\ Stream[1].symbol = "CR" /\ Stream[2].symbol = "LF"
  BY <1>1 DEF AnswerInv, ReadTo
<1>3. /\ Stream[a].symbol = "line"
      /\ \A j \in 1 .. a - 1 : ~(Stream[j].symbol = "CR" /\ Stream[j + 1].symbol = "LF")
  BY DEF TookRequest, Found
<1>4. a # 1 /\ a # 2 /\ a \in Nat
  BY <1>2, <1>3, TookLine
<1>5. 1 \in 1 .. a - 1 /\ 1 + 1 = 2
  BY <1>4
<1> QED
  BY <1>2, <1>3, <1>5

\* The answer that is given to the request at a.
Given(l, a, r) ==
    LET i == Stream[a].msg
    IN /\ r \in Answers /\ r.request = i /\ r.cseq = i
       /\ r.tcp <=> msgs[i].kind \in Setups /\ m_is_rtp_over_tcp_'
       /\ r.whole <=> \E k \in 1 .. l : Stream[k].msg = i /\ Stream[k].pos = Length(msgs, i)
       /\ answers' = Append(answers, r)

LEMMA TookAnswer ==
    ASSUME StreamInv, NEW l \in 1 .. Len(Stream), NEW e \in 0 .. l, ReadTo(l, e),
           NEW a \in 1 .. l, TookRequest(l, e, a)
    PROVE  \/ UNCHANGED answers /\ (closed' \/ msgs[Stream[a].msg].kind = "GET_PARAMETER")
           \/ /\ msgs[Stream[a].msg].kind # "GET_PARAMETER" /\ closed' = closed
              /\ \E r : Given(l, a, r)
<1> DEFINE i == Stream[a].msg
<1>1. i \in 1 .. MaxMessages
  <2>1. i \in 1 .. Len(msgs) /\ Len(msgs) \in Nat /\ Len(msgs) <= MaxMessages
    BY TookLine, LenProperties DEF StreamInv
  <2> QED
    BY <2>1, FramingAssumption
<1>2. CASE UNCHANGED answers /\ (closed' \/ msgs[i].kind = "GET_PARAMETER")
  BY <1>2
<1>3. CASE ~(UNCHANGED answers /\ (closed' \/ msgs[i].kind = "GET_PARAMETER"))
  <2> HIDE DEF i
  <2>1. /\ msgs[i].kind # "GET_PARAMETER" /\ closed' = closed
        /\ \E w \in BOOLEAN :
              /\ answers' = Append(answers,
                   [request |-> i, cseq |-> i,
                    tcp |-> msgs[i].kind \in Setups /\ m_is_rtp_over_tcp_', whole |-> w])
              /\ w <=> \E k \in 1 .. l : Stream[k].msg = i /\ Stream[k].pos = Length(msgs, i)
    BY <1>3 DEF TookRequest, i
  <2>2. PICK w \in BOOLEAN :
           /\ answers' = Append(answers,
                [request |-> i, cseq |-> i,
                 tcp |-> msgs[i].kind \in Setups /\ m_is_rtp_over_tcp_', whole |-> w])
           /\ w <=> \E k \in 1 .. l : Stream[k].msg = i /\ Stream[k].pos = Length(msgs, i)
    BY <2>1
  <2> DEFINE r == [request |-> i, cseq |-> i,
                   tcp |-> msgs[i].kind \in Setups /\ m_is_rtp_over_tcp_', whole |-> w]
  <2>3. r \in Answers
    BY <1>1 DEF Answers
  <2>4. /\ r.request = i /\ r.cseq = i /\ r.whole = w
        /\ r.tcp <=> msgs[i].kind \in Setups /\ m_is_rtp_over_tcp_'
    OBVIOUS
  <2>5. answers' = Append(answers, r)
    BY <2>2
  <2> HIDE DEF r
  <2>6. Given(l, a, r)
    BY <2>2, <2>3, <2>4, <2>5 DEF Given, i
  <2> QED
    BY <2>1, <2>6 DEF i
<1> QED
  BY <1>2, <1>3

\* Every byte that stays was there before.
LEMMA Stays ==
    ASSUME StreamInv, NEW l \in 1 .. Len(Stream), NEW e \in 0 .. l, ReadTo(l, e)
    PROVE  /\ Len(Stream) \in Nat /\ Len(Stream') = Len(Stream) - e
           /\ \A x \in 1 .. Len(Stream') :
                 Stream'[x] = Stream[e + x] /\ e + x \in e + 1 .. Len(Stream)
                 /\ e + x \in 1 .. Len(Stream)
           /\ \A x \in e + 1 .. Len(Stream) :
                 x - e \in 1 .. Len(Stream') /\ Stream'[x - e] = Stream[x]
<1>1. PICK s \in Seq(AnyByte), t \in Seq(AnyByte) : s = Stream /\ t = Stream'
  BY Join DEF StreamInv, ReadTo, Stream
<1>2. Len(s) \in Nat /\ Len(t) = Len(s) - e /\ \A x \in 1 .. Len(t) : t[x] = s[e + x]
  BY <1>1, LenProperties DEF ReadTo, Dropped, Part
<1>3. \A x \in 1 .. Len(t) : e + x \in e + 1 .. Len(s) /\ e + x \in 1 .. Len(s)
  BY <1>1, <1>2
<1>4. ASSUME NEW x \in e + 1 .. Len(s) PROVE x - e \in 1 .. Len(t) /\ t[x - e] = s[x]
  <2> DEFINE y == x - e
  <2>1. y \in 1 .. Len(t) /\ e + y = x
    BY <1>1, <1>2
  <2> HIDE DEF y
  <2>2. t[y] = s[e + y]
    BY <1>2, <2>1
  <2> QED
    BY <2>1, <2>2 DEF y
<1> QED
  BY <1>1, <1>2, <1>3, <1>4

LEMMA InitAnswers == Init => AnswerInv
<1> SUFFICES ASSUME Init PROVE AnswerInv
  OBVIOUS
<1>1. answers = <<>> /\ Len(answers) = 0 /\ answers \in Seq(Answers)
  BY EmptySeq DEF Init
<1> QED
  BY <1>1 DEF AnswerInv

LEMMA SendAnswers ==
    ASSUME StreamInv, AnswerInv, NEW m \in Messages, Send(m)
    PROVE  AnswerInv'
<1>1. /\ Len(msgs') = Len(msgs) + 1 /\ Len(msgs) \in Nat /\ Len(Stream) \in Nat
      /\ Len(Stream') = Len(Stream) + Len(Text(m)) /\ Len(Text(m)) >= 4
      /\ \A k \in 1 .. Len(Stream) : Stream'[k] = Stream[k]
      /\ \A k \in 1 .. Len(Text(m)) : Stream'[Len(Stream) + k].msg = Len(msgs) + 1
      /\ Len(Text(m)) \in Nat
  <2>1. Len(msgs) \in Nat /\ Len(Stream) \in Nat
    BY Join, LenProperties DEF StreamInv, Stream
  <2>2. Len(Text(m)) \in Nat
    BY MessageText DEF Messages
  <2> QED
    BY <2>1, <2>2, SendStream
<1>2. answers' = answers /\ closed' = closed
  BY DEF Send
<1>3. ASSUME NEW k \in 1 .. Len(answers) PROVE answers[k].request \in 1 .. Len(msgs')
  BY <1>1 DEF AnswerInv
<1>4. ASSUME NEW k \in 1 .. Len(answers), NEW x \in 1 .. Len(Stream'), Stream'[x].symbol = "line"
      PROVE  answers[k].request < Stream'[x].msg
  <2>1. CASE x <= Len(Stream)
    <3>1. x \in 1 .. Len(Stream)
      BY <1>1, <2>1
    <3> QED
      BY <1>1, <1>4, <3>1 DEF AnswerInv
  <2>2. CASE ~(x <= Len(Stream))
    <3> DEFINE j == x - Len(Stream)
    <3>1. j \in 1 .. Len(Text(m)) /\ Len(Stream) + j = x
      BY <1>1, <2>2
    <3> HIDE DEF j
    <3>2. Stream'[x].msg = Len(msgs) + 1
      BY <1>1, <3>1
    <3>3. answers[k].request \in 1 .. Len(msgs)
      BY DEF AnswerInv
    <3> QED
      BY <1>1, <3>2, <3>3
  <2> QED
    BY <2>1, <2>2
<1>5. ASSUME NEW k \in 1 .. Len(answers), ~answers[k].whole, ~closed
      PROVE  2 <= Len(Stream') /\ Stream'[1].symbol = "CR" /\ Stream'[2].symbol = "LF"
  <2>1. 2 <= Len(Stream) /\ Stream[1].symbol = "CR" /\ Stream[2].symbol = "LF"
    BY <1>5 DEF AnswerInv
  <2>2. 1 \in 1 .. Len(Stream) /\ 2 \in 1 .. Len(Stream) /\ 2 <= Len(Stream')
    BY <1>1, <2>1
  <2> QED
    BY <1>1, <2>1, <2>2
<1> QED
  BY <1>2, <1>3, <1>4, <1>5 DEF AnswerInv

LEMMA ReadAnswers ==
    ASSUME StreamInv, AnswerInv, NEW l \in 1 .. Len(Stream), NEW e \in 0 .. l, ReadTo(l, e),
           TookPacket(e) \/ Refused(l, e) \/ \E a \in 1 .. l : TookRequest(l, e, a)
    PROVE  AnswerInv'
<1>1. msgs' = msgs /\ ~closed
  BY DEF ReadTo
<1>2. \A k \in 1 .. Len(answers), x \in 1 .. Len(Stream') :
         Stream'[x].symbol = "line" => answers[k].request < Stream'[x].msg
  <2> SUFFICES ASSUME NEW k \in 1 .. Len(answers), NEW x \in 1 .. Len(Stream'),
                      Stream'[x].symbol = "line"
               PROVE  answers[k].request < Stream'[x].msg
    OBVIOUS
  <2>1. PICK y \in 1 .. Len(Stream) : Stream'[x] = Stream[y]
    BY Stays
  <2> QED
    BY <2>1 DEF AnswerInv
\* Without an answer, the head of the stream stays where it was.
<1>3. ASSUME UNCHANGED answers,
             \A k \in 1 .. Len(answers) :
                ~answers[k].whole /\ ~closed' =>
                   2 <= Len(Stream') /\ Stream'[1].symbol = "CR" /\ Stream'[2].symbol = "LF"
      PROVE  AnswerInv'
  BY <1>1, <1>2, <1>3 DEF AnswerInv
<1>4. CASE TookPacket(e)
  <2>1. UNCHANGED <<answers, closed>>
    BY <1>4 DEF TookPacket
  <2>2. ASSUME NEW k \in 1 .. Len(answers), ~answers[k].whole
        PROVE  2 <= Len(Stream') /\ Stream'[1].symbol = "CR" /\ Stream'[2].symbol = "LF"
    <3>1. 2 <= Len(Stream) /\ Stream[1].symbol = "CR" /\ Stream[2].symbol = "LF"
      BY <1>1, <2>2 DEF AnswerInv
    <3>2. e = 0
      BY <1>4, <3>1 DEF TookPacket
    <3>3. Len(Stream') = Len(Stream) /\ 1 \in 1 .. Len(Stream') /\ 2 \in 1 .. Len(Stream')
      BY <3>1, <3>2, Stays
    <3>4. \A x \in 1 .. Len(Stream') : Stream'[x] = Stream[0 + x]
      BY <3>2, Stays
    <3> QED
      BY <3>1, <3>3, <3>4
  <2> QED
    BY <1>3, <2>1, <2>2
<1>5. CASE Refused(l, e)
  <2>1. UNCHANGED answers /\ closed'
    BY <1>5 DEF Refused
  <2> QED
    BY <1>3, <2>1
<1>6. ASSUME NEW a \in 1 .. l, TookRequest(l, e, a)
      PROVE  AnswerInv'
  <2>1. \A k \in 1 .. Len(answers) : answers[k].whole
    BY <1>6, WholeSoFar
  <2>2. CASE UNCHANGED answers
    BY <1>3, <2>1, <2>2
  <2>3. CASE ~UNCHANGED answers
    <3> DEFINE i == Stream[a].msg
    <3>1. PICK r : Given(l, a, r)
      BY <1>6, <2>3, TookAnswer
    <3>2. i \in 1 .. Len(msgs) /\ Stream[a].symbol = "line" /\ a \in 1 .. Len(Stream)
          /\ a + 5 <= e /\ Len(Stream) \in Nat
          /\ \A x \in a + 1 .. Len(Stream) : Stream[x].symbol = "line" => Stream[x].msg > i
      BY <1>6, TookLine
    <3> HIDE DEF i
    <3>3. r.request = i /\ r.cseq = i /\ r \in Answers /\ answers' = Append(answers, r)
      BY <3>1 DEF Given, i
    <3>4. PICK n \in Nat : n = Len(answers) /\ answers \in Seq(Answers)
      BY LenProperties DEF AnswerInv
    <3>5. /\ answers' \in Seq(Answers) /\ Len(answers') = n + 1 /\ answers'[n + 1] = r
          /\ \A k \in 1 .. n : answers'[k] = answers[k]
      BY <3>3, <3>4, AppendProperties
    <3>6. \A k \in 1 .. n : answers[k].request < i /\ answers[k].request \in Nat
      <4>1. i = Stream[a].msg
        BY DEF i
      <4>2. Len(msgs) \in Nat
        BY LenProperties DEF StreamInv
      <4> QED
        BY <3>2, <3>4, <4>1, <4>2 DEF AnswerInv
    <3>7. \A k \in 1 .. n + 1 : k \in 1 .. n \/ k = n + 1
      OBVIOUS
    <3>8. \A k \in 1 .. n + 1 : answers'[k].request \in 1 .. Len(msgs')
                                /\ answers'[k].cseq = answers'[k].request
      BY <1>1, <3>2, <3>3, <3>4, <3>5, <3>7 DEF AnswerInv
    <3>9. ASSUME NEW k \in 1 .. n + 1, NEW j \in 1 .. n + 1, k < j
          PROVE  answers'[k].request < answers'[j].request
      <4>1. k \in 1 .. n
        BY <3>4, <3>9
      <4>2. CASE j = n + 1
        BY <3>3, <3>5, <3>6, <4>1, <4>2
      <4>3. CASE j \in 1 .. n
        BY <3>4, <3>5, <3>9, <4>1, <4>3 DEF AnswerInv
      <4> QED
        BY <3>7, <4>2, <4>3
    <3>10. \A k \in 1 .. n : answers'[k].whole
      BY <2>1, <3>4, <3>5
    <3>11. ASSUME NEW k \in 1 .. n + 1, NEW x \in 1 .. Len(Stream'), Stream'[x].symbol = "line"
           PROVE  answers'[k].request < Stream'[x].msg
      <4>1. CASE k \in 1 .. n
        BY <1>2, <3>4, <3>5, <3>11, <4>1
      <4>2. CASE k = n + 1
        <5>1. Stream'[x] = Stream[e + x] /\ e + x \in e + 1 .. Len(Stream)
          BY Stays
        <5>2. e + x \in a + 1 .. Len(Stream)
          BY <3>2, <5>1
        <5>3. Stream[e + x].msg > i
          BY <3>2, <3>11, <5>1, <5>2
        <5>4. i \in Nat /\ Stream[e + x].msg \in Nat
          <6>1. Stream \in Seq(AnyByte) /\ Len(msgs) \in Nat
            BY Join, LenProperties DEF StreamInv, Stream
          <6>2. Stream[e + x] \in AnyByte
            BY <5>1, <6>1, Stays, ElementOfSeq
          <6>3. i \in Nat
            BY <3>2, <6>1
          <6>4. Stream[e + x].msg \in Nat
            BY <6>2 DEF AnyByte
          <6> QED
            BY <6>3, <6>4
        <5> QED
          BY <3>3, <3>5, <4>2, <5>1, <5>3, <5>4
      <4> QED
        BY <3>7, <4>1, <4>2
    <3>12. ASSUME ~r.whole
           PROVE  2 <= Len(Stream') /\ Stream'[1].symbol = "CR" /\ Stream'[2].symbol = "LF"
      <4>1. PICK s \in Seq(AnyByte) : s = Stream /\ Contiguous(msgs, s) /\ EndsWhole(msgs, s)
        BY Join DEF StreamInv, Stream
      <4>2. Found(s, l, a, e) /\ e \in 1 .. l /\ msgs \in Seq(Messages) /\ l \in 1 .. Len(s)
        BY <1>6, <4>1 DEF TookRequest, Found, StreamInv
      <4>3. msgs[s[a].msg].kind \in Setups => \E x \in a + 3 .. e - 2 : s[x].symbol = "Transport"
        BY <1>6, <4>1 DEF TookRequest
      <4>4. ~\E k \in 1 .. l : s[k].msg = s[a].msg /\ s[k].pos = Length(msgs, s[a].msg)
        BY <3>1, <3>12, <4>1 DEF Given
      <4>5. e + 2 <= Len(s) /\ s[e + 1].symbol = "CR" /\ s[e + 2].symbol = "LF"
        BY <4>1, <4>2, <4>3, <4>4, EndLeftBehind
      <4>6. /\ 2 <= Len(Stream') /\ 1 \in 1 .. Len(Stream') /\ 2 \in 1 .. Len(Stream')
        BY <4>1, <4>5, Stays
      <4> QED
        BY <4>1, <4>5, <4>6, Stays
    <3>13. ASSUME NEW k \in 1 .. n + 1, ~answers'[k].whole
           PROVE  2 <= Len(Stream') /\ Stream'[1].symbol = "CR" /\ Stream'[2].symbol = "LF"
      BY <3>3, <3>5, <3>7, <3>10, <3>12, <3>13
    <3>14. \A k \in 1 .. n + 1 : k < n + 1 => answers'[k].whole
      BY <3>7, <3>10
    <3> QED
      BY <3>5, <3>8, <3>9, <3>11, <3>13, <3>14 DEF AnswerInv
  <2> QED
    BY <2>2, <2>3
<1> QED
  BY <1>4, <1>5, <1>6

-----------------------------------------------------------------------------
(* What an orderly client finds *)

AtBoundary(ms, x) == x.pos = 1 \/ HoldsCR(ms, x.msg)

\* The stream begins with a message, or in a packet that holds a CR.
HeadInv ==
    orderly /\ ((~closed /\ 1 <= Len(Stream)) \/ 1 <= Len(m_input_buffer_))
        => AtBoundary(msgs, Stream[1])

\* The requests before one were settled when it was sent; and a request that is
\* not settled is still in the stream from its line on, or behind a keep-alive.
OrderInv ==
    orderly =>
        /\ \A i, j \in 1 .. Len(msgs) : i < j /\ IsRequest(j) => Settled(i)
        /\ ~closed => \A i \in 1 .. Len(msgs) : IsRequest(i) =>
              \/ Settled(i)
              \/ BehindKeepAlive(i)
              \/ \E x \in 1 .. Len(Stream) : Stream[x].msg = i /\ Stream[x].symbol = "line"

\* The flag is set by a SETUP that asked for TCP, and by each that was answered.
TransportInv ==
    /\ m_is_rtp_over_tcp_ => \E j \in 1 .. Len(msgs) : msgs[j].kind = "SETUP_TCP"
    /\ orderly =>
        /\ \A k \in 1 .. Len(answers) :
              msgs[answers[k].request].kind = "SETUP_TCP" => m_is_rtp_over_tcp_
        /\ \A k \in 1 .. Len(answers) :
              msgs[answers[k].request].kind \in Setups =>
                (answers[k].tcp <=> \E j \in 1 .. answers[k].request : msgs[j].kind = "SETUP_TCP")

LEMMA HeadOfBuffer ==
    ASSUME StreamInv
    PROVE  /\ Len(m_input_buffer_) \in Nat /\ Len(Stream) \in Nat
           /\ Len(m_input_buffer_) <= Len(Stream)
           /\ 1 <= Len(m_input_buffer_) => Stream[1] = m_input_buffer_[1]
<1>1. Joined(Stream, m_input_buffer_, wire) /\ Len(m_input_buffer_) \in Nat /\ Len(wire) \in Nat
  BY Join, LenProperties DEF StreamInv, Stream
<1> QED
  BY <1>1 DEF Joined

LEMMA SendHead ==
    ASSUME StreamInv, HeadInv, NEW m \in Messages, Send(m)
    PROVE  HeadInv'
<1>1. /\ Len(Stream') = Len(Stream) + Len(Text(m))
      /\ \A k \in 1 .. Len(Stream) : Stream'[k] = Stream[k]
      /\ \A k \in 1 .. Len(Text(m)) : Stream'[Len(Stream) + k].pos = k
      /\ Len(Text(m)) \in Nat /\ Len(Text(m)) >= 4
  BY SendStream, MessageText DEF Messages
<1>2. Len(Stream) \in Nat /\ (1 <= Len(m_input_buffer_) => 1 <= Len(Stream))
  BY HeadOfBuffer
<1>3. m_input_buffer_' = m_input_buffer_ /\ closed' = closed /\ (orderly' => orderly) /\ ~closed
  BY DEF Send
<1>4. CASE 1 <= Len(Stream)
  <2>1. 1 \in 1 .. Len(Stream) /\ Stream'[1] = Stream[1]
    BY <1>1, <1>2, <1>4
  <2>2. Stream[1].msg \in 1 .. Len(msgs)
    <3>1. Contiguous(msgs, Stream)
      BY DEF StreamInv
    <3> QED
      BY <2>1, <3>1 DEF Contiguous, IsByte
  <2>3. msgs'[Stream[1].msg] = msgs[Stream[1].msg]
    BY <2>2, SendStream, AppendProperties DEF StreamInv
  <2> QED
    BY <1>3, <1>4, <2>1, <2>3 DEF HeadInv, AtBoundary, HoldsCR
<1>5. CASE Len(Stream) = 0
  <2>1. 1 \in 1 .. Len(Text(m)) /\ Len(Stream) + 1 = 1
    BY <1>1, <1>5
  <2>2. Stream'[1].pos = 1
    BY <1>1, <2>1
  <2> QED
    BY <2>2 DEF HeadInv, AtBoundary
<1> QED
  BY <1>2, <1>4, <1>5

LEMMA ReadHead ==
    ASSUME StreamInv, HeadInv, NEW l \in 1 .. Len(Stream), NEW e \in 0 .. l, ReadTo(l, e),
           TookPacket(e) \/ Refused(l, e) \/ \E a \in 1 .. l : TookRequest(l, e, a)
    PROVE  HeadInv'
<1>1. SUFFICES ASSUME orderly', (~closed' /\ 1 <= Len(Stream')) \/ 1 <= Len(m_input_buffer_')
               PROVE  AtBoundary(msgs, Stream'[1])
  BY DEF HeadInv, ReadTo
<1>2. Len(m_input_buffer_') <= Len(Stream') /\ Len(m_input_buffer_') \in Nat /\ Len(Stream') \in Nat
      /\ Len(m_input_buffer_') = l - e
  <2>1. Joined(Stream', m_input_buffer_', wire')
    BY Join DEF ReadTo, Stream
  <2>2. Len(m_input_buffer_') \in Nat /\ Len(wire') \in Nat
    BY LenProperties DEF ReadTo
  <2> QED
    BY <2>1, <2>2 DEF Joined, ReadTo
<1>3. Len(Stream') >= 1
  BY <1>1, <1>2
<1>4. Len(Stream) \in Nat /\ e < Len(Stream) /\ Stream'[1] = Stream[e + 1] /\ 1 \in 1 .. Len(Stream)
  <2>1. Len(Stream) \in Nat /\ Len(Stream') = Len(Stream) - e /\ 1 \in 1 .. Len(Stream')
    BY <1>2, <1>3, Stays
  <2>2. Stream'[1] = Stream[e + 1]
    BY <2>1, Stays
  <2> QED
    BY <1>3, <2>1, <2>2
<1>5. PICK s \in Seq(AnyByte) : s = Stream /\ Contiguous(msgs, s) /\ EndsWhole(msgs, s)
  BY Join DEF StreamInv, Stream
<1>6. msgs \in Seq(Messages)
  BY DEF StreamInv
<1>7. CASE TookPacket(e)
  <2>1. CASE e = 0
    <3>1. orderly /\ ~closed /\ 1 <= Len(Stream) /\ Stream'[1] = Stream[1]
      BY <1>1, <1>4, <2>1 DEF ReadTo
    <3> QED
      BY <3>1 DEF HeadInv
  <2>2. CASE e # 0
    <3>1. s[1].symbol = "$" /\ e = Length(msgs, s[1].msg) /\ e \in 1 .. Len(s)
      BY <1>4, <1>5, <1>7, <2>2 DEF TookPacket
    <3>2. s[1] \in AnyByte /\ IsByte(msgs, s[1]) /\ 1 \in 1 .. Len(s)
      BY <1>4, <1>5, <1>6, NextBytes
    <3>3. s[1].pos = 1
      BY <1>6, <3>1, <3>2, ByteOfMessage
    <3> DEFINE d == e - 1
    <3>4. d \in Nat /\ 1 + d = e /\ 1 + d <= Len(s) /\ s[1].pos + d = e
      BY <3>1, <3>3
    <3> HIDE DEF d
    <3>5. s[1 + d].msg = s[1].msg /\ s[1 + d].pos = s[1].pos + d
      BY <1>5, <1>6, <3>1, <3>2, <3>4, NextBytes
    <3>6. s[e].msg = s[1].msg /\ s[e].pos = Length(msgs, s[e].msg)
      BY <3>1, <3>4, <3>5
    <3>7. e \in 1 .. Len(s) - 1
      BY <1>4, <1>5, <3>1
    <3>8. s[e + 1].pos = 1
      BY <1>5, <3>6, <3>7 DEF Contiguous
    <3> QED
      BY <1>4, <1>5, <3>8 DEF AtBoundary
  <2> QED
    BY <2>1, <2>2
<1>8. CASE Refused(l, e)
  BY <1>1, <1>2, <1>8 DEF Refused
<1>9. ASSUME NEW a \in 1 .. l, TookRequest(l, e, a)
      PROVE  AtBoundary(msgs, Stream'[1])
  <2>1. Found(s, l, a, e) /\ e \in 1 .. l /\ l \in 1 .. Len(s) /\ e < Len(s)
    BY <1>4, <1>5, <1>9 DEF TookRequest, Found
  <2>2. l < Len(s) => s[l + 1].pos = 1 \/ msgs[s[l + 1].msg].kind \notin RequestKinds
    BY <1>1, <1>5 DEF ReadTo
  <2>3. s[e + 1].pos = 1 \/ HoldsCR(msgs, s[e + 1].msg)
    BY <1>5, <1>6, <2>1, <2>2, BeginsWithMessage
  <2> QED
    BY <1>4, <1>5, <2>3 DEF AtBoundary
<1> QED
  BY <1>7, <1>8, <1>9

\* What is said of a message stays true when messages and answers are added.
LEMMA SettledStays ==
    ASSUME NEW i \in Nat, \A j \in 1 .. i : msgs'[j] = msgs[j],
           answers \in Seq(Answers), answers' \in Seq(Answers),
           Len(answers) <= Len(answers'),
           \A k \in 1 .. Len(answers) : answers'[k] = answers[k]
    PROVE  /\ i >= 1 /\ Settled(i) => Settled(i)'
           /\ BehindKeepAlive(i) => BehindKeepAlive(i)'
<1>1. /\ DOMAIN answers = 1 .. Len(answers) /\ DOMAIN answers' = 1 .. Len(answers')
      /\ Len(answers) \in Nat /\ Len(answers') \in Nat
  BY LenProperties
<1>2. ASSUME i >= 1, Settled(i) PROVE Settled(i)'
  <2>1. msgs'[i] = msgs[i]
    BY <1>2
  <2>2. ASSUME AnsweredFor(i) PROVE AnsweredFor(i)'
    <3>1. PICK k \in 1 .. Len(answers) : answers[k].request = i
      BY <1>1, <2>2 DEF AnsweredFor
    <3>2. k \in 1 .. Len(answers') /\ answers'[k].request = i
      BY <1>1, <3>1
    <3> QED
      BY <1>1, <3>2 DEF AnsweredFor
  <2> QED
    BY <1>2, <2>1, <2>2 DEF Settled, IsRequest
<1>3. ASSUME BehindKeepAlive(i) PROVE BehindKeepAlive(i)'
  <2>1. PICK j \in 1 .. i - 1 : msgs[j].kind = "GET_PARAMETER" /\ \A k \in j + 1 .. i - 1 : ~IsRequest(k)
    BY <1>3 DEF BehindKeepAlive
  <2>2. msgs'[j].kind = "GET_PARAMETER"
    BY <2>1
  <2>3. \A k \in j + 1 .. i - 1 : ~IsRequest(k)'
    <3>1. \A k \in j + 1 .. i - 1 : k \in 1 .. i
      OBVIOUS
    <3> QED
      BY <2>1, <3>1 DEF IsRequest
  <2> QED
    BY <2>1, <2>2, <2>3 DEF BehindKeepAlive
<1> QED
  BY <1>2, <1>3

\* What Send adds to.
LEMMA SendAdds ==
    ASSUME StreamInv, AnswerInv, NEW m \in Messages, Send(m)
    PROVE  /\ Len(msgs) \in Nat /\ Len(msgs') = Len(msgs) + 1 /\ msgs'[Len(msgs) + 1] = m
           /\ \A i \in 1 .. Len(msgs) : msgs'[i] = msgs[i]
           /\ \A i \in 1 .. Len(msgs) : /\ Settled(i) => Settled(i)'
                                        /\ BehindKeepAlive(i) => BehindKeepAlive(i)'
           /\ answers' = answers /\ closed' = closed /\ ~closed
           /\ m_is_rtp_over_tcp_' = m_is_rtp_over_tcp_ /\ (orderly' => orderly)
<1>1. /\ Len(msgs) \in Nat /\ Len(msgs') = Len(msgs) + 1 /\ msgs'[Len(msgs) + 1] = m
      /\ \A i \in 1 .. Len(msgs) : msgs'[i] = msgs[i]
  BY AppendProperties, LenProperties DEF Send, StreamInv
<1>2. /\ answers' = answers /\ closed' = closed /\ ~closed
      /\ m_is_rtp_over_tcp_' = m_is_rtp_over_tcp_ /\ (orderly' => orderly)
  BY DEF Send
<1>3. ASSUME NEW i \in 1 .. Len(msgs)
      PROVE  (Settled(i) => Settled(i)') /\ (BehindKeepAlive(i) => BehindKeepAlive(i)')
  <2>1. i \in Nat /\ i >= 1 /\ \A j \in 1 .. i : msgs'[j] = msgs[j]
    BY <1>1
  <2>2. answers \in Seq(Answers) /\ answers' \in Seq(Answers) /\ Len(answers) <= Len(answers')
        /\ \A k \in 1 .. Len(answers) : answers'[k] = answers[k]
    BY <1>2, LenProperties DEF AnswerInv
  <2> QED
    BY <2>1, <2>2, SettledStays
<1> QED
  BY <1>1, <1>2, <1>3

LEMMA SendOrder ==
    ASSUME StreamInv, AnswerInv, OrderInv, NEW m \in Messages, Send(m)
    PROVE  OrderInv'
<1>1. /\ Len(msgs) \in Nat /\ Len(msgs') = Len(msgs) + 1 /\ msgs'[Len(msgs) + 1] = m
      /\ \A i \in 1 .. Len(msgs) : msgs'[i] = msgs[i]
      /\ \A i \in 1 .. Len(msgs) : /\ Settled(i) => Settled(i)'
                                   /\ BehindKeepAlive(i) => BehindKeepAlive(i)'
      /\ closed' = closed /\ ~closed
  BY SendAdds
<1>2. SUFFICES ASSUME orderly' PROVE OrderInv'
  BY DEF OrderInv
<1>3. orderly /\ (m \in Requests => \A i \in 1 .. Len(msgs) : Settled(i))
  <2>1. DOMAIN msgs = 1 .. Len(msgs)
    BY LenProperties DEF StreamInv
  <2> QED
    BY <1>2, <2>1 DEF Send
<1>4. \A i \in 1 .. Len(msgs') : i \in 1 .. Len(msgs) \/ i = Len(msgs) + 1
  BY <1>1
<1>5. m.kind \in RequestKinds => m \in Requests
  <2>1. m \in Packets => m.kind \notin RequestKinds
    BY DEF Packets, RequestKinds
  <2> QED
    BY <2>1 DEF Messages
<1>6. \A i \in 1 .. Len(msgs) : IsRequest(i)' => IsRequest(i)
  BY <1>1 DEF IsRequest
<1>7. ASSUME NEW i \in 1 .. Len(msgs'), NEW j \in 1 .. Len(msgs'), i < j, IsRequest(j)'
      PROVE  Settled(i)'
  <2>1. i \in 1 .. Len(msgs)
    BY <1>1, <1>4, <1>7
  <2>2. CASE j \in 1 .. Len(msgs)
    BY <1>1, <1>3, <1>6, <1>7, <2>1, <2>2 DEF OrderInv
  <2>3. CASE j = Len(msgs) + 1
    <3>1. msgs'[j].kind \in RequestKinds /\ msgs'[j] = m
      BY <1>1, <1>7, <2>3 DEF IsRequest
    <3> QED
      BY <1>1, <1>3, <1>5, <2>1, <3>1
  <2> QED
    BY <1>4, <2>2, <2>3
<1>8. ASSUME NEW i \in 1 .. Len(msgs'), IsRequest(i)'
      PROVE  \/ Settled(i)'
             \/ BehindKeepAlive(i)'
             \/ \E x \in 1 .. Len(Stream') : Stream'[x].msg = i /\ Stream'[x].symbol = "line"
  <2>1. /\ Len(Stream) \in Nat /\ Len(Text(m)) \in Nat /\ Len(Text(m)) >= 4
        /\ Len(Stream') = Len(Stream) + Len(Text(m))
        /\ \A k \in 1 .. Len(Stream) : Stream'[k] = Stream[k]
        /\ \A k \in 1 .. Len(Text(m)) : Stream'[Len(Stream) + k].msg = Len(msgs) + 1
                                        /\ Stream'[Len(Stream) + k].symbol = Text(m)[k]
    BY SendStream, HeadOfBuffer, MessageText DEF Messages
  <2>2. CASE i \in 1 .. Len(msgs)
    <3>1. \/ Settled(i)
          \/ BehindKeepAlive(i)
          \/ \E x \in 1 .. Len(Stream) : Stream[x].msg = i /\ Stream[x].symbol = "line"
      BY <1>1, <1>3, <1>6, <1>8, <2>2 DEF OrderInv
    <3>2. ASSUME NEW x \in 1 .. Len(Stream), Stream[x].msg = i, Stream[x].symbol = "line"
          PROVE  \E y \in 1 .. Len(Stream') : Stream'[y].msg = i /\ Stream'[y].symbol = "line"
      <4>1. x \in 1 .. Len(Stream') /\ Stream'[x] = Stream[x]
        BY <2>1
      <4> QED
        BY <3>2, <4>1
    <3> QED
      BY <1>1, <2>2, <3>1, <3>2
  <2>3. CASE i = Len(msgs) + 1
    <3>1. m \in Requests
      <4>1. msgs'[i].kind \in RequestKinds /\ msgs'[i] = m
        BY <1>1, <1>8, <2>3 DEF IsRequest
      <4> QED
        BY <1>5, <4>1
    <3>2. Text(m)[1] = "line" /\ 1 \in 1 .. Len(Text(m))
      BY <2>1, <3>1, RequestText
    <3>3. Stream'[Len(Stream) + 1].msg = i /\ Stream'[Len(Stream) + 1].symbol = "line"
      BY <2>1, <2>3, <3>2
    <3>4. Len(Stream) + 1 \in 1 .. Len(Stream')
      BY <2>1
    <3> QED
      BY <3>3, <3>4
  <2> QED
    BY <1>4, <2>2, <2>3
<1> QED
  BY <1>7, <1>8 DEF OrderInv

LEMMA SendTransport ==
    ASSUME StreamInv, AnswerInv, TransportInv, NEW m \in Messages, Send(m)
    PROVE  TransportInv'
<1>1. /\ Len(msgs) \in Nat /\ Len(msgs') = Len(msgs) + 1
      /\ \A i \in 1 .. Len(msgs) : msgs'[i] = msgs[i]
      /\ answers' = answers /\ m_is_rtp_over_tcp_' = m_is_rtp_over_tcp_ /\ (orderly' => orderly)
  BY SendAdds
<1>2. m_is_rtp_over_tcp_' => \E j \in 1 .. Len(msgs') : msgs'[j].kind = "SETUP_TCP"
  <2> SUFFICES ASSUME m_is_rtp_over_tcp_
               PROVE  \E j \in 1 .. Len(msgs') : msgs'[j].kind = "SETUP_TCP"
    BY <1>1
  <2>1. PICK j \in 1 .. Len(msgs) : msgs[j].kind = "SETUP_TCP"
    BY DEF TransportInv
  <2>2. j \in 1 .. Len(msgs') /\ msgs'[j].kind = "SETUP_TCP"
    BY <1>1, <2>1
  <2> QED
    BY <2>2
<1>3. ASSUME NEW k \in 1 .. Len(answers)
      PROVE  /\ msgs'[answers[k].request] = msgs[answers[k].request]
             /\ \A j \in 1 .. answers[k].request : msgs'[j] = msgs[j]
  <2>1. answers[k].request \in 1 .. Len(msgs)
    BY DEF AnswerInv
  <2> QED
    BY <1>1, <2>1
<1>4. ASSUME orderly', NEW k \in 1 .. Len(answers)
      PROVE  LET i == answers[k].request
             IN /\ msgs'[i].kind = "SETUP_TCP" => m_is_rtp_over_tcp_
                /\ msgs'[i].kind \in Setups =>
                      (answers[k].tcp <=> \E j \in 1 .. i : msgs'[j].kind = "SETUP_TCP")
  <2> DEFINE i == answers[k].request
  <2>1. /\ msgs[i].kind = "SETUP_TCP" => m_is_rtp_over_tcp_
        /\ msgs[i].kind \in Setups =>
              (answers[k].tcp <=> \E j \in 1 .. i : msgs[j].kind = "SETUP_TCP")
    BY <1>1, <1>4 DEF TransportInv
  <2>2. msgs'[i] = msgs[i] /\ \A j \in 1 .. i : msgs'[j] = msgs[j]
    BY <1>3
  <2> QED
    BY <2>1, <2>2
<1> QED
  BY <1>1, <1>2, <1>4 DEF TransportInv

\* A read only adds an answer.
LEMMA ReadAdds ==
    ASSUME StreamInv, AnswerInv, NEW l \in 1 .. Len(Stream), NEW e \in 0 .. l, ReadTo(l, e),
           TookPacket(e) \/ Refused(l, e) \/ \E a \in 1 .. l : TookRequest(l, e, a)
    PROVE  /\ msgs' = msgs /\ ~closed /\ (orderly' => orderly) /\ Len(msgs) \in Nat
           /\ Len(answers) \in Nat /\ Len(answers) <= Len(answers')
           /\ \A k \in 1 .. Len(answers) : answers'[k] = answers[k]
           /\ \A i \in 1 .. Len(msgs) : /\ Settled(i) => Settled(i)'
                                        /\ BehindKeepAlive(i) => BehindKeepAlive(i)'
<1>1. msgs' = msgs /\ ~closed /\ (orderly' => orderly)
  BY DEF ReadTo
<1>2. answers \in Seq(Answers) /\ answers' \in Seq(Answers) /\ Len(answers) \in Nat
  BY ReadAnswers, LenProperties DEF AnswerInv
<1>3. Len(answers) <= Len(answers') /\ \A k \in 1 .. Len(answers) : answers'[k] = answers[k]
  <2>1. CASE UNCHANGED answers
    BY <1>2, <2>1
  <2>2. CASE ~UNCHANGED answers
    <3>1. PICK a \in 1 .. l : TookRequest(l, e, a)
      BY <2>2 DEF TookPacket, Refused
    <3>2. PICK r : r \in Answers /\ answers' = Append(answers, r)
      BY <2>2, <3>1, TookAnswer DEF Given
    <3> QED
      BY <1>2, <3>2, AppendProperties
  <2> QED
    BY <2>1, <2>2
<1>4. Len(msgs) \in Nat
  BY LenProperties DEF StreamInv
<1>5. ASSUME NEW i \in 1 .. Len(msgs)
      PROVE  (Settled(i) => Settled(i)') /\ (BehindKeepAlive(i) => BehindKeepAlive(i)')
  <2>1. i \in Nat /\ i >= 1 /\ \A j \in 1 .. i : msgs'[j] = msgs[j]
    BY <1>1, <1>4
  <2> QED
    BY <1>2, <1>3, <2>1, SettledStays
<1> QED
  BY <1>1, <1>2, <1>3, <1>4, <1>5

\* A request that is taken was not answered before, and no request follows the
\* one taken unless it is a keep-alive.
LEMMA TakenIsLast ==
    ASSUME StreamInv, AnswerInv, OrderInv, orderly,
           NEW l \in 1 .. Len(Stream), NEW e \in 0 .. l, ReadTo(l, e),
           NEW a \in 1 .. l, TookRequest(l, e, a)
    PROVE  /\ \A j \in 1 .. Len(msgs) : j >= Stream[a].msg => ~AnsweredFor(j)
           /\ \A i \in 1 .. Len(msgs), j \in 1 .. Len(msgs) :
                 i >= Stream[a].msg /\ IsRequest(i) /\ i < j /\ IsRequest(j)
                    => msgs[i].kind = "GET_PARAMETER"
           /\ msgs[Stream[a].msg].kind # "GET_PARAMETER" =>
                 \A j \in 1 .. Len(msgs) : IsRequest(j) => j <= Stream[a].msg
<1> DEFINE h == Stream[a].msg
<1>1. /\ h \in 1 .. Len(msgs) /\ msgs[h] \in Requests /\ a \in 1 .. Len(Stream)
      /\ Stream[a].symbol = "line" /\ Len(msgs) \in Nat
  BY TookLine, LenProperties DEF StreamInv
<1>2. IsRequest(h)
  BY <1>1 DEF IsRequest, Requests
<1> HIDE DEF h
<1>3. \A k \in DOMAIN answers : answers[k].request \in Nat /\ answers[k].request < h
  <2>1. DOMAIN answers = 1 .. Len(answers)
    BY LenProperties DEF AnswerInv
  <2>2. \A k \in 1 .. Len(answers) : answers[k].request \in 1 .. Len(msgs) /\ answers[k].request < h
    BY <1>1 DEF AnswerInv, h
  <2> QED
    BY <1>1, <2>1, <2>2
<1>4. ASSUME NEW j \in 1 .. Len(msgs), j >= h PROVE ~AnsweredFor(j)
  <2>1. ASSUME NEW k \in DOMAIN answers, answers[k].request = j PROVE FALSE
    <3>1. answers[k].request < h /\ j \in Nat /\ h \in Nat
      BY <1>1, <1>3
    <3> QED
      BY <1>4, <2>1, <3>1
  <2> QED
    BY <2>1 DEF AnsweredFor
<1>5. ASSUME NEW i \in 1 .. Len(msgs), NEW j \in 1 .. Len(msgs),
             i >= h, IsRequest(i), i < j, IsRequest(j)
      PROVE  msgs[i].kind = "GET_PARAMETER"
  <2>1. Settled(i)
    BY <1>5 DEF OrderInv
  <2> QED
    BY <1>4, <1>5, <2>1 DEF Settled
<1>6. ASSUME msgs[h].kind # "GET_PARAMETER", NEW j \in 1 .. Len(msgs), IsRequest(j)
      PROVE  j <= h
  <2>1. ~(h < j)
    BY <1>1, <1>2, <1>5, <1>6
  <2> QED
    BY <1>1, <2>1
<1> QED
  BY <1>4, <1>5, <1>6 DEF h

LEMMA ReadOrder ==
    ASSUME StreamInv, AnswerInv, OrderInv,
           NEW l \in 1 .. Len(Stream), NEW e \in 0 .. l, ReadTo(l, e),
           TookPacket(e) \/ Refused(l, e) \/ \E a \in 1 .. l : TookRequest(l, e, a)
    PROVE  OrderInv'
<1>1. /\ msgs' = msgs /\ ~closed /\ (orderly' => orderly) /\ Len(msgs) \in Nat
      /\ Len(answers) \in Nat /\ Len(answers) <= Len(answers')
      /\ \A k \in 1 .. Len(answers) : answers'[k] = answers[k]
      /\ \A i \in 1 .. Len(msgs) : /\ Settled(i) => Settled(i)'
                                   /\ BehindKeepAlive(i) => BehindKeepAlive(i)'
  BY ReadAdds
<1>2. SUFFICES ASSUME orderly' PROVE OrderInv'
  BY DEF OrderInv
<1>3. orderly
  BY <1>1, <1>2
<1>4. \A i : IsRequest(i)' <=> IsRequest(i)
  BY <1>1 DEF IsRequest
<1>5. \A i, j \in 1 .. Len(msgs') : i < j /\ IsRequest(j)' => Settled(i)'
  BY <1>1, <1>3, <1>4 DEF OrderInv
<1>6. ASSUME ~closed', NEW i \in 1 .. Len(msgs), IsRequest(i)
      PROVE  \/ Settled(i)'
             \/ BehindKeepAlive(i)'
             \/ \E x \in 1 .. Len(Stream') : Stream'[x].msg = i /\ Stream'[x].symbol = "line"
  <2>1. CASE Settled(i) \/ BehindKeepAlive(i)
    BY <1>1, <2>1
  <2>2. ASSUME NEW x \in 1 .. Len(Stream), Stream[x].msg = i, Stream[x].symbol = "line"
        PROVE  \/ Settled(i)'
               \/ BehindKeepAlive(i)'
               \/ \E y \in 1 .. Len(Stream') : Stream'[y].msg = i /\ Stream'[y].symbol = "line"
    <3>1. Len(Stream) \in Nat
      BY Stays
    <3>2. CASE x \in e + 1 .. Len(Stream)
      <4>1. x - e \in 1 .. Len(Stream') /\ Stream'[x - e] = Stream[x]
        BY <3>2, Stays
      <4> QED
        BY <2>2, <4>1
    <3>3. CASE x <= e
      <4>1. ASSUME TookPacket(e) PROVE FALSE
        <5>1. PICK s \in Seq(AnyByte) : s = Stream /\ Contiguous(msgs, s)
          BY Join DEF StreamInv, Stream
        <5>2. msgs \in Seq(Messages) /\ 1 \in 1 .. Len(s) /\ x \in 1 .. Len(s)
          BY <3>1, <5>1 DEF StreamInv
        <5>3. s[1].symbol = "$" /\ e = Length(msgs, s[1].msg)
          BY <3>3, <4>1, <5>1 DEF TookPacket
        <5>4. s[1].pos = 1
          BY <5>1, <5>2, <5>3, NextBytes, ByteOfMessage
        <5> DEFINE d == x - 1
        <5>5. d \in Nat /\ 1 + d = x /\ 1 + d <= Len(s) /\ s[1].pos + d <= Length(msgs, s[1].msg)
              /\ s[1].pos + d = x
          BY <3>1, <3>3, <5>1, <5>3, <5>4
        <5> HIDE DEF d
        <5>6. s[1 + d].pos = s[1].pos + d
          BY <5>1, <5>2, <5>5, NextBytes
        <5>7. s[x].pos = x
          BY <5>5, <5>6
        <5>8. s[x].pos = 1
          BY <2>2, <5>1, <5>2, NextBytes, ByteOfMessage
        <5> QED
          BY <2>2, <5>1, <5>3, <5>7, <5>8
      <4>2. ~Refused(l, e)
        BY <1>6 DEF Refused
      <4>3. PICK a \in 1 .. l : TookRequest(l, e, a)
        BY <4>1, <4>2
      <4> DEFINE h == Stream[a].msg
      <4>4. /\ h \in 1 .. Len(msgs) /\ msgs[h] \in Requests /\ a \in 1 .. Len(Stream)
            /\ \A y \in a + 1 .. Len(Stream) : Stream[y].symbol = "line" => Stream[y].msg > h
        BY <4>3, TookLine
      <4>5. ~(x \in 1 .. a - 1)
        BY <2>2, <4>3 DEF TookRequest, Found
      <4>6. CASE x = a
        <5>1. i = h
          BY <2>2, <4>6
        <5>2. CASE msgs[h].kind = "GET_PARAMETER"
          <6>1. Settled(i)
            BY <5>1, <5>2 DEF Settled
          <6> QED
            BY <1>1, <6>1
        <5>3. CASE msgs[h].kind # "GET_PARAMETER"
          <6>1. PICK r : answers' = Append(answers, r) /\ r.request = h
            BY <1>6, <4>3, <5>3, TookAnswer DEF Given
          <6>2. answers' \in Seq(Answers) /\ answers \in Seq(Answers)
            BY ReadAnswers DEF AnswerInv
          <6>3. Len(answers) + 1 \in DOMAIN answers' /\ answers'[Len(answers) + 1] = r
            BY <1>1, <6>1, <6>2
          <6>4. AnsweredFor(i)'
            BY <5>1, <6>1, <6>3 DEF AnsweredFor
          <6> QED
            BY <6>4 DEF Settled
        <5> QED
          BY <5>2, <5>3
      <4>7. CASE x \in a + 1 .. Len(Stream)
        <5>1. h < i /\ h \in Nat /\ i \in Nat /\ IsRequest(h)
          BY <1>1, <2>2, <4>4, <4>7 DEF IsRequest, Requests
        <5> DEFINE S == {j \in 1 .. i - 1 : IsRequest(j)}
        <5>2. S \in SUBSET (1 .. i) /\ h \in S
          BY <4>4, <5>1
        <5>3. Max(S) \in S /\ \A j \in S : Max(S) >= j
          BY <5>1, <5>2, Greatest
        <5>4. PICK j \in S : j >= h /\ \A k \in S : j >= k
          BY <5>2, <5>3
        <5>5. j \in 1 .. Len(msgs) /\ j \in 1 .. i - 1 /\ IsRequest(j) /\ j < i
          BY <1>1, <5>1, <5>4
        <5>6. msgs[j].kind = "GET_PARAMETER"
          BY <1>3, <1>6, <4>3, <5>4, <5>5, TakenIsLast
        <5>7. \A k \in j + 1 .. i - 1 : ~IsRequest(k)
          <6>1. ASSUME NEW k \in j + 1 .. i - 1, IsRequest(k) PROVE FALSE
            <7>1. k \in S /\ k > j
              BY <5>1, <5>5, <6>1
            <7> QED
              BY <5>4, <5>5, <7>1
          <6> QED
            BY <6>1
        <5>8. BehindKeepAlive(i)
          BY <5>5, <5>6, <5>7 DEF BehindKeepAlive
        <5> QED
          BY <1>1, <5>8
      <4> QED
        BY <3>1, <4>4, <4>5, <4>6, <4>7
    <3> QED
      BY <3>1, <3>2, <3>3
  <2> QED
    BY <1>1, <1>3, <1>6, <2>1, <2>2 DEF OrderInv
<1> QED
  BY <1>1, <1>4, <1>5, <1>6 DEF OrderInv

LEMMA ReadTransport ==
    ASSUME StreamInv, AnswerInv, OrderInv, TransportInv,
           NEW l \in 1 .. Len(Stream), NEW e \in 0 .. l, ReadTo(l, e),
           TookPacket(e) \/ Refused(l, e) \/ \E a \in 1 .. l : TookRequest(l, e, a)
    PROVE  TransportInv'
<1>1. msgs' = msgs /\ (orderly' => orderly)
  BY DEF ReadTo
<1>2. CASE TookPacket(e) \/ Refused(l, e)
  <2>1. answers' = answers /\ m_is_rtp_over_tcp_' = m_is_rtp_over_tcp_
    BY <1>2 DEF TookPacket, Refused
  <2> QED
    BY <1>1, <2>1 DEF TransportInv
<1>3. ASSUME NEW a \in 1 .. l, TookRequest(l, e, a)
      PROVE  TransportInv'
  <2> DEFINE h == Stream[a].msg
             T == {x \in a + 3 .. e - 2 : Stream[x].symbol = "Transport"}
             asks == msgs[h].kind \in Setups /\ \E x \in T : msgs[Stream[x].msg].kind = "SETUP_TCP"
  <2>1. /\ m_is_rtp_over_tcp_' = (m_is_rtp_over_tcp_ \/ asks)
        /\ msgs[h].kind \in Setups => T # {}
    BY <1>3 DEF TookRequest
  <2>2. /\ h \in 1 .. Len(msgs) /\ msgs[h] \in Requests /\ a \in 1 .. Len(Stream)
        /\ Len(Stream) \in Nat /\ Len(msgs) \in Nat
        /\ \A x \in a + 1 .. Len(Stream) : Stream[x].msg >= h
    BY <1>3, TookLine, LenProperties DEF StreamInv
\* A Transport header is of a request of the client, not before the one taken.
  <2>3. ASSUME NEW x \in T
        PROVE  Stream[x].msg \in 1 .. Len(msgs) /\ Stream[x].msg >= h
    <3>1. x \in a + 1 .. Len(Stream) /\ x \in 1 .. Len(Stream)
      BY <2>2
    <3>2. Stream[x].msg \in 1 .. Len(msgs)
      BY <3>1 DEF StreamInv, Contiguous, IsByte
    <3> QED
      BY <2>2, <3>1, <3>2
  <2>4. m_is_rtp_over_tcp_' => \E j \in 1 .. Len(msgs) : msgs[j].kind = "SETUP_TCP"
    BY <2>1, <2>3 DEF TransportInv
  <2>5. CASE UNCHANGED answers
    <3>1. ASSUME orderly', NEW k \in 1 .. Len(answers)
          PROVE  LET i == answers[k].request
                 IN /\ msgs[i].kind = "SETUP_TCP" => m_is_rtp_over_tcp_'
                    /\ msgs[i].kind \in Setups =>
                         (answers[k].tcp <=> \E j \in 1 .. i : msgs[j].kind = "SETUP_TCP")
      BY <1>1, <2>1, <3>1 DEF TransportInv
    <3> QED
      BY <1>1, <2>4, <2>5, <3>1 DEF TransportInv
  <2>6. CASE ~UNCHANGED answers
    <3>1. msgs[h].kind # "GET_PARAMETER"
      BY <1>3, <2>6, TookAnswer
    <3>2. PICK r : /\ answers' = Append(answers, r) /\ r.request = h
                   /\ r.tcp <=> msgs[h].kind \in Setups /\ m_is_rtp_over_tcp_'
      BY <1>3, <2>6, TookAnswer DEF Given
    <3>3. PICK n \in Nat : n = Len(answers) /\ answers \in Seq(Answers)
      BY LenProperties DEF AnswerInv
    <3>4. /\ Len(answers') = n + 1 /\ answers'[n + 1] = r
          /\ \A k \in 1 .. n : answers'[k] = answers[k]
      BY <3>2, <3>3, ReadAdds
    <3>5. \A k \in 1 .. n + 1 : k \in 1 .. n \/ k = n + 1
      OBVIOUS
    <3>6. ASSUME orderly', NEW k \in 1 .. n
          PROVE  LET i == answers[k].request
                 IN /\ msgs[i].kind = "SETUP_TCP" => m_is_rtp_over_tcp_'
                    /\ msgs[i].kind \in Setups =>
                         (answers[k].tcp <=> \E j \in 1 .. i : msgs[j].kind = "SETUP_TCP")
      BY <1>1, <2>1, <3>3, <3>6 DEF TransportInv
    <3>7. ASSUME orderly', msgs[h].kind \in Setups
          PROVE  /\ msgs[h].kind = "SETUP_TCP" => m_is_rtp_over_tcp_'
                 /\ m_is_rtp_over_tcp_' <=> \E j \in 1 .. h : msgs[j].kind = "SETUP_TCP"
      <4>1. \A j \in 1 .. Len(msgs) : IsRequest(j) => j <= h
        BY <1>1, <1>3, <3>1, <3>7, TakenIsLast
      <4>2. \A j \in 1 .. Len(msgs) : msgs[j].kind = "SETUP_TCP" => j \in 1 .. h
        BY <2>2, <4>1 DEF IsRequest, RequestKinds
\* The Transport found is the request's own.
      <4>3. ASSUME msgs[h].kind = "SETUP_TCP" PROVE m_is_rtp_over_tcp_'
        <5>1. PICK x \in T : TRUE
          BY <2>1, <3>7
        <5>2. msgs[Stream[x].msg] \in Requests
          <6>1. PICK s \in Seq(AnyByte) : s = Stream /\ Contiguous(msgs, s)
            BY Join DEF StreamInv, Stream
          <6>2. x \in 1 .. Len(s) /\ msgs \in Seq(Messages)
            BY <2>2, <6>1 DEF StreamInv
          <6>3. PICK b \in AnyByte : b = s[x] /\ IsByte(msgs, b)
            BY <6>1, <6>2, NextBytes
          <6>4. PICK m \in Messages : m = msgs[b.msg]
            BY <6>2, <6>3, ByteOfMessage
          <6>5. b.symbol = "Transport" /\ b.pos \in 1 .. Len(Text(m)) /\ b.symbol = Text(m)[b.pos]
            BY <6>1, <6>3, <6>4 DEF IsByte, Length
          <6>6. m \notin Packets
            BY <6>5, NoTransportInPacket
          <6> QED
            BY <6>1, <6>3, <6>4, <6>6 DEF Messages
        <5>3. Stream[x].msg = h
          <6>1. IsRequest(Stream[x].msg)
            BY <5>2 DEF IsRequest, Requests
          <6>2. Stream[x].msg \in 1 .. Len(msgs) /\ Stream[x].msg >= h /\ Stream[x].msg <= h
            BY <2>3, <4>1, <6>1
          <6> QED
            BY <2>2, <6>2
        <5> QED
          BY <2>1, <3>7, <4>3, <5>3
      <4>4. ASSUME NEW j \in 1 .. h, msgs[j].kind = "SETUP_TCP", j # h PROVE m_is_rtp_over_tcp_'
        <5>1. j \in 1 .. Len(msgs) /\ j < h /\ IsRequest(h)
          BY <2>2, <4>4 DEF IsRequest, Requests
        <5>2. Settled(j) /\ IsRequest(j)
          BY <1>1, <2>2, <3>7, <4>4, <5>1 DEF OrderInv, IsRequest, RequestKinds
        <5>3. AnsweredFor(j)
          BY <4>4, <5>2 DEF Settled
        <5>4. PICK k \in 1 .. n : answers[k].request = j
          <6>1. DOMAIN answers = 1 .. n
            BY <3>3, LenProperties
          <6> QED
            BY <5>3, <6>1 DEF AnsweredFor
        <5> QED
          BY <3>6, <3>7, <4>4, <5>4
      <4>5. ASSUME m_is_rtp_over_tcp_' PROVE \E j \in 1 .. h : msgs[j].kind = "SETUP_TCP"
        BY <2>4, <4>2, <4>5
      <4>6. ASSUME NEW j \in 1 .. h, msgs[j].kind = "SETUP_TCP" PROVE m_is_rtp_over_tcp_'
        BY <4>3, <4>4, <4>6
      <4> QED
        BY <4>3, <4>5, <4>6
    <3>8. ASSUME orderly', NEW k \in 1 .. n + 1
          PROVE  LET i == answers'[k].request
                 IN /\ msgs[i].kind = "SETUP_TCP" => m_is_rtp_over_tcp_'
                    /\ msgs[i].kind \in Setups =>
                         (answers'[k].tcp <=> \E j \in 1 .. i : msgs[j].kind = "SETUP_TCP")
      <4>1. CASE k \in 1 .. n
        BY <3>4, <3>6, <3>8, <4>1
      <4>2. CASE k = n + 1
        <5>1. answers'[k] = r /\ r.request = h
          BY <3>2, <3>4, <4>2
        <5>2. msgs[h].kind = "SETUP_TCP" => msgs[h].kind \in Setups
          BY DEF Setups
        <5> HIDE DEF h, asks, T
        <5> QED
          BY <3>2, <3>7, <3>8, <5>1, <5>2
      <4> QED
        BY <3>5, <4>1, <4>2
    <3> QED
      BY <1>1, <2>4, <3>4, <3>8 DEF TransportInv
  <2> QED
    BY <2>5, <2>6
<1> QED
  BY <1>2, <1>3

-----------------------------------------------------------------------------
(* The inductive invariant *)

FramingInv == StreamInv /\ AnswerInv /\ HeadInv /\ OrderInv /\ TransportInv

LEMMA InitFraming == Init => FramingInv
<1> SUFFICES ASSUME Init PROVE FramingInv
  OBVIOUS
<1>1. /\ Len(Stream) = 0 /\ Len(m_input_buffer_) = 0 /\ Len(msgs) = 0 /\ Len(answers) = 0
      /\ m_is_rtp_over_tcp_ = FALSE
  <2>1. <<>> \o <<>> = <<>> /\ Len(<<>>) = 0
    BY EmptySeq, ConcatEmptySeq
  <2> QED
    BY <2>1 DEF Init, Stream
<1>2. HeadInv /\ OrderInv /\ TransportInv
  BY <1>1 DEF HeadInv, OrderInv, TransportInv
<1> QED
  BY <1>2, InitStream, InitAnswers DEF FramingInv

LEMMA NextFraming == FramingInv /\ [Next]_vars => FramingInv'
<1> SUFFICES ASSUME FramingInv, [Next]_vars PROVE FramingInv'
  OBVIOUS
<1>1. StreamInv /\ AnswerInv /\ HeadInv /\ OrderInv /\ TransportInv
  BY DEF FramingInv
<1>2. ASSUME NEW m \in Messages, Send(m)
      PROVE  FramingInv'
  BY <1>1, <1>2, SendStream, SendAnswers, SendHead, SendOrder, SendTransport DEF FramingInv
<1>3. ASSUME NEW n \in 1 .. Len(wire), HandleReadBytes(n)
      PROVE  FramingInv'
  <2>1. PICK l \in 1 .. Len(Stream) : \E e \in 0 .. l :
           /\ ReadTo(l, e)
           /\ TookPacket(e) \/ Refused(l, e) \/ \E a \in 1 .. l : TookRequest(l, e, a)
    BY <1>1, <1>3, ReadCases
  <2>2. PICK e \in 0 .. l :
           /\ ReadTo(l, e)
           /\ TookPacket(e) \/ Refused(l, e) \/ \E a \in 1 .. l : TookRequest(l, e, a)
    BY <2>1
  <2>3. StreamInv' /\ AnswerInv'
    BY <1>1, <2>2, ReadStream, ReadAnswers
  <2>4. HeadInv'
    BY <1>1, <2>2, ReadHead
  <2>5. OrderInv'
    BY <1>1, <2>2, ReadOrder
  <2>6. TransportInv'
    BY <1>1, <2>2, ReadTransport
  <2> QED
    BY <2>3, <2>4, <2>5, <2>6 DEF FramingInv
<1>4. CASE UNCHANGED vars
  <2>1. Stream' = Stream
    BY <1>4 DEF vars, Stream
  <2>2. \A i : /\ IsRequest(i)' = IsRequest(i) /\ Settled(i)' = Settled(i)
               /\ BehindKeepAlive(i)' = BehindKeepAlive(i)
    BY <1>4 DEF vars, IsRequest, Settled, AnsweredFor, BehindKeepAlive
  <2>3. StreamInv' /\ AnswerInv' /\ TransportInv'
    BY <1>1, <1>4, <2>1 DEF vars, StreamInv, AnswerInv, TransportInv
  <2>4. HeadInv' /\ OrderInv'
    BY <1>1, <1>4, <2>1, <2>2 DEF vars, HeadInv, OrderInv
  <2> QED
    BY <2>3, <2>4 DEF FramingInv
<1> QED
  BY <1>2, <1>3, <1>4 DEF Next, Read, Messages

LEMMA AlwaysFraming == Spec => []FramingInv
<1> QED
  BY InitFraming, NextFraming, PTL DEF Spec

-----------------------------------------------------------------------------
(* The properties of the runs *)

\* The bytes of the buffer and of the wire are those of the stream.
LEMMA BytesOfStream ==
    ASSUME StreamInv
    PROVE  /\ DOMAIN m_input_buffer_ = 1 .. Len(m_input_buffer_) /\ DOMAIN wire = 1 .. Len(wire)
           /\ \A q \in {wire, m_input_buffer_} : \A k \in DOMAIN q :
                 \E x \in 1 .. Len(Stream) : Stream[x] = q[k]
           /\ \A x \in 1 .. Len(Stream) :
                 \E q \in {wire, m_input_buffer_} : \E k \in DOMAIN q : q[k] = Stream[x]
           /\ \A x \in 1 .. Len(Stream) : Stream[x].msg \in 1 .. Len(msgs)
<1>1. /\ Joined(Stream, m_input_buffer_, wire)
      /\ Len(m_input_buffer_) \in Nat /\ Len(wire) \in Nat
      /\ DOMAIN m_input_buffer_ = 1 .. Len(m_input_buffer_) /\ DOMAIN wire = 1 .. Len(wire)
  BY Join, LenProperties DEF StreamInv, Stream
<1>2. ASSUME NEW k \in 1 .. Len(m_input_buffer_)
      PROVE  k \in 1 .. Len(Stream) /\ Stream[k] = m_input_buffer_[k]
  BY <1>1 DEF Joined
<1>3. ASSUME NEW k \in 1 .. Len(wire)
      PROVE  /\ Len(m_input_buffer_) + k \in 1 .. Len(Stream)
             /\ Stream[Len(m_input_buffer_) + k] = wire[k]
  BY <1>1 DEF Joined
<1>4. ASSUME NEW x \in 1 .. Len(Stream)
      PROVE  \E q \in {wire, m_input_buffer_} : \E k \in DOMAIN q : q[k] = Stream[x]
  <2>1. CASE x <= Len(m_input_buffer_)
    <3>1. x \in DOMAIN m_input_buffer_ /\ m_input_buffer_[x] = Stream[x]
      BY <1>1, <2>1 DEF Joined
    <3> QED
      BY <3>1
  <2>2. CASE ~(x <= Len(m_input_buffer_))
    <3> DEFINE k == x - Len(m_input_buffer_)
    <3>1. k \in 1 .. Len(wire) /\ Len(m_input_buffer_) + k = x
      BY <1>1, <2>2 DEF Joined
    <3> HIDE DEF k
    <3>2. k \in DOMAIN wire /\ wire[k] = Stream[x]
      BY <1>1, <1>3, <3>1
    <3> QED
      BY <3>2
  <2> QED
    BY <2>1, <2>2
<1>5. \A x \in 1 .. Len(Stream) : Stream[x].msg \in 1 .. Len(msgs)
  BY DEF StreamInv, Contiguous, IsByte
<1>6. ASSUME NEW q \in {wire, m_input_buffer_}, NEW k \in DOMAIN q
      PROVE  \E x \in 1 .. Len(Stream) : Stream[x] = q[k]
  <2>1. CASE q = wire
    BY <1>1, <1>3, <2>1
  <2>2. CASE q = m_input_buffer_
    BY <1>1, <1>2, <2>2
  <2> QED
    BY <2>1, <2>2
<1> QED
  BY <1>1, <1>4, <1>5, <1>6

LEMMA FramingTypes == FramingInv => TypeOK
<1> SUFFICES ASSUME FramingInv PROVE TypeOK
  OBVIOUS
<1>1. StreamInv /\ AnswerInv
  BY DEF FramingInv
<1>2. DOMAIN msgs = 1 .. Len(msgs)
  BY <1>1, LenProperties DEF StreamInv
<1>3. \A q \in {wire, m_input_buffer_} : \A k \in DOMAIN q : q[k].msg \in DOMAIN msgs
  BY <1>1, <1>2, BytesOfStream
<1> QED
  BY <1>1, <1>3 DEF TypeOK, StreamInv, AnswerInv, Messages

LEMMA FramingAnswers == FramingInv => AnswersMatch
<1> SUFFICES ASSUME FramingInv PROVE AnswersMatch
  OBVIOUS
<1>1. AnswerInv
  BY DEF FramingInv
<1>2. DOMAIN answers = 1 .. Len(answers)
  BY <1>1, LenProperties DEF AnswerInv
<1> QED
  BY <1>1, <1>2, FramingTypes DEF AnswersMatch, AnswerInv

LEMMA FramingHead == FramingInv => HeadAtBoundary
<1> SUFFICES ASSUME FramingInv, orderly, m_input_buffer_ # <<>>
             PROVE  AtBoundary(msgs, Head(m_input_buffer_))
  BY DEF HeadAtBoundary, AtBoundary, HoldsCR
<1>1. StreamInv /\ HeadInv
  BY DEF FramingInv
<1>2. m_input_buffer_ \in Seq(AnyByte) /\ Len(m_input_buffer_) \in Nat
      /\ Len(m_input_buffer_) # 0 /\ Head(m_input_buffer_) = m_input_buffer_[1]
  BY <1>1, EmptySeq, LenProperties, HeadTailProperties DEF StreamInv
<1>3. 1 <= Len(m_input_buffer_) /\ Stream[1] = m_input_buffer_[1]
  BY <1>1, <1>2, HeadOfBuffer
<1> QED
  BY <1>1, <1>2, <1>3 DEF HeadInv

LEMMA FramingNoneLost == FramingInv => NoneLost
<1> SUFFICES ASSUME FramingInv, NEW i \in DOMAIN msgs, orderly, Gone(i), ~closed
             PROVE  Settled(i) \/ BehindKeepAlive(i)
  BY DEF NoneLost
<1>1. StreamInv /\ OrderInv
  BY DEF FramingInv
<1>2. i \in 1 .. Len(msgs)
  BY <1>1, LenProperties DEF StreamInv
<1>3. ~\E x \in 1 .. Len(Stream) : Stream[x].msg = i
  BY <1>1, BytesOfStream DEF Gone
<1>4. CASE IsRequest(i)
  BY <1>1, <1>2, <1>3, <1>4 DEF OrderInv
<1>5. CASE ~IsRequest(i)
  BY <1>5 DEF Settled
<1> QED
  BY <1>4, <1>5

LEMMA FramingTransport == FramingInv => TransportSticks
<1> SUFFICES ASSUME FramingInv, orderly, NEW k \in DOMAIN answers,
                    msgs[answers[k].request].kind \in Setups
             PROVE  answers[k].tcp <=>
                       \E j \in 1 .. answers[k].request : msgs[j].kind = "SETUP_TCP"
  BY DEF TransportSticks
<1>1. AnswerInv /\ TransportInv
  BY DEF FramingInv
<1>2. k \in 1 .. Len(answers)
  BY <1>1, LenProperties DEF AnswerInv
<1> QED
  BY <1>1, <1>2 DEF TransportInv

\* Every answer carries the CSeq of the request it answers, answers go out in
\* the order of the requests and one each, and an answer given before all of its
\* request has come is the last one: however TCP cuts and joins the bytes that
\* RtspConnection::HandleReadBytes finds.
THEOREM AnswersMatchAlways == Spec => []AnswersMatch
<1> QED
  BY AlwaysFraming, FramingAnswers, PTL

\* What HandleReadBytes leaves of an orderly client in the buffer begins with a
\* message, except in a packet that holds the end of a line.
THEOREM HeadAtBoundaryAlways == Spec => []HeadAtBoundary
<1> QED
  BY AlwaysFraming, FramingHead, PTL

\* RetrieveUntil never drops a request of an orderly client that has not been
\* answered, unless the connection ends or the request follows a keep-alive.
THEOREM NoneLostAlways == Spec => []NoneLost
<1> QED
  BY AlwaysFraming, FramingNoneLost, PTL

\* ParseTransport gives a SETUP of an orderly client TCP exactly when that SETUP
\* or an earlier one of the connection asked for it.
THEOREM TransportSticksAlways == Spec => []TransportSticks
<1> QED
  BY AlwaysFraming, FramingTransport, PTL
=============================================================================
