---------------------------- MODULE RtpDelivery ----------------------------
(***************************************************************************)
(* MediaSession::SendPacket and RtpInstance::Send: every packet of a sink  *)
(* goes to the instances that are alive.  Over TCP it shares the client's  *)
(* socket, which is non-blocking, with the answers of RtspConnection       *)
(* (SendMessage); a write may take only a part, and nobody sends the rest. *)
(*                                                                         *)
(* All of it runs in the event loop, so a frame is sent without a request  *)
(* being handled in between.                                               *)
(***************************************************************************)
EXTENDS RtpSink, FiniteSets

CONSTANTS Clients, TcpClients,
          MaxAnswers,          \* bound on the answers to requests other than PLAY
          MaxShort             \* bound on the writes that do not take all

ASSUME DeliveryAssumption ==
    TcpClients \subseteq Clients /\ {MaxAnswers, MaxShort} \subseteq Nat

VARIABLES m_is_alive_,         \* of the client's instance
          played,              \* clients whose PLAY was handled
          stream,              \* bytes written to a TCP client's socket
          datagrams,           \* packets sent to a UDP client
          answers,             \* to requests other than PLAY
          shorts,              \* writes that did not take all
          torn                 \* clients one of whose writes took a part

deliveryVars == <<m_is_alive_, played, stream, datagrams, answers, shorts, torn>>
vars == <<sinkVars, deliveryVars>>

Init ==
    /\ SinkInit
    /\ m_is_alive_ = [c \in Clients |-> FALSE]
    /\ played = {}
    /\ stream = [c \in Clients |-> <<>>]
    /\ datagrams = [c \in Clients |-> <<>>]
    /\ answers = 0
    /\ shorts = 0
    /\ torn = {}

-----------------------------------------------------------------------------

\* Bytes as symbols.  The channel stands for the client it was given to.
DollarSign(c) == [symbol |-> "$", of |-> c]
Size(n) == [symbol |-> "size", of |-> n]
Data(n) == [k \in 1 .. n |-> [symbol |-> "data", of |-> k]]
Answer == <<[symbol |-> "answer", of |-> 1], [symbol |-> "answer", of |-> 2]>>

\* Mutant of Interleaved: the header's size without the RTP header.
InterleavedPayload(c, p) ==
    <<DollarSign(c), Size(p.size - RTP_HEADER_SIZE)>> \o Data(p.size)

Interleaved(c, p) == <<DollarSign(c), Size(p.size)>> \o Data(p.size)

\* Sockets::Write: how much of it each client's socket takes.
Writes(clients, text) ==
    LET taken == [clients -> 0 .. 2 + RTP_HEADER_SIZE + RTP_MAX_PKT_SIZE + Slack]
    IN {t \in taken : \A c \in clients : t[c] <= Len(text[c])}

Written(clients, text) ==
    \E t \in Writes(clients, text) :
        /\ stream' = [c \in Clients |->
              IF c \in clients THEN stream[c] \o SubSeq(text[c], 1, t[c]) ELSE stream[c]]
        /\ shorts' = shorts + Cardinality({c \in clients : t[c] < Len(text[c])})
        /\ shorts' <= MaxShort
        /\ torn' = torn \cup {c \in clients : t[c] \in 1 .. Len(text[c]) - 1}

SendPacket(p) ==
    LET alive == {c \in Clients : m_is_alive_[c]}
        tcp == alive \cap TcpClients
    IN /\ Written(tcp, [c \in tcp |-> Interleaved(c, p)])
       /\ datagrams' = [c \in Clients |->
             IF c \in alive \ TcpClients THEN Append(datagrams[c], p) ELSE datagrams[c]]

\* A step of a sink, each packet of which goes through SendPacketCallback.
SinkStep ==
    /\ SinkNext
    /\ IF sent' = sent
       THEN UNCHANGED deliveryVars
       ELSE SendPacket(sent'[Len(sent')]) /\ UNCHANGED <<m_is_alive_, played, answers>>

\* HandleCmdPlay: the answer is sent before the instances are started.  (If
\* nothing at all could be written the connection ends instead.)
HandleCmdPlay(c) ==
    /\ ~sending
    /\ c \notin played
    /\ Written({c} \cap TcpClients, [d \in {c} |-> Answer])
    /\ played' = played \cup {c}
    /\ m_is_alive_' = [m_is_alive_ EXCEPT
          ![c] = c \notin TcpClients \/ stream'[c] # stream[c]]
    /\ UNCHANGED <<sinkVars, datagrams, answers>>

\* The other requests, before PLAY and while packets flow, whose answers do
\* nothing but share the socket: between any two packets that are not fragments
\* of one frame.
HandleCmdOption(c) ==
    /\ ~sending
    /\ c \in TcpClients
    /\ answers < MaxAnswers
    /\ answers' = answers + 1
    /\ Written({c}, [d \in {c} |-> Answer])
    /\ UNCHANGED <<sinkVars, m_is_alive_, played, datagrams>>

Next ==
    \/ SinkStep
    \/ \E c \in Clients : HandleCmdPlay(c) \/ HandleCmdOption(c)

Spec == Init /\ [][Next]_vars

-----------------------------------------------------------------------------
(* Properties *)

\* What begins at place k of a stream ends there: an answer after its second
\* half, a packet where its header's size says.
PieceEnd(s, k) ==
    IF s[k].symbol = "answer"
    THEN k + 1
    ELSE IF k < Len(s) /\ s[k + 1].symbol = "size" THEN k + 1 + s[k + 1].of
    ELSE Len(s) + 1

\* An answer, or a packet on the client's own channel, all of it there.
WholePiece(c, s, k) ==
    /\ PieceEnd(s, k) <= Len(s)
    /\ IF s[k].symbol = "answer"
       THEN s[k].of = 1 /\ s[k + 1] = Answer[2]
       ELSE /\ s[k] = DollarSign(c)
            /\ \A j \in k + 2 .. PieceEnd(s, k) : s[j].symbol = "data"

\* What a client makes of its stream: answers and packets, one after another.
Parses(c) ==
    LET s == stream[c]
        ok[k \in 1 .. Len(s) + 1] ==
            k <= Len(s) => WholePiece(c, s, k) /\ ok[PieceEnd(s, k) + 1]
    IN ok[1]

\* Answers and interleaved packets of several clients keep each client's stream
\* readable until a write takes a part of one; from then on it is lost for
\* good.  Before its PLAY is answered a client gets answers, but no packet.
StreamFramed ==
    /\ \A c \in TcpClients : Parses(c) <=> c \notin torn
    /\ \A c \in TcpClients \ played : \A k \in DOMAIN stream[c] :
          stream[c][k].symbol = "answer"
    /\ \A c \in Clients \ played : datagrams[c] = <<>>
=============================================================================
