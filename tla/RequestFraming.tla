--------------------------- MODULE RequestFraming ---------------------------
(***************************************************************************)
(* What RtspConnection makes of the bytes a client sends:                  *)
(* HandleReadBytes, ParseRequest and HandleRtpOverTcp (rtsp_connection.cpp)*)
(* over the input buffer.  TCP delivers the client's messages cut or       *)
(* joined anywhere; each read handles one message of what it finds.        *)
(*                                                                         *)
(* A byte is the message it belongs to, its place in it, and a symbol: the *)
(* text of a line is one symbol, since a cut inside it has the effect of a *)
(* cut at its end.                                                         *)
(***************************************************************************)
EXTENDS Naturals, Sequences, FiniteSetsExt

CONSTANTS MaxMessages,     \* bound on the messages of a client
          Payloads,        \* contents of interleaved packets, as symbols
          MaxSize          \* bound on a size read from stale memory

\* A payload may hold line ends; it looks neither like a request nor, behind
\* its own header, like a packet.
ASSUME FramingAssumption ==
    /\ MaxMessages \in Nat /\ MaxSize \in Nat
    /\ Payloads \subseteq Seq({"CR", "LF", "data"})

VARIABLES msgs,                \* messages sent so far (history)
          wire,                \* bytes sent and not yet read
          m_input_buffer_,
          m_is_rtp_over_tcp_,
          answers,             \* answers given so far
          handled,             \* what the last read found
          closed,              \* HandleDisconnection was called
          orderly              \* no request was sent before the last one was
                               \* answered, and none was cut by TCP (history)

vars == <<msgs, wire, m_input_buffer_, m_is_rtp_over_tcp_, answers, handled,
          closed, orderly>>

\* PLAIN stands for OPTIONS, TEARDOWN and PAUSE.  DESCRIBE and PLAY, which ask
\* for a header of their own, are refused without it as a SETUP is.
RequestKinds == {"PLAIN", "SETUP_UDP", "SETUP_TCP", "GET_PARAMETER"}
Setups == {"SETUP_UDP", "SETUP_TCP"}
Requests == [kind : RequestKinds, payload : {<<>>}]
Packets == [kind : {"PACKET"}, payload : Payloads]

Answers == [request : 1 .. MaxMessages,   \* whose method was taken
            cseq : 1 .. MaxMessages,      \* whose CSeq was taken
            tcp : BOOLEAN,                \* the transport given to a SETUP
            whole : BOOLEAN]              \* its last byte had been read (history)

TypeOK ==
    /\ msgs \in Seq(Requests \cup Packets)
    /\ Len(msgs) <= MaxMessages
    /\ \A q \in {wire, m_input_buffer_} : \A k \in DOMAIN q : q[k].msg \in DOMAIN msgs
    /\ m_is_rtp_over_tcp_ \in BOOLEAN
    /\ answers \in Seq(Answers)
    /\ handled \in {"nothing", "request", "packet"}
    /\ closed \in BOOLEAN
    /\ orderly \in BOOLEAN

Init ==
    /\ msgs = <<>>
    /\ wire = <<>>
    /\ m_input_buffer_ = <<>>
    /\ m_is_rtp_over_tcp_ = FALSE
    /\ answers = <<>>
    /\ handled = "nothing"
    /\ closed = FALSE
    /\ orderly = TRUE

-----------------------------------------------------------------------------
(* The client *)

CRLF == <<"CR", "LF">>

Text(m) ==
    CASE m.kind = "PACKET" -> <<"$", "channel", "high", "low">> \o m.payload
      [] m.kind \in Setups -> <<"line">> \o CRLF \o <<"CSeq">> \o CRLF
                              \o <<"Transport">> \o CRLF \o CRLF
      [] OTHER -> <<"line">> \o CRLF \o <<"CSeq">> \o CRLF \o CRLF

Bytes(i, m) == [k \in DOMAIN Text(m) |-> [msg |-> i, pos |-> k, symbol |-> Text(m)[k]]]

IsRequest(i) == msgs[i].kind \in RequestKinds
AnsweredFor(i) == \E k \in DOMAIN answers : answers[k].request = i

\* A GET_PARAMETER is never answered, and no client waits for that.
Settled(i) == AnsweredFor(i) \/ ~IsRequest(i) \/ msgs[i].kind = "GET_PARAMETER"

Send(m) ==
    /\ Len(msgs) < MaxMessages
    /\ ~closed
    /\ m \in Packets => \E k \in DOMAIN answers : answers[k].tcp
    /\ msgs' = Append(msgs, m)
    /\ wire' = wire \o Bytes(Len(msgs) + 1, m)
    /\ orderly' = (orderly /\ (m \in Requests => \A i \in DOMAIN msgs : Settled(i)))
    /\ UNCHANGED <<m_input_buffer_, m_is_rtp_over_tcp_, answers, handled, closed>>

-----------------------------------------------------------------------------
(* Buffer::FindCRLF, FindLastCRLF, Peek and RetrieveUntil *)

CRLFs(q) == {k \in 1 .. Len(q) - 1 : q[k].symbol = "CR" /\ q[k + 1].symbol = "LF"}
FindCRLF(q) == Min(CRLFs(q))

FindLastCRLF(q) == Max(CRLFs(q))

Before(q, k) == SubSeq(q, 1, k - 1)
After(q, k) == SubSeq(q, k + 1, Len(q))

\* What the request line leaves, and the text of the headers.
Line(q) == Before(q, FindCRLF(q))
Rest(q) == After(q, FindCRLF(q) + 1)
Headers(q) == Before(Rest(q), FindLastCRLF(Rest(q)))

Symbols(q) == {q[k].symbol : k \in DOMAIN q}

\* The first byte of q that carries the symbol: std::string::find.
FirstOf(q, s) == q[Min({k \in DOMAIN q : q[k].symbol = s})]

-----------------------------------------------------------------------------
(* RtspConnection::HandleReadBytes.  `q' is the input buffer after the read. *)

\* ParseRequest1: the line holds a request line and nothing else but blanks.
ParseRequest1(line) ==
    \E i \in DOMAIN line :
        /\ line[i].symbol = "line"
        /\ \A k \in DOMAIN line \ {i} : line[k].symbol \in {"CR", "LF"}

AsksTcp(headers) ==
    \E k \in DOMAIN headers : /\ headers[k].symbol = "Transport"
                              /\ msgs[headers[k].msg].kind = "SETUP_TCP"

\* Mutant of ParseTransport: "RTP/AVP" taken for "RTP/AVP/TCP".
ParseTransportLoose(headers) == m_is_rtp_over_tcp_' = TRUE

\* The text is searched as a whole, so a Transport of a second request in it
\* counts as well; the flag is never cleared.
ParseTransport(headers) ==
    m_is_rtp_over_tcp_' = (m_is_rtp_over_tcp_ \/ AsksTcp(headers))

\* Mutant of ParseCSeq: the last one of the text.
ParseLastCSeq(headers) ==
    headers[Max({k \in DOMAIN headers : headers[k].symbol = "CSeq"})].msg

ParseCSeq(headers) == FirstOf(headers, "CSeq").msg

\* ParseRequest2, with the headers each method asks for.
ParseRequest2(kind, headers) ==
    /\ "CSeq" \in Symbols(headers)
    /\ kind \in Setups => "Transport" \in Symbols(headers)

Parses(q) ==
    /\ CRLFs(q) # {}
    /\ ParseRequest1(Line(q))
    /\ CRLFs(Rest(q)) # {}
    /\ ParseRequest2(msgs[FirstOf(Line(q), "line").msg].kind, Headers(q))

\* HandleCmd...: the answer is formatted from m_method_, m_cseq_ and the flag.
Answer(q, i) ==
    answers' = Append(answers,
        [request |-> i, cseq |-> ParseCSeq(Headers(q)),
         tcp |-> msgs[i].kind \in Setups /\ m_is_rtp_over_tcp_',
         whole |-> \E k \in DOMAIN q : q[k].msg = i /\ q[k].pos = Len(Text(msgs[i]))])

\* A request is taken out of the buffer together with all that lies before the
\* last CRLF.  Its handler may refuse it, or its answer fail to be sent;
\* HandleCmdGetParamter does nothing and never fails.
HandleRequest(q) ==
    LET i == FirstOf(Line(q), "line").msg
    IN /\ m_input_buffer_' = After(Rest(q), FindLastCRLF(Rest(q)) + 1)
       /\ handled' = "request"
       /\ IF msgs[i].kind \in Setups
          THEN ParseTransport(Headers(q))
          ELSE UNCHANGED m_is_rtp_over_tcp_
       /\ \/ /\ IF msgs[i].kind = "GET_PARAMETER" THEN UNCHANGED answers ELSE Answer(q, i)
             /\ UNCHANGED closed
          \/ /\ msgs[i].kind # "GET_PARAMETER"
             /\ closed' = TRUE
             /\ UNCHANGED answers

RefuseRequest ==
    /\ m_input_buffer_' = <<>>
    /\ closed' = TRUE
    /\ UNCHANGED <<m_is_rtp_over_tcp_, answers, handled>>

\* The size field, or what memory holds there before four bytes have come.
PacketSizes(q) ==
    IF Len(q) < 4 THEN 0 .. MaxSize ELSE {Len(msgs[Head(q).msg].payload)}

\* Mutants of HandleRtpOverTcp: the whole buffer taken for the packet; a packet
\* taken without its header; and a packet never taken out of the buffer.
HandleRtpOverTcpAll(q) ==
    /\ \E size \in PacketSizes(q) :
          IF Len(q) < size + 4
          THEN m_input_buffer_' = q /\ handled' = "nothing"
          ELSE m_input_buffer_' = <<>> /\ handled' = "packet"
    /\ UNCHANGED <<m_is_rtp_over_tcp_, answers, closed>>

HandleRtpOverTcpBody(q) ==
    /\ \E size \in PacketSizes(q) :
          IF Len(q) < size + 4
          THEN m_input_buffer_' = q /\ handled' = "nothing"
          ELSE m_input_buffer_' = After(q, size) /\ handled' = "packet"
    /\ UNCHANGED <<m_is_rtp_over_tcp_, answers, closed>>

HandleRtpOverTcpKeeps(q) ==
    /\ m_input_buffer_' = q
    /\ handled' = "nothing"
    /\ UNCHANGED <<m_is_rtp_over_tcp_, answers, closed>>

HandleRtpOverTcp(q) ==
    /\ \E size \in PacketSizes(q) :
          IF Len(q) < size + 4
          THEN m_input_buffer_' = q /\ handled' = "nothing"
          ELSE m_input_buffer_' = After(q, size + 4) /\ handled' = "packet"
    /\ UNCHANGED <<m_is_rtp_over_tcp_, answers, closed>>

\* TCP may cut anywhere: between messages, or inside a packet or a request.
CutsRequest(n) ==
    n < Len(wire) /\ wire[n + 1].pos # 1 /\ IsRequest(wire[n + 1].msg)

\* TcpConnection::HandleRead, which the loop calls only when bytes have come.
HandleReadBytes(n) ==
    LET q == m_input_buffer_ \o SubSeq(wire, 1, n)
    IN /\ ~closed
       /\ orderly' = (orderly /\ ~CutsRequest(n))
       /\ wire' = After(wire, n)
       /\ UNCHANGED msgs
       /\ IF m_is_rtp_over_tcp_ /\ Head(q).symbol = "$"
          THEN HandleRtpOverTcp(q)
          ELSE IF Parses(q) THEN HandleRequest(q) ELSE RefuseRequest

Read == \E n \in 1 .. Len(wire) : HandleReadBytes(n)

Next ==
    \/ \E m \in Requests \cup Packets : Send(m)
    \/ Read

Spec == Init /\ [][Next]_vars

\* The loop keeps running, and the descriptor stays readable until it is read.
FairSpec == Spec /\ WF_vars(Read)

-----------------------------------------------------------------------------
(* Properties *)

Complete(i) == \E k \in DOMAIN m_input_buffer_ :
    /\ m_input_buffer_[k].msg = i
    /\ m_input_buffer_[k].pos = Len(Text(msgs[i]))

Gone(i) == \A q \in {wire, m_input_buffer_} : \A k \in DOMAIN q : q[k].msg # i

\* However requests are cut, joined and mixed with packets, the method and the
\* CSeq of an answer come from the same request, and answers go out in the
\* order of the requests, at most one for each.  A request can be answered
\* before all of it has come, when TCP cuts it after a whole header line; what
\* comes later is then taken for a new request and refused, so that such an
\* answer is the last one.
AnswersMatch ==
    /\ TypeOK
    /\ \A k \in DOMAIN answers : answers[k].cseq = answers[k].request
    /\ \A k, l \in DOMAIN answers : k < l => answers[k].request < answers[l].request
    /\ \A k \in DOMAIN answers : k < Len(answers) => answers[k].whole

\* With an orderly client the buffer starts at the first byte of a message
\* between reads, whatever the stale bytes behind a short packet header are;
\* except inside a packet that holds a CRLF and came together with a request.
HeadAtBoundary ==
    orderly /\ m_input_buffer_ # <<>> =>
        \/ Head(m_input_buffer_).pos = 1
        \/ "CR" \in {msgs[Head(m_input_buffer_).msg].payload[k] :
                        k \in DOMAIN msgs[Head(m_input_buffer_).msg].payload}

\* The request before i is a GET_PARAMETER: nothing tells the client when it
\* may go on, and one read may take both for a single request.
BehindKeepAlive(i) ==
    \E j \in 1 .. i - 1 : /\ msgs[j].kind = "GET_PARAMETER"
                          /\ \A k \in j + 1 .. i - 1 : ~IsRequest(k)

\* An orderly client loses nothing, except behind a GET_PARAMETER: a request
\* that has left the buffer was answered, or the connection ends.
NoneLost == \A i \in DOMAIN msgs :
    orderly /\ Gone(i) => Settled(i) \/ closed \/ BehindKeepAlive(i)

\* A SETUP of an orderly client is answered with the transport it asks for
\* unless an earlier one on the connection asked for TCP: m_is_rtp_over_tcp_ is
\* never cleared.
TransportSticks ==
    orderly => \A k \in DOMAIN answers :
        LET i == answers[k].request
        IN msgs[i].kind \in Setups =>
              (answers[k].tcp <=> \E j \in 1 .. i : msgs[j].kind = "SETUP_TCP")

\* An orderly client gets its answer, unless the connection ends, the request
\* follows a GET_PARAMETER, or it came in one read with a packet, which is all
\* that read handles, and no other message ever follows.
AnsweredUnlessBehindPacket ==
    \A i \in 1 .. MaxMessages :
        i \in DOMAIN msgs ~>
            \/ ~orderly
            \/ i \in DOMAIN msgs /\ (Settled(i) \/ closed \/ BehindKeepAlive(i))
            \/ i \in DOMAIN msgs /\ Complete(i) /\ handled = "packet"
=============================================================================
