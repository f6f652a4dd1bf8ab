--------------------------- MODULE TcpMockProofs -----------------------------
(***************************************************************************)
(* Theorems about TcpMock, the closed system of the emulation build, for   *)
(* every word size, every depth of the FIFOs and any number of rounds of   *)
(* the mock.                                                               *)
(***************************************************************************)
EXTENDS TcpMock, HealthCheckProofs

(***************************************************************************)
(* The inductive invariant: the types ...                                  *)
(***************************************************************************)

\* A word written to the aligner has a place in its part.
PlacedWord == {w \in Tx!Word : w.pos > 0}
PlacedOK ==
  /\ http_response_headers \in Seq(PlacedWord)
  /\ http_response_body \in Seq(PlacedWord)
  /\ tx_aligner \in Seq(PlacedWord)
StatusOK ==
  /\ resp_status_code \in Seq({"OK_200"}) /\ resp_status_line \in Seq({Tx!StatusLine("OK_200")})
  /\ tx_sc \in [state : {"IDLE", "READ_INPUT", "WRITE_OUTPUT"}, status_code : {"OK_200", Unset}]
  /\ tx_sc.state = "WRITE_OUTPUT" => tx_sc.status_code = "OK_200"
  /\ tx_sm.state # "IDLE" => tx_sm.app_response \in Tx!Response
AlignerOK ==
  /\ al \in [state : {"IDLE", "PULL_FIRST", "PULL_N", "RESIDUE"},
             prevLength : 0 .. WordBytes, prevWord : Al!Word]
  /\ IsFifo(tcp_tx_data, Al!Word, PortDepth)
MockOK ==
  /\ rx_mock \in {"IDLE", "NOTIFICATION", "META", "META_HANDSHAKE", "DATA_HEADLINE",
                  "DATA_PAYLOAD", "DATA_PAYLOAD2"}
  /\ tx_mock \in {"IDLE", "HANDSHAKE", "CONSUME_DATA"}
  /\ received \in Seq(Nat)
ListenOK == IsFifo(tcp_listen_req, {80}, PortDepth) /\ IsFifo(tcp_listen_rsp, {TRUE}, PortDepth)

MockInv ==
  /\ TypeInv /\ rx_left = 0
  /\ ServerFifosOK /\ ConsumeOK /\ ProduceOK /\ TxOK
  /\ PlacedOK /\ StatusOK /\ AlignerOK /\ MockOK /\ ListenOK

(***************************************************************************)
(* ... the exchange of rx_mock and state_machine: what is under way of the *)
(* round they are in ...                                                   *)
(***************************************************************************)

One(condition) == IF condition THEN 1 ELSE 0

\* The transfer is served and state_machine has not drawn a word of it.
Awaiting == sm.state = "DATA_HEADLINE" \/ (sm.state = "HANDSHAKE" /\ Len(tcp_rx_rsp) > 0)

\* Words of the last transfer that rx_mock has written, that state_machine has drawn.
Delivered ==
  3 - 3 * One(rx_mock = "DATA_HEADLINE") - 2 * One(rx_mock = "DATA_PAYLOAD")
    - One(rx_mock = "DATA_PAYLOAD2")
Drawn == Delivered - Len(tcp_rx_data)

ExchangeCounted ==
  /\ Len(tcp_notification) + Len(tcp_rx_req) + One(rx_mock = "META_HANDSHAKE") + Len(served)
       = Len(notified)
  /\ Len(notified) = Len(served) + One(rx_mock \in {"META", "META_HANDSHAKE"})
  /\ Len(tcp_rx_req) + One(rx_mock = "META_HANDSHAKE") + Len(tcp_rx_rsp)
       = One(sm.state = "HANDSHAKE")
  /\ sm.state = "NOTIFICATION" => Len(tcp_notification) > 0
  /\ Awaiting => Drawn = 0
  /\ sm.state = "DATA_PAYLOAD" => Drawn \in {1, 2}
  /\ ~Awaiting /\ sm.state # "DATA_PAYLOAD" => Drawn = 3
MockNotifications == \A i \in 1 .. Len(tcp_notification) : tcp_notification[i].length = MockLength
LastInFlight == \A i \in 1 .. Len(tcp_rx_data) : tcp_rx_data[i].last <=> Drawn + i = 3
Exchange == ExchangeCounted /\ MockNotifications /\ LastInFlight

(***************************************************************************)
(* ... the headlines and the payload of the rounds, counted along the      *)
(* request path ...                                                        *)
(***************************************************************************)

HeadlineParsed == One(hp.state # "INPUT_READ")
Unserved       == One(Awaiting)
HeadlinesBefore == Len(headline_in) + HeadlineParsed
Requested       == Len(app.requests)
HeadlinesAfter  == Len(headline_out) + Len(http_request) + Requested
Headlines       == HeadlinesBefore + HeadlinesAfter = Len(served) - Unserved

\* Every transfer has two words of payload; the first is the headers.
PayloadDue ==
  IF Awaiting THEN 2 ELSE IF sm.state = "DATA_PAYLOAD" THEN 3 - Drawn ELSE 0
PayloadIssued   == 2 * Len(served) - PayloadDue
PayloadRead     == PayloadIssued - Len(payload_in)
HeadersConsumed == Len(app.headers)
BodyConsumed    == Len(app.body)
HeadersOffered  == Len(http_request_headers) + HeadersConsumed
BodyOffered     == Len(http_request_body) + BodyConsumed

\* The n-th word of payload ends its transfer if it is the second of it.
EndsTransfer(n) == \E k \in Int : n = 2 * k
PayloadWords == \A i \in 1 .. Len(payload_in) : payload_in[i].last <=> EndsTransfer(PayloadRead + i)
Payload ==
  /\ PayloadWords
  /\ pp.state = "HEADER_READ" => PayloadRead = 2 * HeadersOffered /\ BodyOffered = HeadersOffered
  /\ pp.state = "HEADER_WRITE" =>
       /\ PayloadRead = 2 * HeadersOffered + 1 /\ BodyOffered = HeadersOffered
       /\ ~pp.line.last
  /\ pp.state = "BODY_READ" =>
       PayloadRead = 2 * HeadersOffered - 1 /\ BodyOffered = HeadersOffered - 1
  /\ pp.state = "BODY_WRITE" =>
       /\ PayloadRead = 2 * HeadersOffered /\ BodyOffered = HeadersOffered - 1
       /\ pp.line.last

\* consume_request takes the headers and the body of a request in either order,
\* but never those of two requests.
HeadersEnded == One(consume.headers)
BodyEnded    == One(consume.body)
Consumption ==
  /\ HeadersConsumed + BodyEnded = BodyConsumed + HeadersEnded
  /\ \A i \in 1 .. Len(http_request_headers) : http_request_headers[i].last
  /\ \A i \in 1 .. Len(http_request_body) : http_request_body[i].last

(***************************************************************************)
(* ... the answers, asked for one at a time ...                            *)
(***************************************************************************)

Asked ==
  /\ answering >= 0
  /\ tx_sm.state # "IDLE" => answering > 0
  /\ tx_mock # "IDLE" => settled # <<>>
  /\ tx_sm.state \notin {"FLUSH_HEADLINE", "FLUSH_HEADERS", "FLUSH_BODY"}
  /\ tx_sm.state = "TCP_REQ" =>
       /\ tcp_tx_req = <<>> /\ tcp_tx_rsp = <<>> /\ tx_mock # "HANDSHAKE"
       /\ Len(settled) = answering - 1
  /\ tx_sm.state = "TCP_RSP" =>
       \/ /\ Len(tcp_tx_req) = 1 /\ tcp_tx_rsp = <<>> /\ tx_mock # "HANDSHAKE"
          /\ Len(settled) = answering - 1
       \/ /\ tcp_tx_req = <<>> /\ tcp_tx_rsp = <<>> /\ tx_mock = "HANDSHAKE"
          /\ Len(settled) = answering
       \/ /\ tcp_tx_req = <<>> /\ Len(tcp_tx_rsp) = 1 /\ tcp_tx_rsp[1].error = 0
          /\ tx_mock = "CONSUME_DATA" /\ Len(settled) = answering
  /\ tx_sm.state \notin {"TCP_REQ", "TCP_RSP"} =>
       /\ tcp_tx_req = <<>> /\ tcp_tx_rsp = <<>> /\ Len(settled) = answering
       /\ tx_mock # "HANDSHAKE" /\ (tx_sm.state # "IDLE" => tx_mock = "CONSUME_DATA")

\* One status line is under way from the answer being read to its being sent.
StatusUnderWay ==
  /\ Len(resp_status_code) + One(tx_sc.state = "WRITE_OUTPUT") + Len(resp_status_line)
       = One(tx_sm.state \in {"TCP_REQ", "TCP_RSP", "DATA_HTTP_STATUS"})
  /\ tx_sc.state = "READ_INPUT" => resp_status_code # <<>>

(***************************************************************************)
(* ... the words of the answers, which produce_response writes without     *)
(* looking at the requests ...                                             *)
(***************************************************************************)

HeadersTaken == 2 * (produce.rsp - 1) + (produce.word - 1) - Len(http_response_headers)
BodyTaken    == (produce.rsp - 1) - Len(http_response_body)

\* The n-th word of headers in all, and any word of body.
HeadersPiece(w, n) ==
  w.part = "headers" /\ HeadersWordOK(w) /\ \E k \in Nat : n = 2 * k + w.pos
BodyPiece(w) == w.part = "body" /\ w.pos = 1 /\ BodyWordOK(w)

WordsWritten ==
  /\ \A i \in 1 .. Len(http_response_headers) :
       HeadersPiece(http_response_headers[i], HeadersTaken + i)
  /\ \A i \in 1 .. Len(http_response_body) : BodyPiece(http_response_body[i])
  /\ BodyTaken = IF tx_sm.state = "IDLE" THEN answering ELSE answering - 1
  /\ tx_sm.state \in {"IDLE", "DATA_CRLF", "DATA_BODY"} => HeadersTaken = 2 * answering
  /\ tx_sm.state \in {"TCP_REQ", "TCP_RSP", "DATA_HTTP_STATUS"} => HeadersTaken = 2 * answering - 2
  /\ tx_sm.state = "DATA_HEADERS" => HeadersTaken \in {2 * answering - 2, 2 * answering - 1}

(***************************************************************************)
(* ... and the answer on its way through the aligner: four words in, two   *)
(* out.                                                                    *)
(***************************************************************************)

AnswerBytes == headers_size + 2 + body_size

\* The sizes of the application: the second word holds what is left of the
\* headers, the CR LF and the body, and the length announced is not cut.
SizesFit == AnswerBytes <= 2 * WordBytes /\ AnswerBytes < LengthValues

\* The k-th word of an answer, as it is written to the aligner.
Piece(w, k) ==
  \/ k = 1 /\ w.part = "headers" /\ w.pos = 1 /\ w.bytes = WordBytes /\ ~w.last
  \/ k = 2 /\ w.part = "headers" /\ w.pos = 2 /\ w.bytes = headers_size - WordBytes /\ ~w.last
  \/ k = 3 /\ w.part = "crlf" /\ w.bytes = 2 /\ ~w.last
  \/ k = 4 /\ w.part = "body" /\ w.pos = 1 /\ w.bytes = body_size /\ w.last

\* A word of lanes with these n bytes of the answer.
Holds(word, first, n) ==
  /\ word.keep = Al!Contiguous(n)
  /\ \A i \in 0 .. n - 1 : word.data[i].pos = first + i
\* The two words of an answer that leave the aligner.
Packed(word, k) ==
  \/ k = 1 /\ Holds(word, 0, WordBytes) /\ ~word.last
  \/ k = 2 /\ Holds(word, WordBytes, AnswerBytes - WordBytes) /\ word.last

\* Words of the answer written to the aligner, read and sent by it, taken by tx_mock.
Accepted == tx_sm.state = "DATA_HTTP_STATUS" \/ (tx_sm.state = "TCP_RSP" /\ tcp_tx_rsp # <<>>)
Sent ==
  IF tx_sm.state = "DATA_HEADERS"
  THEN HeadersTaken - (2 * answering - 2)
  ELSE 4 - 4 * One(Accepted) - 2 * One(tx_sm.state = "DATA_CRLF") - One(tx_sm.state = "DATA_BODY")
Read == Sent - Len(tx_aligner)
PackedOut == One(Read > 1 \/ (Read = 1 /\ al.state # "RESIDUE")) + One(Read > 3)
Taken == PackedOut - Len(tcp_tx_data)

BytesFrom0(n) == [i \in 1 .. n |-> i - 1]

Aligning ==
  /\ Read = 0 => al.state \in {"IDLE", "PULL_FIRST"}
  /\ Read = 1 => /\ al.state \in {"IDLE", "PULL_FIRST", "RESIDUE"}
                 /\ al.state = "RESIDUE" => Packed(al.prevWord, 1)
  /\ Read = 2 => /\ al.state = "PULL_N" /\ al.prevLength = headers_size - WordBytes
                 /\ Holds(al.prevWord, WordBytes, al.prevLength)
  /\ Read = 3 => /\ al.state = "PULL_N" /\ al.prevLength = headers_size - WordBytes + 2
                 /\ Holds(al.prevWord, WordBytes, al.prevLength)
  /\ Read = 4 => al.state = "IDLE"

Quiet == tx_aligner = <<>> /\ tcp_tx_data = <<>> /\ al.state = "IDLE"

Pieces == \A i \in 1 .. Len(tx_aligner) : Piece(tx_aligner[i], Read + i)
Packs  == \A i \in 1 .. Len(tcp_tx_data) : Packed(tcp_tx_data[i], Taken + i)
InFlight ==
  /\ Read \in 0 .. 4 /\ Taken \in {0, 1}
  /\ Pieces /\ Aligning /\ Packs
  /\ received = BytesFrom0(IF Taken = 0 THEN 0 ELSE WordBytes)

AnswerUnderWay ==
  /\ tx_mock = "IDLE" =>
       Quiet /\ received = BytesFrom0(IF settled = <<>> THEN 0 ELSE AnswerBytes)
  /\ tx_mock = "HANDSHAKE" => Quiet /\ received = <<>>
  /\ tx_mock = "CONSUME_DATA" => InFlight

RoundInv ==
  /\ Exchange /\ Headlines /\ Payload /\ Consumption
  /\ SizesMade /\ Asked /\ StatusUnderWay /\ WordsWritten /\ AnswerUnderWay

-----------------------------------------------------------------------------
(***************************************************************************)
(* The processes of the system, and what each leaves alone                 *)
(***************************************************************************)

\* A step is one of these.
LEMMA StepCases ==
  ASSUME [MockNext]_systemVars
  PROVE  \/ HttpStep(RxStateMachine) \/ HttpStep(RxHeadlineParser) \/ HttpStep(RxRequestIssuer)
         \/ HttpStep(RxPayloadParser) \/ HttpStep(TxStateMachine) \/ HttpStep(TxStatusCodeParser)
         \/ HttpStep(ProcessNotify) \/ HttpStep(ConsumeRequest) \/ HttpStep(ProduceResponse)
         \/ AlignerStep \/ RxMock \/ TxMock \/ Listen
         \/ UNCHANGED systemVars
BY DEF MockNext, Path, HttpStep, HttpTop, Application

\* The variables, by what uses them.
exchangeVars == <<tcp_notification, tcp_rx_req, tcp_rx_rsp, tcp_rx_data, sm, rx_mock, notified, served>>
headlineVars == <<headline_in, hp, headline_out, http_request, app.requests, served, sm, tcp_rx_rsp>>
payloadVars  == <<payload_in, pp, http_request_headers, http_request_body, app.headers, app.body,
                  served, sm, tcp_rx_rsp, tcp_rx_data, rx_mock>>
consumeVars  == <<http_request_headers, http_request_body, app.headers, app.body, consume>>
askedVars    == <<http_response, app.requests, tx_sm, tcp_tx_req, tcp_tx_rsp, settled, tx_mock>>
statusVars   == <<resp_status_code, resp_status_line, tx_sc, tx_sm>>
wordsVars    == <<http_response_headers, http_response_body, produce, tx_sm, http_response, app.requests>>
answerVars   == <<tx_aligner, al, tcp_tx_data, tx_mock, received, tx_sm, tcp_tx_rsp, settled,
                  http_response_headers, produce, http_response, app.requests>>

\* state_machine of the request path.
LEMMA RxStateMachineLeaves ==
  ASSUME HttpStep(RxStateMachine)
  PROVE  /\ UNCHANGED <<consumeVars, askedVars, statusVars, wordsVars, answerVars>>
         /\ UNCHANGED <<hp, headline_out, http_request, pp, app, notified, served, rx_mock, rx_left>>
BY DEF HttpStep, RxStateMachine, RxStep, StateMachine, SmIdle, SmNotificationData,
       SmNotificationEmpty, SmHandshake, SmDataHeadline, SmDataPayload, tcpFifos, inFifos, appFifos,
       tcpStack, txVars, mockVars, rxMockVars, txMockVars, alVars,
       consumeVars, askedVars, statusVars, wordsVars, answerVars

\* headline_parser and request_issuer.
LEMMA HeadlineLeaves ==
  ASSUME HttpStep(RxHeadlineParser) \/ HttpStep(RxRequestIssuer)
  PROVE  /\ UNCHANGED <<exchangeVars, payloadVars, consumeVars, askedVars, statusVars, wordsVars, answerVars>>
         /\ UNCHANGED <<app, served, sm, tcp_rx_rsp, rx_left>>
BY DEF HttpStep, RxHeadlineParser, RxRequestIssuer, RxStep, HeadlineParser, HpInputRead,
       HpParseMethod, HpExtractEndpoint, HpOutputWrite, RequestIssuer, tcpFifos, inFifos, appFifos,
       tcpStack, txVars, mockVars, rxMockVars, txMockVars, alVars,
       exchangeVars, payloadVars, consumeVars, askedVars, statusVars, wordsVars, answerVars

\* req_payload_parser.
LEMMA RxPayloadParserLeaves ==
  ASSUME HttpStep(RxPayloadParser)
  PROVE  /\ UNCHANGED <<exchangeVars, headlineVars, askedVars, statusVars, wordsVars, answerVars>>
         /\ UNCHANGED <<app, consume, served, sm, tcp_rx_rsp, tcp_rx_data, rx_mock, rx_left>>
BY DEF HttpStep, RxPayloadParser, RxStep, PayloadParser, PpHeaderRead, PpHeaderWrite, PpBodyRead,
       PpBodyWrite, tcpFifos, inFifos, appFifos,
       tcpStack, txVars, mockVars, rxMockVars, txMockVars, alVars,
       exchangeVars, headlineVars, askedVars, statusVars, wordsVars, answerVars

\* state_machine of the response path.
LEMMA TxStateMachineLeaves ==
  ASSUME HttpStep(TxStateMachine)
  PROVE  /\ UNCHANGED <<exchangeVars, headlineVars, payloadVars, consumeVars>>
         /\ UNCHANGED <<tx_sc, settled, tx_mock, received, produce, app, al, tcp_tx_data, rx_left>>
BY DEF HttpStep, TxStateMachine, TxStep, Tx!StateMachine, Tx!SmIdle, Tx!SmTcpReq, Tx!SmTcpRsp,
       Tx!SmDataHttpStatus, Tx!SmDataHeaders, Tx!SmDataCrlf, Tx!SmDataBody, Tx!SmFlushHeadline,
       Tx!SmFlushHeaders, Tx!SmFlushBody, Tx!outside, rxVars, vars, tcpFifos, inFifos, appFifos,
       tcpStack, mockVars, rxMockVars, txMockVars, alVars,
       exchangeVars, headlineVars, payloadVars, consumeVars

\* status_code_parser.
LEMMA TxStatusCodeParserLeaves ==
  ASSUME HttpStep(TxStatusCodeParser)
  PROVE  /\ UNCHANGED <<exchangeVars, headlineVars, payloadVars, consumeVars, askedVars, wordsVars,
                        answerVars>>
         /\ UNCHANGED <<tx_sm, rx_left>>
BY DEF HttpStep, TxStatusCodeParser, TxStep, Tx!StatusCodeParser, Tx!ScIdle, Tx!ScReadInput,
       Tx!ScWriteOutput, Tx!outside, Tx!appFifos, Tx!tcpFifos, Tx!innerFifos, rxVars, vars, tcpFifos,
       inFifos, appFifos, tcpStack, mockVars, rxMockVars, txMockVars, alVars,
       exchangeVars, headlineVars, payloadVars, consumeVars, askedVars, wordsVars, answerVars

\* process_notify.
LEMMA ProcessNotifyLeaves ==
  ASSUME HttpStep(ProcessNotify)
  PROVE  /\ UNCHANGED <<exchangeVars, statusVars, consume, produce, rx_left>>
         /\ UNCHANGED <<headline_in, hp, headline_out, payload_in, pp, http_request_headers, http_request_body>>
         /\ UNCHANGED <<tx_sm, tcp_tx_req, tcp_tx_rsp, settled, tx_mock, received, tx_aligner, al,
                        tcp_tx_data, http_response_headers, http_response_body>>
BY DEF HttpStep, ProcessNotify, AppRequest, tcpFifos, inFifos, tcpStack, mockVars, rxMockVars,
       txMockVars, alVars, exchangeVars, statusVars

\* produce_response.
LEMMA ProduceResponseLeaves ==
  ASSUME HttpStep(ProduceResponse)
  PROVE  /\ UNCHANGED <<exchangeVars, headlineVars, payloadVars, consumeVars, askedVars, statusVars>>
         /\ UNCHANGED <<tx_aligner, al, tcp_tx_data, received, rx_left>>
BY DEF HttpStep, ProduceResponse, ProduceHeaders, ProduceBody, rxVars, vars, tcpFifos, inFifos,
       appFifos, tcpStack, mockVars, rxMockVars, txMockVars, alVars,
       exchangeVars, headlineVars, payloadVars, consumeVars, askedVars, statusVars

\* response_aligner.
LEMMA AlignerLeaves ==
  ASSUME AlignerStep
  PROVE  /\ UNCHANGED <<exchangeVars, headlineVars, payloadVars, consumeVars, askedVars, statusVars, wordsVars>>
         /\ UNCHANGED <<received, rx_left>>
BY DEF AlignerStep, rxVars, vars, tcpFifos, inFifos, appFifos, tcpStack, rxMockVars, txMockVars,
       exchangeVars, headlineVars, payloadVars, consumeVars, askedVars, statusVars, wordsVars

\* rx_mock and tx_mock.
LEMMA RxMockLeaves ==
  ASSUME RxMock
  PROVE  /\ UNCHANGED <<consumeVars, askedVars, statusVars, wordsVars, answerVars>>
         /\ UNCHANGED <<sm, hp, headline_in, headline_out, http_request, payload_in, pp, app, rx_left>>
BY DEF RxMock, RxMockIdle, RxMockNotification, RxMockMeta, RxMockMetaHandshake, RxMockData,
       RxMockOnly, inFifos, appFifos, txVars, txMockVars, alVars,
       consumeVars, askedVars, statusVars, wordsVars, answerVars

\* ... tx_mock.
LEMMA TxMockLeaves ==
  ASSUME TxMock
  PROVE  /\ UNCHANGED <<exchangeVars, headlineVars, payloadVars, consumeVars, statusVars, wordsVars>>
         /\ UNCHANGED <<tx_aligner, al, http_response, app, tx_sm, rx_left>>
BY DEF TxMock, TxMockIdle, TxMockHandshake, TxMockConsumeData, TxMockOnly, rxVars, vars, tcpFifos,
       inFifos, appFifos, tcpStack, rxMockVars,
       exchangeVars, headlineVars, payloadVars, consumeVars, statusVars, wordsVars

\* The ring of listen_port shares nothing with the path of a request.
LEMMA ListenLeaves ==
  ASSUME Listen \/ UNCHANGED systemVars
  PROVE  /\ UNCHANGED <<exchangeVars, headlineVars, payloadVars, consumeVars, askedVars, statusVars,
                        wordsVars, answerVars>>
         /\ UNCHANGED <<rxVars, txVars, consume, produce, rx_left>>
BY DEF Listen, ListenRequestHandler, ListenResponseHandler, ListenPortHandler, systemVars,
       serverVars, mockVars, rxVars, vars, txVars, tcpFifos, inFifos, appFifos, tcpStack, rxMockVars,
       txMockVars, alVars, exchangeVars, headlineVars, payloadVars, consumeVars, askedVars,
       statusVars, wordsVars, answerVars

\* consume_request, and what process_notify does not take.
LEMMA ConsumeRequestLeaves ==
  ASSUME MockInv, HttpStep(ConsumeRequest)
  PROVE  /\ UNCHANGED <<exchangeVars, headlineVars, askedVars, statusVars, wordsVars, answerVars>>
         /\ UNCHANGED <<payload_in, pp, produce, rx_left>>
<1>1. app \in [requests : Seq(Request), headers : Seq(Beat), body : Seq(Beat)]
  BY DEF MockInv, TypeInv, TypeOK, EnvironmentOK
<1>2. app'.requests = app.requests
  BY <1>1 DEF HttpStep, ConsumeRequest, ConsumeHeaders, ConsumeBody, AppHeaders, AppBody
<1> QED BY <1>2
    DEF HttpStep, ConsumeRequest, ConsumeHeaders, ConsumeBody, AppHeaders, AppBody, tcpFifos,
        inFifos, tcpStack, txVars, mockVars, rxMockVars, txMockVars, alVars, exchangeVars,
        headlineVars, askedVars, statusVars, wordsVars, answerVars

\* ... process_notify.
LEMMA ProcessNotifyTakes ==
  ASSUME MockInv, HttpStep(ProcessNotify)
  PROVE  /\ UNCHANGED <<payloadVars, consumeVars>>
         /\ app.requests \in Seq(Request) /\ http_request \in Seq(Request)
         /\ app'.requests = Append(app.requests, Head(http_request))
         /\ CanRead(http_request) /\ http_request' = Tail(http_request)
         /\ CanWrite(http_response, PortDepth)
         /\ http_response' = Append(http_response, ResponseTo(Head(http_request).meta.sessionID))
<1>1. app \in [requests : Seq(Request), headers : Seq(Beat), body : Seq(Beat)]
  BY DEF MockInv, TypeInv, TypeOK, EnvironmentOK
<1>2. /\ app'.requests = Append(app.requests, Head(http_request))
      /\ app'.headers = app.headers /\ app'.body = app.body
  BY <1>1 DEF HttpStep, ProcessNotify, AppRequest
<1>3. http_request \in Seq(Request)
  BY DEF MockInv, TypeInv, TypeOK, AppFifosOK, IsFifo
<1>4. /\ CanRead(http_request) /\ http_request' = Tail(http_request)
      /\ CanWrite(http_response, PortDepth)
      /\ http_response' = Append(http_response, ResponseTo(Head(http_request).meta.sessionID))
  BY DEF HttpStep, ProcessNotify, AppRequest
<1> QED BY <1>1, <1>2, <1>3, <1>4, ProcessNotifyLeaves DEF payloadVars, consumeVars, exchangeVars

\* A part of the invariant is kept by a step that leaves its variables alone.
LEMMA ExchangeFrame == ASSUME Exchange, UNCHANGED exchangeVars PROVE Exchange'
BY DEF exchangeVars, Exchange, ExchangeCounted, MockNotifications, LastInFlight, Awaiting, Drawn, Delivered

\* ... the headlines,
LEMMA HeadlinesFrame == ASSUME Headlines, UNCHANGED headlineVars PROVE Headlines'
BY DEF headlineVars, Headlines, HeadlinesBefore, HeadlinesAfter, HeadlineParsed, Requested, Unserved, Awaiting, One

\* ... the payload,
LEMMA PayloadFrame == ASSUME Payload, UNCHANGED payloadVars PROVE Payload'
BY DEF payloadVars, Payload, PayloadWords, PayloadDue, PayloadIssued, PayloadRead, HeadersConsumed,
       BodyConsumed, HeadersOffered, BodyOffered, Awaiting, Drawn, Delivered

\* ... what consume_request takes,
LEMMA ConsumptionFrame == ASSUME Consumption, UNCHANGED consumeVars PROVE Consumption'
BY DEF consumeVars, Consumption, HeadersConsumed, BodyConsumed, HeadersEnded, BodyEnded

\* ... the answers asked for and their sizes,
LEMMA AskedFrame ==
  ASSUME Asked, SizesMade, UNCHANGED askedVars PROVE Asked' /\ SizesMade'
BY DEF askedVars, Asked, SizesMade, answering

\* ... the status line,
LEMMA StatusFrame == ASSUME StatusUnderWay, UNCHANGED statusVars PROVE StatusUnderWay'
BY DEF statusVars, StatusUnderWay

\* ... the words of the answers,
LEMMA WordsWrittenFrame == ASSUME WordsWritten, UNCHANGED wordsVars PROVE WordsWritten'
BY DEF wordsVars, WordsWritten, HeadersTaken, BodyTaken, answering

\* ... the answer under way.
LEMMA AnswerFrame == ASSUME AnswerUnderWay, UNCHANGED answerVars PROVE AnswerUnderWay'
BY DEF answerVars, AnswerUnderWay, Quiet, InFlight, Pieces, Packs, Aligning, Taken, PackedOut, Read, Sent, Accepted, HeadersTaken, answering

-----------------------------------------------------------------------------
(***************************************************************************)
(* The types                                                               *)
(***************************************************************************)

\* The mock announces and delivers values of the request path.
LEMMA MockValues ==
  /\ [sessionID |-> MockSession, length |-> MockLength] \in Notification
  /\ [sessionID |-> MockSession, length |-> MockLength, line |-> MOCK_HEADLINE] \in Transfer
  /\ MockLength \in Nat \ {0} /\ WordBytes \in Nat /\ WordBytes >= 2
  /\ MOCK_HEADLINE \in Texts /\ Blank \in Texts
<1>1. MockLength \in Nat \ {0} /\ WordBytes \in Nat /\ WordBytes >= 2
  BY MockAssumption, WordBytesAssumption
<1>2. MockLength \in Lengths \ {0} /\ MockSession \in Sessions /\ MOCK_HEADLINE \in Lines
  BY MockAssumption, <1>1
<1> QED BY <1>1, <1>2 DEF Notification, Transfer, Texts

\* The lanes of a word of tx_aligner.
LEMMA LanedType ==
  ASSUME NEW word \in PlacedWord
  PROVE  /\ Laned(word) \in Al!Word /\ Laned(word).last = word.last
         /\ Laned(word).keep = Al!Contiguous(word.bytes)
         /\ \A i \in 0 .. WordBytes - 1 : Laned(word).data[i].pos = FirstByte(word) + i
         /\ FirstByte(word) \in Nat
<1>1. /\ word.part \in {"headers", "crlf", "body"} /\ word.pos \in Nat /\ word.pos > 0
      /\ word.rsp \in Nat /\ word.bytes \in Nat /\ word.last \in BOOLEAN
  BY DEF PlacedWord, Tx!Word, Tx!Parts
<1>2. WordBytes \in Nat /\ headers_size \in Nat
  BY WordBytesAssumption, SizesAssumption
<1>3. (word.pos - 1) * WordBytes \in Nat
  <2>1. word.pos - 1 \in Nat
    BY <1>1
  <2> QED BY <2>1, <1>2
<1>4. FirstByte(word) \in Nat
  <2>1. CASE word.part = "headers"
    BY <1>3, <2>1 DEF FirstByte
  <2>2. CASE word.part = "crlf"
    BY <1>2, <2>2 DEF FirstByte
  <2>3. CASE word.part = "body"
    BY <1>2, <2>3 DEF FirstByte
  <2> QED BY <1>1, <2>1, <2>2, <2>3
<1> DEFINE f == FirstByte(word)
<1> HIDE DEF f
<1>5. f \in Nat
  BY <1>4 DEF f
<1>6. Laned(word) = [data |-> [i \in 0 .. WordBytes - 1 |-> [pkt |-> word.rsp, pos |-> f + i]],
                     keep |-> [i \in 0 .. WordBytes - 1 |-> i < word.bytes],
                     last |-> word.last]
  BY DEF Laned, f
<1>7. [i \in 0 .. WordBytes - 1 |-> [pkt |-> word.rsp, pos |-> f + i]]
        \in [0 .. WordBytes - 1 -> [pkt : Nat, pos : Nat]]
  BY <1>1, <1>2, <1>5
<1>8. [i \in 0 .. WordBytes - 1 |-> i < word.bytes] \in [0 .. WordBytes - 1 -> BOOLEAN]
  BY <1>1, <1>2
<1>9. Laned(word) \in Al!Word
  BY <1>1, <1>6, <1>7, <1>8 DEF Al!Word, Al!Lanes
<1> QED BY <1>4, <1>6, <1>9 DEF Al!Contiguous, Al!Lanes, f

\* A mask with its first n lanes kept counts as n, and no mask as more than a word.
LEMMA KeptLanes ==
  /\ \A n \in 1 .. WordBytes : Al!keepToLen(Al!Contiguous(n)) = n
  /\ \A keep : Al!keepToLen(keep) \in 0 .. WordBytes
  /\ \A keep : Al!keepToLen(keep) > 0 => keep = Al!Contiguous(Al!keepToLen(keep))
<1>1. WordBytes \in Nat /\ WordBytes >= 2
  BY MockValues
<1>2. ASSUME NEW keep
      PROVE  /\ Al!keepToLen(keep) \in 0 .. WordBytes
             /\ Al!keepToLen(keep) > 0 => keep = Al!Contiguous(Al!keepToLen(keep))
  <2> DEFINE lengths == {n \in 1 .. WordBytes : keep = Al!Contiguous(n)}
  <2>1. Al!keepToLen(keep) = IF lengths = {} THEN 0 ELSE CHOOSE n \in lengths : TRUE
    BY DEF Al!keepToLen
  <2>2. CASE lengths = {}
    BY <2>1, <2>2, <1>1
  <2>3. CASE lengths # {}
    <3>1. Al!keepToLen(keep) \in lengths
      BY <2>1, <2>3
    <3> QED BY <3>1, <1>1
  <2> QED BY <2>2, <2>3
<1>3. ASSUME NEW n \in 1 .. WordBytes
      PROVE  Al!keepToLen(Al!Contiguous(n)) = n
  <2> DEFINE lengths == {m \in 1 .. WordBytes : Al!Contiguous(n) = Al!Contiguous(m)}
  <2>1. ASSUME NEW m \in 1 .. WordBytes, Al!Contiguous(n) = Al!Contiguous(m)
        PROVE  m = n
    <3>1. \A i \in 0 .. WordBytes - 1 : (i < n) <=> (i < m)
      <4> TAKE i \in 0 .. WordBytes - 1
      <4>1. Al!Contiguous(n)[i] = (i < n) /\ Al!Contiguous(m)[i] = (i < m)
        BY DEF Al!Contiguous, Al!Lanes
      <4> QED BY <4>1, <2>1
    <3>2. CASE m < n
      BY <3>1, <3>2, <1>1
    <3>3. CASE n < m
      BY <3>1, <3>3, <1>1
    <3> QED BY <3>2, <3>3, <1>1
  <2>2. lengths = {n}
    BY <2>1
  <2>3. Al!keepToLen(Al!Contiguous(n)) = IF lengths = {} THEN 0 ELSE CHOOSE m \in lengths : TRUE
    BY DEF Al!keepToLen
  <2> QED BY <2>2, <2>3
<1> QED BY <1>2, <1>3

\* The system starts with every FIFO empty and every process idle.
LEMMA TypesInitially == MockInit => MockInv
<1> SUFFICES ASSUME MockInit PROVE MockInv
  OBVIOUS
<1>1. ServerInit /\ Init
  BY DEF MockInit, ServerInit
<1>2. TypeInv /\ rx_left = 0
  BY <1>1, TypeInit DEF Init
<1>3. ServerFifosOK /\ ConsumeOK /\ ProduceOK /\ TxOK
  <2>1. <<>> \in Seq(Tx!Response) /\ <<>> \in Seq(Tx!Word) /\ Len(<<>>) <= PortDepth
    BY DepthAssumption
  <2>2. ServerFifosOK
    BY <1>1, <2>1 DEF ServerInit, ServerFifosOK, IsFifo
  <2>3. ConsumeOK /\ ProduceOK
    BY <1>1 DEF ServerInit, ConsumeOK, ProduceOK
  <2>4. TxOK
    BY <1>1 DEF ServerInit, TxOK, Tx!SmStates
  <2> QED BY <2>2, <2>3, <2>4
<1>4. PlacedOK /\ StatusOK
  BY <1>1 DEF ServerInit, PlacedOK, StatusOK
<1>5. Al!NoWord \in Al!Word
  <2>1. [i \in Al!Lanes |-> Al!NoByte] \in [Al!Lanes -> [pkt : Nat, pos : Nat]]
    BY DEF Al!NoByte
  <2> QED BY <2>1 DEF Al!NoWord, Al!Word
<1>6. AlignerOK
  BY <1>5, MockValues, DepthAssumption DEF MockInit, AlignerOK, IsFifo
<1>7. MockOK /\ ListenOK
  BY DepthAssumption DEF MockInit, MockOK, ListenOK, IsFifo
<1> QED BY <1>2, <1>3, <1>4, <1>6, <1>7 DEF MockInv

\* The steps of the request path and the application's reading of requests.
LEMMA RxTypes ==
  ASSUME MockInv, [Next]_vars, rx_left' = rx_left, UNCHANGED <<txVars, produce>>, UNCHANGED mockVars,
         ConsumeOK'
  PROVE  MockInv'
<1>1. TypeInv' /\ rx_left' = 0
  BY TypeStep DEF MockInv
<1> QED BY <1>1
    DEF MockInv, ServerFifosOK, ProduceOK, TxOK, PlacedOK, StatusOK, AlignerOK, MockOK, ListenOK,
        txVars, mockVars, rxMockVars, txMockVars, alVars, listenVars

\* ... of which these are.
LEMMA RxStepTypes ==
  ASSUME MockInv,
         \/ HttpStep(RxStateMachine) \/ HttpStep(RxHeadlineParser) \/ HttpStep(RxRequestIssuer)
         \/ HttpStep(RxPayloadParser)
  PROVE  MockInv'
<1>1. [Next]_vars /\ UNCHANGED <<txVars, consume, produce>> /\ UNCHANGED mockVars
  BY DEF HttpStep, RxStateMachine, RxHeadlineParser, RxRequestIssuer, RxPayloadParser, RxStep, Next
<1>2. rx_left' = rx_left
  BY RxStateMachineLeaves, HeadlineLeaves, RxPayloadParserLeaves
<1>3. ConsumeOK'
  BY <1>1 DEF MockInv, ConsumeOK
<1> QED BY <1>1, <1>2, <1>3, RxTypes

\* consume_request takes a beat.
LEMMA ConsumeTypes == ASSUME MockInv, HttpStep(ConsumeRequest) PROVE MockInv'
<1>1. /\ http_request_headers \in Seq(Beat) /\ http_request_body \in Seq(Beat) /\ ConsumeOK
  BY DEF MockInv, TypeInv, TypeOK, AppFifosOK, IsFifo
<1>2. ConsumeOK'
  <2>1. CASE ConsumeHeaders
    <3>1. Head(http_request_headers) \in Beat
      BY <1>1, <2>1 DEF ConsumeHeaders, AppHeaders, CanRead
    <3>2. Head(http_request_headers).last \in BOOLEAN
      BY <3>1 DEF Beat
    <3> QED BY <1>1, <2>1, <3>2, ConsumedType DEF ConsumeHeaders, ConsumeOK
  <2>2. CASE ConsumeBody
    <3>1. Head(http_request_body) \in Beat
      BY <1>1, <2>2 DEF ConsumeBody, AppBody, CanRead
    <3>2. Head(http_request_body).last \in BOOLEAN
      BY <3>1 DEF Beat
    <3> QED BY <1>1, <2>2, <3>2, ConsumedType DEF ConsumeBody, ConsumeOK
  <2> QED BY <2>1, <2>2 DEF HttpStep, ConsumeRequest
<1>3. [Next]_vars /\ UNCHANGED <<txVars, produce>> /\ UNCHANGED mockVars
  BY DEF HttpStep, ConsumeRequest, ConsumeHeaders, ConsumeBody, Next
<1> QED BY <1>2, <1>3, ConsumeRequestLeaves, RxTypes

\* process_notify makes a response.
LEMMA NotifyTypes == ASSUME MockInv, HttpStep(ProcessNotify) PROVE MockInv'
<1> DEFINE session == Head(http_request).meta.sessionID
<1>1. TypeInv' /\ rx_left' = 0
  <2>1. [Next]_vars
    BY DEF HttpStep, ProcessNotify, Next
  <2> QED BY <2>1, TypeStep, ProcessNotifyLeaves DEF MockInv
<1>2. session \in Sessions
  <2>1. Head(http_request) \in Request
    BY ProcessNotifyTakes DEF CanRead
  <2> QED BY <2>1 DEF Request
<1> HIDE DEF session
<1>3. /\ http_response' = Append(http_response, ResponseTo(session))
      /\ CanWrite(http_response, PortDepth) /\ ResponseTo(session) \in Tx!Response
  BY <1>2, ProcessNotifyTakes, ResponseToType DEF session
<1>4. ServerFifosOK'
  <2>1. IsFifo(http_response', Tx!Response, PortDepth)
    BY <1>3, FifoAppend, DepthAssumption DEF MockInv, ServerFifosOK
  <2> QED BY <2>1, ProcessNotifyLeaves DEF MockInv, ServerFifosOK
<1>5. UNCHANGED mockVars /\ tx_aligner' = tx_aligner
  BY ProcessNotifyLeaves DEF HttpStep
<1> QED BY <1>1, <1>4, <1>5, ProcessNotifyLeaves
    DEF MockInv, ConsumeOK, ProduceOK, TxOK, PlacedOK, StatusOK, AlignerOK, MockOK, ListenOK,
        mockVars, rxMockVars, txMockVars, alVars, listenVars, statusVars

\* The words produce_response writes.
LEMMA WrittenWords ==
  ASSUME ProduceOK
  PROVE  /\ produce.word \in {1, 2} =>
              /\ HeadersWord(produce.word) \in PlacedWord
              /\ HeadersWord(produce.word).part = "headers"
              /\ HeadersWord(produce.word).pos = produce.word
              /\ HeadersWordOK(HeadersWord(produce.word))
         /\ LET w == Tx!WordOf(produce.rsp, "body", 1, body_size) IN
              w \in PlacedWord /\ w.part = "body" /\ w.pos = 1 /\ BodyWordOK(w)
<1>1. headers_size \in Nat /\ body_size \in Nat /\ WordBytes \in Nat \ {0} /\ headers_size > WordBytes
  BY SizesAssumption, WordBytesAssumption
<1>2. produce.rsp \in Nat
  BY DEF ProduceOK
<1>3. ASSUME produce.word \in {1, 2}
      PROVE  HeadersWord(produce.word) \in Tx!Word
  <2>1. headers_size >= (produce.word - 1) * WordBytes
    <3>1. CASE produce.word = 1
      BY <1>1, <3>1
    <3>2. CASE produce.word = 2
      BY <1>1, <3>2
    <3> QED BY <1>3, <3>1, <3>2
  <2> QED BY <1>1, <1>2, <1>3, <2>1, WrittenWordType DEF HeadersWord
<1>4. Tx!WordOf(produce.rsp, "body", 1, body_size) \in Tx!Word
  <2>1. body_size >= (1 - 1) * WordBytes
    BY <1>1
  <2> QED BY <1>1, <1>2, <2>1, WrittenWordType
<1>5. ASSUME NEW part, NEW k, NEW size
      PROVE  /\ Tx!WordOf(produce.rsp, part, k, size).part = part
             /\ Tx!WordOf(produce.rsp, part, k, size).pos = k
  BY DEF Tx!WordOf
<1>6. produce.word \in {1, 2} => HeadersWordOK(HeadersWord(produce.word))
  BY AnswerWords DEF HeadersWord
<1>7. BodyWordOK(Tx!WordOf(produce.rsp, "body", 1, body_size))
  BY AnswerWords
<1> QED BY <1>3, <1>4, <1>5, <1>6, <1>7 DEF PlacedWord, HeadersWord

\* produce_response writes a word.
LEMMA ProduceTypes == ASSUME MockInv, HttpStep(ProduceResponse) PROVE MockInv'
<1> DEFINE body == Tx!WordOf(produce.rsp, "body", 1, body_size)
           headers == HeadersWord(produce.word)
<1>1. TypeInv' /\ rx_left' = 0
  <2>1. UNCHANGED vars
    BY DEF HttpStep, ProduceResponse, ProduceHeaders, ProduceBody, rxVars
  <2> QED BY <2>1, TypeStep, ProduceResponseLeaves DEF MockInv
<1>2. produce.rsp \in Nat \ {0} /\ produce.word \in 1 .. 3 /\ ProduceOK
  BY DEF MockInv, ProduceOK
<1>3. /\ produce.word \in {1, 2} => headers \in PlacedWord
      /\ body \in PlacedWord
  BY <1>2, WrittenWords
<1> HIDE DEF body, headers
<1>4. \/ /\ produce.word \in {1, 2} /\ CanWrite(http_response_headers, PortDepth)
         /\ http_response_headers' = Append(http_response_headers, headers)
         /\ http_response_body' = http_response_body
         /\ produce' = [produce EXCEPT !.word = @ + 1]
      \/ /\ CanWrite(http_response_body, PortDepth)
         /\ http_response_body' = Append(http_response_body, body)
         /\ http_response_headers' = http_response_headers
         /\ produce' = [rsp |-> produce.rsp + 1, word |-> 1]
  BY DEF HttpStep, ProduceResponse, ProduceHeaders, ProduceBody, body, headers
<1>5. ProduceOK'
  BY <1>2, <1>4 DEF ProduceOK
<1>6. /\ http_response_headers \in Seq(PlacedWord) /\ http_response_body \in Seq(PlacedWord)
      /\ IsFifo(http_response_headers, Tx!Word, PortDepth)
      /\ IsFifo(http_response_body, Tx!Word, PortDepth)
  BY DEF MockInv, PlacedOK, ServerFifosOK
<1>7. http_response_headers' \in Seq(PlacedWord) /\ http_response_body' \in Seq(PlacedWord)
  <2>1. CASE http_response_body' = http_response_body
    <3>1. \/ /\ headers \in PlacedWord
             /\ http_response_headers' = Append(http_response_headers, headers)
          \/ http_response_headers' = http_response_headers
      BY <1>3, <1>4
    <3> QED BY <1>6, <2>1, <3>1
  <2>2. CASE http_response_body' # http_response_body
    <3>1. /\ http_response_body' = Append(http_response_body, body)
          /\ http_response_headers' = http_response_headers
      BY <1>4, <2>2
    <3> QED BY <1>3, <1>6, <3>1
  <2> QED BY <2>1, <2>2
<1>8. /\ IsFifo(http_response_headers', Tx!Word, PortDepth)
      /\ IsFifo(http_response_body', Tx!Word, PortDepth)
  <2>1. produce.word \in {1, 2} => headers \in Tx!Word
    BY <1>3 DEF PlacedWord
  <2>2. body \in Tx!Word
    BY <1>3 DEF PlacedWord
  <2>3. IsFifo(http_response_headers', Tx!Word, PortDepth)
    <3>1. CASE http_response_headers' = http_response_headers
      BY <1>6, <3>1
    <3>2. CASE http_response_headers' # http_response_headers
      <4>1. /\ headers \in Tx!Word /\ CanWrite(http_response_headers, PortDepth)
            /\ http_response_headers' = Append(http_response_headers, headers)
        BY <1>4, <2>1, <3>2
      <4> QED BY <1>6, <4>1, FifoAppend, DepthAssumption
    <3> QED BY <3>1, <3>2
  <2>4. IsFifo(http_response_body', Tx!Word, PortDepth)
    <3>1. CASE http_response_body' = http_response_body
      BY <1>6, <3>1
    <3>2. CASE http_response_body' # http_response_body
      <4>1. /\ CanWrite(http_response_body, PortDepth)
            /\ http_response_body' = Append(http_response_body, body)
        BY <1>4, <3>2
      <4> QED BY <1>6, <2>2, <4>1, FifoAppend, DepthAssumption
    <3> QED BY <3>1, <3>2
  <2> QED BY <2>3, <2>4
<1>9. UNCHANGED mockVars /\ consume' = consume
  BY DEF HttpStep, ProduceResponse, ProduceHeaders, ProduceBody
<1>10. /\ http_response' = http_response /\ tx_sm' = tx_sm /\ tcp_tx_req' = tcp_tx_req
       /\ tcp_tx_rsp' = tcp_tx_rsp /\ settled' = settled
  BY ProduceResponseLeaves DEF askedVars
<1> QED BY <1>1, <1>5, <1>7, <1>8, <1>9, <1>10, ProduceResponseLeaves
    DEF MockInv, ServerFifosOK, ConsumeOK, TxOK, PlacedOK, StatusOK, AlignerOK, MockOK, ListenOK,
        mockVars, rxMockVars, txMockVars, alVars, listenVars, statusVars

\* What a step that works on the response path keeps of the types.
LEMMA TxTypesFrame ==
  ASSUME MockInv, UNCHANGED rxVars, UNCHANGED <<consume, produce, rxMockVars, listenVars>>,
         ServerFifosOK', TxOK', PlacedOK', StatusOK', AlignerOK', MockOK'
  PROVE  MockInv'
<1>1. TypeInv' /\ rx_left' = 0
  <2>1. UNCHANGED vars
    BY DEF rxVars
  <2> QED BY <2>1, TypeStep DEF MockInv, vars, tcpStack
<1> QED BY <1>1 DEF MockInv, ConsumeOK, ProduceOK, ListenOK, listenVars

\* A FIFO of words loses its head.
LEMMA WordTaken ==
  ASSUME NEW fifo, fifo \in Seq(PlacedWord), fifo # <<>>
  PROVE  Tail(fifo) \in Seq(PlacedWord) /\ Head(fifo) \in PlacedWord
OBVIOUS

\* ... of either part.
LEMMA PartTaken ==
  ASSUME MockInv, NEW fifo, fifo \in {http_response_headers, http_response_body}, fifo # <<>>
  PROVE  /\ Tail(fifo) \in Seq(PlacedWord) /\ Head(fifo) \in PlacedWord
         /\ IsFifo(Tail(fifo), Tx!Word, PortDepth)
<1>1. fifo \in Seq(PlacedWord) /\ IsFifo(fifo, Tx!Word, PortDepth)
  BY DEF MockInv, PlacedOK, ServerFifosOK
<1>2. IsFifo(Tail(fifo), Tx!Word, PortDepth)
  BY <1>1, FifoTail, DepthAssumption DEF CanRead
<1> QED BY <1>1, <1>2, WordTaken

\* state_machine reads an answer and passes on its status code.
LEMMA TxSmIdleTypes == ASSUME MockInv, HttpStep(TxStep(Tx!SmIdle)) PROVE MockInv'
<1>1. /\ UNCHANGED rxVars /\ UNCHANGED <<consume, produce, tx_sc, settled, tx_aligner>> /\ UNCHANGED mockVars
      /\ UNCHANGED <<http_response_headers, http_response_body, tcp_tx_req, tcp_tx_rsp, resp_status_line>>
      /\ http_response # <<>> /\ http_response' = Tail(http_response)
      /\ tx_sm' = [state |-> "TCP_REQ", app_response |-> Head(http_response)]
      /\ resp_status_code' = Append(resp_status_code, Head(http_response).status_code)
  BY DEF HttpStep, TxStep, Tx!SmIdle, Tx!CanRead, Tx!tcpFifos, Tx!outside
<1>2. IsFifo(http_response', Tx!Response, PortDepth) /\ Head(http_response) \in Tx!Response
  BY <1>1, FifoTail, DepthAssumption DEF MockInv, ServerFifosOK, CanRead
<1>3. Head(http_response).status_code = "OK_200"
  BY <1>2 DEF Tx!Response
<1>4. StatusOK'
  BY <1>1, <1>2, <1>3 DEF MockInv, StatusOK
<1>5. TxOK'
  BY <1>1, <1>2 DEF MockInv, TxOK, Tx!SmStates
<1> QED BY <1>1, <1>2, <1>4, <1>5, TxTypesFrame
    DEF MockInv, ServerFifosOK, PlacedOK, AlignerOK, MockOK, mockVars, rxMockVars, txMockVars,
        alVars, listenVars

\* It asks for the answer to be sent,
LEMMA TxSmTcpReqTypes == ASSUME MockInv, HttpStep(TxStep(Tx!SmTcpReq)) PROVE MockInv'
<1> DEFINE asked == [sessionID |-> tx_sm.app_response.sessionID,
                     length    |-> Tx!Announced(tx_sm.app_response)]
<1>1. /\ UNCHANGED rxVars /\ UNCHANGED <<consume, produce, tx_sc, settled, tx_aligner>> /\ UNCHANGED mockVars
      /\ UNCHANGED <<http_response, http_response_headers, http_response_body, tcp_tx_rsp,
                     resp_status_code, resp_status_line>>
      /\ tx_sm' = [tx_sm EXCEPT !.state = "TCP_RSP"]
      /\ tcp_tx_req' = Append(tcp_tx_req, asked)
  BY DEF HttpStep, TxStep, Tx!SmTcpReq, Tx!appFifos, Tx!innerFifos, Tx!outside
<1>2. tx_sm.state = "TCP_REQ" /\ tx_sm.app_response \in Tx!Response
  BY DEF HttpStep, TxStep, Tx!SmTcpReq, MockInv, StatusOK
<1>3. asked \in Tx!TxRequest
  BY <1>2, AnnouncedNat DEF Tx!TxRequest, Tx!Response
<1> HIDE DEF asked
<1>4. TxOK' /\ StatusOK'
  <2>1. tx_sm \in [state : Tx!SmStates, app_response : Tx!Response \cup {Unset}]
    BY DEF MockInv, TxOK
  <2>2. /\ tx_sm'.app_response = tx_sm.app_response
        /\ tx_sm' \in [state : Tx!SmStates, app_response : Tx!Response \cup {Unset}]
    BY <1>1, <2>1 DEF Tx!SmStates
  <2> QED BY <1>1, <1>2, <1>3, <2>2 DEF MockInv, TxOK, StatusOK
<1> QED BY <1>1, <1>4, TxTypesFrame
    DEF MockInv, ServerFifosOK, PlacedOK, AlignerOK, MockOK, mockVars, rxMockVars,
        txMockVars, alVars, listenVars

\* sees what became of it,
LEMMA TxSmTcpRspTypes == ASSUME MockInv, HttpStep(TxStep(Tx!SmTcpRsp)) PROVE MockInv'
<1>1. /\ UNCHANGED rxVars /\ UNCHANGED <<consume, produce, tx_sc, settled, tx_aligner>> /\ UNCHANGED mockVars
      /\ UNCHANGED <<http_response, http_response_headers, http_response_body, tcp_tx_req,
                     resp_status_code, resp_status_line>>
      /\ tcp_tx_rsp # <<>> /\ tcp_tx_rsp' = Tail(tcp_tx_rsp)
      /\ tx_sm' = [tx_sm EXCEPT !.state = Tx!AfterRsp(Head(tcp_tx_rsp).error)]
  BY DEF HttpStep, TxStep, Tx!SmTcpRsp, Tx!CanRead, Tx!appFifos, Tx!innerFifos, Tx!outside
<1>2. Head(tcp_tx_rsp) \in Tx!TxAnswer /\ tcp_tx_rsp' \in Seq(Tx!TxAnswer)
  BY <1>1 DEF MockInv, TxOK
<1>3. Tx!AfterRsp(Head(tcp_tx_rsp).error) \in Tx!SmStates
  <2>1. Head(tcp_tx_rsp).error \in 0 .. 3
    BY <1>2 DEF Tx!TxAnswer
  <2>2. ASSUME NEW error \in 0 .. 3 PROVE Tx!AfterRsp(error) \in Tx!SmStates
    <3>1. error = 0 \/ error = 1 \/ (error # 0 /\ error # 1 /\ error >= 2)
      OBVIOUS
    <3> QED BY <3>1 DEF Tx!AfterRsp, Tx!SmStates
  <2> QED BY <2>1, <2>2
<1>4. TxOK' /\ StatusOK'
  <2>1. tx_sm \in [state : Tx!SmStates, app_response : Tx!Response \cup {Unset}]
    BY DEF MockInv, TxOK
  <2>2. /\ tx_sm'.app_response = tx_sm.app_response
        /\ tx_sm' \in [state : Tx!SmStates, app_response : Tx!Response \cup {Unset}]
    BY <1>1, <1>3, <2>1
  <2>3. tx_sm.state # "IDLE"
    BY DEF HttpStep, TxStep, Tx!SmTcpRsp
  <2> QED BY <1>1, <1>2, <2>2, <2>3 DEF MockInv, TxOK, StatusOK
<1> QED BY <1>1, <1>4, TxTypesFrame
    DEF MockInv, ServerFifosOK, PlacedOK, AlignerOK, MockOK, mockVars, rxMockVars,
        txMockVars, alVars, listenVars

\* A step of state_machine that moves the parts of an answer changes its state
\* and the FIFOs of the parts.
LEMMA TxPartTypes ==
  ASSUME MockInv, HttpStep(TxStateMachine),
         NEW state \in Tx!SmStates, tx_sm.state # "IDLE", tx_sm' = [tx_sm EXCEPT !.state = state],
         UNCHANGED <<http_response, tcp_tx_req, tcp_tx_rsp, resp_status_code>>,
         resp_status_line' \in Seq({Tx!StatusLine("OK_200")}),
         NEW h, h = http_response_headers, NEW b, b = http_response_body,
         http_response_headers' = h \/ (h # <<>> /\ http_response_headers' = Tail(h)),
         http_response_body' = b \/ (b # <<>> /\ http_response_body' = Tail(b)),
         tx_aligner' \in Seq(PlacedWord)
  PROVE  MockInv'
<1>1. /\ UNCHANGED rxVars /\ UNCHANGED <<consume, produce, tx_sc, settled>> /\ UNCHANGED mockVars
  BY TxStateMachineLeaves DEF HttpStep, TxStateMachine, TxStep
<1>2. /\ http_response_headers' \in Seq(PlacedWord) /\ http_response_body' \in Seq(PlacedWord)
      /\ IsFifo(http_response_headers', Tx!Word, PortDepth)
      /\ IsFifo(http_response_body', Tx!Word, PortDepth)
  <2>1. ASSUME NEW fifo, fifo \in {http_response_headers, http_response_body}
        PROVE  fifo \in Seq(PlacedWord) /\ IsFifo(fifo, Tx!Word, PortDepth)
    BY <2>1 DEF MockInv, PlacedOK, ServerFifosOK
  <2> QED BY <2>1, PartTaken
<1>3. TxOK' /\ StatusOK'
  <2>1. tx_sm \in [state : Tx!SmStates, app_response : Tx!Response \cup {Unset}]
    BY DEF MockInv, TxOK
  <2>2. /\ tx_sm'.app_response = tx_sm.app_response
        /\ tx_sm' \in [state : Tx!SmStates, app_response : Tx!Response \cup {Unset}]
    BY <2>1
  <2> QED BY <1>1, <2>2 DEF MockInv, TxOK, StatusOK
<1> QED BY <1>1, <1>2, <1>3, TxTypesFrame
    DEF MockInv, ServerFifosOK, PlacedOK, AlignerOK, MockOK, mockVars, rxMockVars, txMockVars,
        alVars, listenVars

\* state_machine takes the status line,
LEMMA TxSmDataHttpStatusTypes ==
  ASSUME MockInv, HttpStep(TxStep(Tx!SmDataHttpStatus)) \/ HttpStep(TxStep(Tx!SmFlushHeadline))
  PROVE  MockInv'
<1>1. HttpStep(TxStateMachine)
  BY DEF HttpStep, TxStep, TxStateMachine, Tx!StateMachine
<1>2. /\ UNCHANGED <<http_response, http_response_headers, http_response_body, tcp_tx_req,
                     tcp_tx_rsp, tx_aligner, resp_status_code>>
      /\ tx_sm.state # "IDLE" /\ resp_status_line # <<>> /\ resp_status_line' = Tail(resp_status_line)
      /\ \/ tx_sm' = [tx_sm EXCEPT !.state = "DATA_HEADERS"]
         \/ tx_sm' = [tx_sm EXCEPT !.state = "FLUSH_HEADERS"]
  BY DEF HttpStep, TxStep, Tx!SmDataHttpStatus, Tx!SmFlushHeadline, Tx!CanRead, Tx!appFifos, Tx!tcpFifos
<1>3. resp_status_line' \in Seq({Tx!StatusLine("OK_200")}) /\ tx_aligner' \in Seq(PlacedWord)
  <2>1. resp_status_line \in Seq({Tx!StatusLine("OK_200")}) /\ tx_aligner \in Seq(PlacedWord)
    BY DEF MockInv, StatusOK, PlacedOK
  <2> QED BY <1>2, <2>1
<1>4. "DATA_HEADERS" \in Tx!SmStates /\ "FLUSH_HEADERS" \in Tx!SmStates
  BY DEF Tx!SmStates
<1> QED BY <1>1, <1>2, <1>3, <1>4, TxPartTypes

\* passes on the words of a part,
LEMMA TxSmDataHeadersTypes == ASSUME MockInv, HttpStep(TxStep(Tx!SmDataHeaders)) PROVE MockInv'
<1>1. HttpStep(TxStateMachine)
  BY DEF HttpStep, TxStep, TxStateMachine, Tx!StateMachine
<1>2. /\ UNCHANGED <<http_response, http_response_body, tcp_tx_req, tcp_tx_rsp, resp_status_code,
                     resp_status_line>>
      /\ tx_sm.state # "IDLE"
      /\ http_response_headers # <<>> /\ http_response_headers' = Tail(http_response_headers)
      /\ tx_aligner' = Append(tx_aligner, Tx!Middle(Head(http_response_headers)))
      /\ \/ tx_sm' = [tx_sm EXCEPT !.state = "DATA_HEADERS"]
         \/ tx_sm' = [tx_sm EXCEPT !.state = "DATA_CRLF"]
  BY DEF HttpStep, TxStep, Tx!SmDataHeaders, Tx!CanRead, Tx!tcpFifos
<1>3. resp_status_line' \in Seq({Tx!StatusLine("OK_200")}) /\ tx_aligner' \in Seq(PlacedWord)
  <2>1. Tx!Middle(Head(http_response_headers)) \in PlacedWord
    <3>1. Head(http_response_headers) \in PlacedWord
      BY <1>2, PartTaken
    <3> QED BY <3>1 DEF PlacedWord, Tx!Word, Tx!Middle
  <2> QED BY <1>2, <2>1 DEF MockInv, PlacedOK, StatusOK
<1>4. "DATA_HEADERS" \in Tx!SmStates /\ "DATA_CRLF" \in Tx!SmStates
  BY DEF Tx!SmStates
<1> QED BY <1>1, <1>2, <1>3, <1>4, TxPartTypes

\* ... adds the CR LF,
LEMMA TxSmDataCrlfTypes == ASSUME MockInv, HttpStep(TxStep(Tx!SmDataCrlf)) PROVE MockInv'
<1>1. HttpStep(TxStateMachine)
  BY DEF HttpStep, TxStep, TxStateMachine, Tx!StateMachine
<1>2. /\ UNCHANGED <<http_response, http_response_headers, http_response_body, tcp_tx_req,
                     tcp_tx_rsp, resp_status_code, resp_status_line>>
      /\ tx_sm.state # "IDLE"
      /\ tx_aligner' = Append(tx_aligner, Tx!Crlf)
      /\ tx_sm' = [tx_sm EXCEPT !.state = "DATA_BODY"]
  BY DEF HttpStep, TxStep, Tx!SmDataCrlf, Tx!appFifos, Tx!tcpFifos
<1>3. resp_status_line' \in Seq({Tx!StatusLine("OK_200")}) /\ tx_aligner' \in Seq(PlacedWord)
  <2>1. Tx!Crlf \in PlacedWord
    BY DEF PlacedWord, Tx!Word, Tx!Crlf, Tx!Parts
  <2> QED BY <1>2, <2>1 DEF MockInv, PlacedOK, StatusOK
<1>4. "DATA_BODY" \in Tx!SmStates
  BY DEF Tx!SmStates
<1> QED BY <1>1, <1>2, <1>3, <1>4, TxPartTypes

\* ... and the body,
LEMMA TxSmDataBodyTypes == ASSUME MockInv, HttpStep(TxStep(Tx!SmDataBody)) PROVE MockInv'
<1>1. HttpStep(TxStateMachine)
  BY DEF HttpStep, TxStep, TxStateMachine, Tx!StateMachine
<1>2. /\ UNCHANGED <<http_response, http_response_headers, tcp_tx_req, tcp_tx_rsp, resp_status_code,
                     resp_status_line>>
      /\ tx_sm.state # "IDLE"
      /\ http_response_body # <<>> /\ http_response_body' = Tail(http_response_body)
      /\ tx_aligner' = Append(tx_aligner, Head(http_response_body))
      /\ \/ tx_sm' = [tx_sm EXCEPT !.state = "IDLE"]
         \/ tx_sm' = [tx_sm EXCEPT !.state = "DATA_BODY"]
  BY DEF HttpStep, TxStep, Tx!SmDataBody, Tx!CanRead, Tx!tcpFifos
<1>3. resp_status_line' \in Seq({Tx!StatusLine("OK_200")}) /\ tx_aligner' \in Seq(PlacedWord)
  <2>1. Head(http_response_body) \in PlacedWord
    BY <1>2, PartTaken
  <2> QED BY <1>2, <2>1 DEF MockInv, PlacedOK, StatusOK
<1>4. "IDLE" \in Tx!SmStates /\ "DATA_BODY" \in Tx!SmStates
  BY DEF Tx!SmStates
<1> QED BY <1>1, <1>2, <1>3, <1>4, TxPartTypes

\* ... or drops them.
LEMMA TxSmFlushTypes ==
  ASSUME MockInv, HttpStep(TxStep(Tx!SmFlushHeaders)) \/ HttpStep(TxStep(Tx!SmFlushBody))
  PROVE  MockInv'
<1>1. HttpStep(TxStateMachine)
  BY DEF HttpStep, TxStep, TxStateMachine, Tx!StateMachine
<1>2. /\ UNCHANGED <<http_response, tcp_tx_req, tcp_tx_rsp, tx_aligner, resp_status_code,
                     resp_status_line>>
      /\ tx_sm.state # "IDLE"
      /\ \/ /\ http_response_headers # <<>> /\ http_response_headers' = Tail(http_response_headers)
            /\ http_response_body' = http_response_body
         \/ /\ http_response_body # <<>> /\ http_response_body' = Tail(http_response_body)
            /\ http_response_headers' = http_response_headers
      /\ \E state \in {"IDLE", "FLUSH_BODY", "FLUSH_HEADERS"} : tx_sm' = [tx_sm EXCEPT !.state = state]
  BY DEF HttpStep, TxStep, Tx!SmFlushHeaders, Tx!SmFlushBody, Tx!AfterFlushed, Tx!CanRead, Tx!tcpFifos,
         Tx!innerFifos
<1>3. resp_status_line' \in Seq({Tx!StatusLine("OK_200")}) /\ tx_aligner' \in Seq(PlacedWord)
  BY <1>2 DEF MockInv, PlacedOK, StatusOK
<1>4. {"IDLE", "FLUSH_BODY", "FLUSH_HEADERS"} \subseteq Tx!SmStates
  BY DEF Tx!SmStates
<1> QED BY <1>1, <1>2, <1>3, <1>4, TxPartTypes

\* status_code_parser.
LEMMA TxStatusCodeParserTypes == ASSUME MockInv, HttpStep(TxStatusCodeParser) PROVE MockInv'
<1>1. /\ UNCHANGED rxVars /\ UNCHANGED <<consume, produce, tx_sm, settled, tx_aligner>> /\ UNCHANGED mockVars
      /\ UNCHANGED <<http_response, http_response_headers, http_response_body, tcp_tx_req, tcp_tx_rsp>>
  BY DEF HttpStep, TxStatusCodeParser, TxStep, Tx!StatusCodeParser, Tx!ScIdle, Tx!ScReadInput,
         Tx!ScWriteOutput, Tx!appFifos, Tx!tcpFifos, Tx!innerFifos, Tx!outside
<1>2. /\ resp_status_code \in Seq({"OK_200"}) /\ resp_status_line \in Seq({Tx!StatusLine("OK_200")})
      /\ tx_sc \in [state : {"IDLE", "READ_INPUT", "WRITE_OUTPUT"}, status_code : {"OK_200", Unset}]
      /\ tx_sc.state = "WRITE_OUTPUT" => tx_sc.status_code = "OK_200"
  BY DEF MockInv, StatusOK
<1>3. \/ /\ tx_sc' = [tx_sc EXCEPT !.state = "READ_INPUT"]
         /\ UNCHANGED <<resp_status_code, resp_status_line>>
      \/ /\ tx_sc' = [state |-> "WRITE_OUTPUT", status_code |-> Head(resp_status_code)]
         /\ resp_status_code # <<>> /\ resp_status_code' = Tail(resp_status_code)
         /\ UNCHANGED resp_status_line
      \/ /\ tx_sc.state = "WRITE_OUTPUT" /\ tx_sc' = [tx_sc EXCEPT !.state = "IDLE"]
         /\ resp_status_line' = Append(resp_status_line, Tx!StatusLine(tx_sc.status_code))
         /\ UNCHANGED resp_status_code
  BY DEF HttpStep, TxStatusCodeParser, TxStep, Tx!StatusCodeParser, Tx!ScIdle, Tx!ScReadInput,
         Tx!ScWriteOutput, Tx!innerFifos, Tx!CanRead
<1> DEFINE line == Tx!StatusLine("OK_200")
<1>4. /\ resp_status_code' \in Seq({"OK_200"}) /\ resp_status_line' \in Seq({line})
      /\ tx_sc' \in [state : {"IDLE", "READ_INPUT", "WRITE_OUTPUT"}, status_code : {"OK_200", Unset}]
      /\ tx_sc'.state = "WRITE_OUTPUT" => tx_sc'.status_code = "OK_200"
  <2> HIDE DEF line
  <2>1. CASE tx_sc.state = "WRITE_OUTPUT" /\ tx_sc' = [tx_sc EXCEPT !.state = "IDLE"]
             /\ resp_status_line' = Append(resp_status_line, Tx!StatusLine(tx_sc.status_code))
             /\ UNCHANGED resp_status_code
    <3>1. resp_status_line' = Append(resp_status_line, line)
      BY <1>2, <2>1 DEF line
    <3> QED BY <1>2, <2>1, <3>1 DEF line
  <2>2. CASE tx_sc' = [tx_sc EXCEPT !.state = "READ_INPUT"]
             /\ UNCHANGED <<resp_status_code, resp_status_line>>
    BY <1>2, <2>2 DEF line
  <2>3. CASE /\ tx_sc' = [state |-> "WRITE_OUTPUT", status_code |-> Head(resp_status_code)]
             /\ resp_status_code # <<>> /\ resp_status_code' = Tail(resp_status_code)
             /\ UNCHANGED resp_status_line
    BY <1>2, <2>3 DEF line
  <2> QED BY <1>3, <2>1, <2>2, <2>3
<1>5. StatusOK'
  BY <1>1, <1>4 DEF MockInv, StatusOK
<1> QED BY <1>1, <1>5, TxTypesFrame
    DEF MockInv, ServerFifosOK, TxOK, PlacedOK, AlignerOK, MockOK, mockVars, rxMockVars, txMockVars,
        alVars, listenVars

\* What a step of rx_mock keeps of the types.
LEMMA RxMockTypesFrame ==
  ASSUME MockInv, RxMock, TcpFifosOK', notified' \in Seq(Notification), served' \in Seq(Transfer),
         rx_mock' \in {"IDLE", "NOTIFICATION", "META", "META_HANDSHAKE", "DATA_HEADLINE",
                       "DATA_PAYLOAD", "DATA_PAYLOAD2"}
  PROVE  MockInv'
<1>1. /\ UNCHANGED <<sm, hp, pp, inFifos, appFifos, app, rx_left>> /\ UNCHANGED <<txVars, consume, produce>>
      /\ UNCHANGED <<txMockVars, alVars, listenVars>>
  BY DEF RxMock, RxMockIdle, RxMockNotification, RxMockMeta, RxMockMetaHandshake, RxMockData,
         RxMockOnly
<1>2. TypeInv' /\ rx_left' = 0
  <2>1. InFifosOK' /\ AppFifosOK' /\ SmOK' /\ HpOK' /\ PpOK'
    BY <1>1 DEF MockInv, TypeInv, TypeOK, InFifosOK, AppFifosOK, SmOK, HpOK, PpOK, inFifos, appFifos
  <2>2. EnvironmentOK' /\ TransferKnown' /\ rx_left' = 0
    BY <1>1 DEF MockInv, TypeInv, TypeOK, EnvironmentOK, TransferKnown
  <2>3. RegistersWritten'
    BY <1>1 DEF MockInv, TypeInv, RegistersWritten
  <2> QED BY <2>1, <2>2, <2>3 DEF TypeInv, TypeOK
<1> QED BY <1>1, <1>2
    DEF MockInv, ServerFifosOK, ConsumeOK, ProduceOK, TxOK, PlacedOK, StatusOK, AlignerOK, MockOK,
        ListenOK, txVars, txMockVars, alVars, listenVars

\* rx_mock.
LEMMA RxMockTypes == ASSUME MockInv, RxMock PROVE MockInv'
<1> USE DepthAssumption
<1>1. /\ TcpFifosOK /\ notified \in Seq(Notification) /\ served \in Seq(Transfer)
  BY DEF MockInv, TypeInv, TypeOK, EnvironmentOK
<1>2. CASE RxMockIdle
  BY <1>1, <1>2, RxMockTypesFrame DEF RxMockIdle, RxMock, TcpFifosOK, tcpFifos
<1>3. CASE RxMockNotification
  <2>1. TcpFifosOK'
    BY <1>1, <1>3, MockValues, FifoAppend DEF RxMockNotification, TcpFifosOK
  <2>2. notified' \in Seq(Notification) /\ served' = served /\ rx_mock' = "META"
    BY <1>1, <1>3, MockValues DEF RxMockNotification
  <2> QED BY <1>1, <1>3, <2>1, <2>2, RxMockTypesFrame DEF RxMock
<1>4. CASE RxMockMeta
  <2>1. TcpFifosOK'
    BY <1>1, <1>4, FifoTail DEF RxMockMeta, TcpFifosOK
  <2> QED BY <1>1, <1>4, <2>1, RxMockTypesFrame DEF RxMock, RxMockMeta
<1>5. CASE RxMockMetaHandshake
  <2>1. TcpFifosOK'
    BY <1>1, <1>5, FifoAppend DEF RxMockMetaHandshake, TcpFifosOK
  <2>2. served' \in Seq(Transfer) /\ notified' = notified /\ rx_mock' = "DATA_HEADLINE"
    BY <1>1, <1>5, MockValues DEF RxMockMetaHandshake
  <2> QED BY <1>1, <1>5, <2>1, <2>2, RxMockTypesFrame DEF RxMock
<1>6. CASE RxMockData
  <2>1. PICK w \in MockWords :
          /\ rx_mock' = w[2] /\ CanWrite(tcp_rx_data, PortDepth)
          /\ tcp_rx_data' =
               Append(tcp_rx_data,
                      [data |-> [req |-> Len(served), pos |-> w[3],
                                 text |-> IF w[3] = 1 THEN MOCK_HEADLINE ELSE Blank],
                       last |-> w[4]])
    BY <1>6 DEF RxMockData
  <2>2. w[2] \in {"DATA_PAYLOAD", "DATA_PAYLOAD2", "IDLE"} /\ w[3] \in Nat /\ w[4] \in BOOLEAN
    <3>1. CASE w = <<"DATA_HEADLINE", "DATA_PAYLOAD", 1, FALSE>>
      BY <3>1
    <3>2. CASE w = <<"DATA_PAYLOAD", "DATA_PAYLOAD2", 2, FALSE>>
      BY <3>2
    <3>3. CASE w = <<"DATA_PAYLOAD2", "IDLE", 3, TRUE>>
      BY <3>3
    <3> QED BY <3>1, <3>2, <3>3 DEF MockWords
  <2>3. (IF w[3] = 1 THEN MOCK_HEADLINE ELSE Blank) \in Texts
    BY MockValues
  <2> DEFINE text == IF w[3] = 1 THEN MOCK_HEADLINE ELSE Blank
             beat == [data |-> [req |-> Len(served), pos |-> w[3], text |-> text], last |-> w[4]]
  <2>4. beat \in Beat
    <3>1. text \in Texts /\ Len(served) \in Nat
      BY <1>1, <2>3
    <3> HIDE DEF text
    <3> QED BY <2>2, <3>1 DEF Beat, Data
  <2>5. TcpFifosOK'
    <3>1. tcp_rx_data' = Append(tcp_rx_data, beat)
      BY <2>1
    <3> HIDE DEF beat
    <3>2. IsFifo(tcp_rx_data', Beat, PortDepth)
      BY <1>1, <2>1, <2>4, <3>1, FifoAppend DEF TcpFifosOK
    <3> QED BY <1>1, <1>6, <3>2 DEF RxMockData, TcpFifosOK
  <2>6. served' = served /\ notified' = notified
    BY <1>6 DEF RxMockData
  <2> QED BY <1>1, <1>6, <2>1, <2>2, <2>5, <2>6, RxMockTypesFrame DEF RxMock
<1> QED BY <1>2, <1>3, <1>4, <1>5, <1>6 DEF RxMock

\* listen_port, and a step that changes nothing.
LEMMA ListenTypes == ASSUME MockInv, Listen \/ UNCHANGED systemVars PROVE MockInv'
<1>1. /\ UNCHANGED rxVars /\ UNCHANGED <<txVars, consume, produce>>
      /\ UNCHANGED <<rxMockVars, txMockVars, alVars>>
  BY DEF Listen, ListenRequestHandler, ListenResponseHandler, ListenPortHandler, systemVars,
         serverVars, mockVars
<1>2. TypeInv' /\ rx_left' = 0
  <2>1. UNCHANGED vars
    BY <1>1 DEF rxVars
  <2> QED BY <2>1, TypeStep DEF MockInv, vars, tcpStack
<1>3. ListenOK'
  <2> USE DepthAssumption DEF MockInv, ListenOK
  <2>1. CASE ListenRequestHandler
    BY <2>1, FifoAppend DEF ListenRequestHandler
  <2>2. CASE ListenResponseHandler
    BY <2>2, FifoTail DEF ListenResponseHandler
  <2>3. CASE ListenPortHandler
    <3>1. Head(tcp_listen_req) = 80 /\ IsFifo(tcp_listen_req', {80}, PortDepth)
      <4>1. Head(tcp_listen_req) \in {80} /\ IsFifo(Tail(tcp_listen_req), {80}, PortDepth)
        BY <2>3, FifoTail DEF ListenPortHandler
      <4> QED BY <2>3, <4>1 DEF ListenPortHandler
    <3>2. tcp_listen_rsp' = Append(tcp_listen_rsp, TRUE) /\ CanWrite(tcp_listen_rsp, PortDepth)
      BY <2>3, <3>1 DEF ListenPortHandler
    <3> QED BY <3>1, <3>2, FifoAppend
  <2>4. CASE UNCHANGED systemVars
    BY <2>4 DEF systemVars, mockVars, listenVars
  <2> QED BY <2>1, <2>2, <2>3, <2>4 DEF Listen
<1> QED BY <1>1, <1>2, <1>3
    DEF MockInv, ServerFifosOK, ConsumeOK, ProduceOK, TxOK, PlacedOK, StatusOK, AlignerOK, MockOK,
        txVars, rxMockVars, txMockVars, alVars

\* What a step of tx_mock, or of response_aligner, keeps of the types.
LEMMA TailTypesFrame ==
  ASSUME MockInv, UNCHANGED rxVars, UNCHANGED <<consume, produce, rxMockVars, listenVars>>,
         UNCHANGED <<http_response, http_response_headers, http_response_body, resp_status_code,
                     resp_status_line, tx_sm, tx_sc>>,
         tcp_tx_req' \in Seq(Tx!TxRequest), tcp_tx_rsp' \in Seq(Tx!TxAnswer),
         settled' \in Seq([sessionID : Sessions, length : Nat, outcome : {"accepted", "closed"}]),
         tx_aligner' \in Seq(PlacedWord), AlignerOK', MockOK'
  PROVE  MockInv'
<1>1. ServerFifosOK' /\ TxOK' /\ PlacedOK' /\ StatusOK'
  BY DEF MockInv, ServerFifosOK, TxOK, PlacedOK, StatusOK
<1> QED BY <1>1, TxTypesFrame

\* The bytes tx_mock takes from a word.
LEMMA BytesTaken ==
  ASSUME NEW word \in Al!Word
  PROVE  /\ BytesOf(word) \in Seq(Nat)
         /\ Len(BytesOf(word)) = Al!keepToLen(word.keep)
         /\ \A i \in 1 .. Al!keepToLen(word.keep) : BytesOf(word)[i] = word.data[i - 1].pos
<1>1. WordBytes \in Nat /\ Al!keepToLen(word.keep) \in 0 .. WordBytes
  BY MockValues, KeptLanes
<1>2. \A i \in 0 .. WordBytes - 1 : word.data[i].pos \in Nat
  BY DEF Al!Word, Al!Lanes
<1> DEFINE n == Al!keepToLen(word.keep)
<1>3. n \in Nat /\ n <= WordBytes
  BY <1>1
<1> HIDE DEF n
<1>4. BytesOf(word) = [i \in 1 .. n |-> word.data[i - 1].pos]
  BY DEF BytesOf, n
<1>5. \A i \in 1 .. n : word.data[i - 1].pos \in Nat
  BY <1>1, <1>2, <1>3
<1> QED BY <1>3, <1>4, <1>5 DEF n

\* tx_mock.
LEMMA TxMockTypes == ASSUME MockInv, TxMock PROVE MockInv'
<1> USE DepthAssumption
<1>1. /\ UNCHANGED rxVars /\ UNCHANGED <<consume, produce, rxMockVars, listenVars>>
      /\ UNCHANGED <<http_response, http_response_headers, http_response_body, resp_status_code,
                     resp_status_line, tx_sm, tx_sc, tx_aligner, al>>
  BY DEF TxMock, TxMockIdle, TxMockHandshake, TxMockConsumeData, TxMockOnly
<1>2. /\ tcp_tx_req \in Seq(Tx!TxRequest) /\ tcp_tx_rsp \in Seq(Tx!TxAnswer)
      /\ settled \in Seq([sessionID : Sessions, length : Nat, outcome : {"accepted", "closed"}])
      /\ tx_aligner \in Seq(PlacedWord) /\ MockOK /\ AlignerOK
  BY DEF MockInv, TxOK, PlacedOK
<1>3. CASE TxMockIdle
  <2>1. /\ CanRead(tcp_tx_req) /\ tcp_tx_req' = Tail(tcp_tx_req)
        /\ settled' = Append(settled, [sessionID |-> Head(tcp_tx_req).sessionID,
                                       length |-> Head(tcp_tx_req).length, outcome |-> "accepted"])
        /\ tx_mock' = "HANDSHAKE" /\ received' = <<>>
        /\ tcp_tx_rsp' = tcp_tx_rsp /\ tcp_tx_data' = tcp_tx_data
    BY <1>3 DEF TxMockIdle
  <2>2. tcp_tx_req' \in Seq(Tx!TxRequest) /\ Head(tcp_tx_req) \in Tx!TxRequest
    BY <1>2, <2>1 DEF CanRead
  <2>3. [sessionID |-> Head(tcp_tx_req).sessionID, length |-> Head(tcp_tx_req).length,
         outcome |-> "accepted"] \in [sessionID : Sessions, length : Nat, outcome : {"accepted", "closed"}]
    BY <2>2 DEF Tx!TxRequest
  <2>4. settled' \in Seq([sessionID : Sessions, length : Nat, outcome : {"accepted", "closed"}])
    BY <1>2, <2>1, <2>3
  <2>5. MockOK' /\ AlignerOK'
    BY <1>1, <1>2, <2>1 DEF MockOK, AlignerOK, rxMockVars
  <2> QED BY <1>1, <1>2, <2>1, <2>2, <2>4, <2>5, TailTypesFrame
<1>4. CASE TxMockHandshake
  <2>1. /\ tcp_tx_rsp' = Append(tcp_tx_rsp, [sessionID |-> MockSession, error |-> 0])
        /\ tx_mock' = "CONSUME_DATA"
        /\ tcp_tx_req' = tcp_tx_req /\ settled' = settled /\ tcp_tx_data' = tcp_tx_data
        /\ received' = received
    BY <1>4 DEF TxMockHandshake
  <2>2. [sessionID |-> MockSession, error |-> 0] \in Tx!TxAnswer
    BY MockAssumption DEF Tx!TxAnswer
  <2>3. tcp_tx_rsp' \in Seq(Tx!TxAnswer)
    BY <1>2, <2>1, <2>2
  <2>4. MockOK' /\ AlignerOK'
    BY <1>1, <1>2, <2>1 DEF MockOK, AlignerOK, rxMockVars
  <2> QED BY <1>1, <1>2, <2>1, <2>3, <2>4, TailTypesFrame
<1>5. CASE TxMockConsumeData
  <2>1. /\ CanRead(tcp_tx_data) /\ tcp_tx_data' = Tail(tcp_tx_data)
        /\ received' = received \o BytesOf(Head(tcp_tx_data))
        /\ tx_mock' = IF Head(tcp_tx_data).last THEN "IDLE" ELSE "CONSUME_DATA"
        /\ tcp_tx_req' = tcp_tx_req /\ settled' = settled /\ tcp_tx_rsp' = tcp_tx_rsp
    BY <1>5 DEF TxMockConsumeData
  <2>2. IsFifo(tcp_tx_data', Al!Word, PortDepth) /\ Head(tcp_tx_data) \in Al!Word
    BY <1>2, <2>1, FifoTail DEF AlignerOK
  <2>3. received' \in Seq(Nat)
    <3>1. BytesOf(Head(tcp_tx_data)) \in Seq(Nat)
      BY <2>2, BytesTaken
    <3> QED BY <1>2, <2>1, <3>1 DEF MockOK
  <2>4. MockOK' /\ AlignerOK'
    <3>1. tx_mock' \in {"IDLE", "CONSUME_DATA"}
      BY <2>1
    <3> QED BY <1>1, <1>2, <2>2, <2>3, <3>1 DEF MockOK, AlignerOK, rxMockVars
  <2> QED BY <1>1, <1>2, <2>1, <2>4, TailTypesFrame
<1> QED BY <1>3, <1>4, <1>5 DEF TxMock

(***************************************************************************)
(* response_aligner, in the terms of the FIFO it reads                     *)
(***************************************************************************)

\* The words of a FIFO, lane by lane, are a FIFO of as many words.
LEMMA LanedFifo ==
  ASSUME NEW fifo \in Seq(PlacedWord), NEW lanes, lanes = [k \in DOMAIN fifo |-> Laned(fifo[k])]
  PROVE  /\ lanes \in Seq(Al!Word) /\ Len(lanes) = Len(fifo)
         /\ fifo # <<>> => lanes # <<>> /\ Head(lanes) = Laned(Head(fifo))
         /\ lanes # <<>> => fifo # <<>>
<1>1. DOMAIN fifo = 1 .. Len(fifo) /\ Len(fifo) \in Nat
  OBVIOUS
<1>2. \A k \in 1 .. Len(fifo) : Laned(fifo[k]) \in Al!Word
  BY LanedType
<1>3. lanes \in Seq(Al!Word) /\ Len(lanes) = Len(fifo)
  <2> DEFINE n == Len(fifo)
             f(k) == Laned(fifo[k])
  <2>1. n \in Nat /\ \A k \in 1 .. n : f(k) \in Al!Word
    BY <1>1, <1>2
  <2>2. lanes = [k \in 1 .. n |-> f(k)]
    BY <1>1
  <2> HIDE DEF n, f
  <2>3. lanes \in [1 .. n -> Al!Word]
    BY <2>1, <2>2
  <2>4. lanes \in Seq(Al!Word) /\ Len(lanes) = n
    BY <2>1, <2>3
  <2> QED BY <2>4 DEF n
<1>4. fifo # <<>> => Head(lanes) = Laned(Head(fifo))
  <2> SUFFICES ASSUME fifo # <<>> PROVE Head(lanes) = Laned(Head(fifo))
    OBVIOUS
  <2>1. Head(fifo) = fifo[1] /\ 1 \in DOMAIN fifo
    OBVIOUS
  <2>2. Head(lanes) = lanes[1]
    BY <1>3, <2>1
  <2> QED BY <2>1, <2>2
<1> QED BY <1>1, <1>3, <1>4

AlignerKeeps ==
  /\ UNCHANGED rxVars /\ UNCHANGED <<consume, produce, rxMockVars, txMockVars, listenVars>>
  /\ UNCHANGED <<http_response, http_response_headers, http_response_body, tcp_tx_req, tcp_tx_rsp,
                 resp_status_code, resp_status_line, tx_sm, tx_sc, settled>>
AlignerWakes ==
  /\ al.state = "IDLE" /\ tx_aligner # <<>>
  /\ al' = [al EXCEPT !.state = "PULL_FIRST"]
  /\ UNCHANGED <<tx_aligner, tcp_tx_data>>
AlignerFirst(word) ==
  /\ al.state = "PULL_FIRST" /\ tx_aligner # <<>>
  /\ al' = [state      |-> Al!AfterFirst(word.last, Al!keepToLen(word.keep) = WordBytes),
            prevLength |-> Al!keepToLen(word.keep),
            prevWord   |-> word]
  /\ tx_aligner' = Tail(tx_aligner) /\ UNCHANGED tcp_tx_data
AlignerNext(word, lanes, unwritten) ==
  LET offset     == Al!ap_uint6(al.prevLength)
      currLength == Al!keepToLen(word.keep)
      hasResidue == currLength + al.prevLength > WordBytes
      sendLength == Al!keepToLen(lanes.keep)
      isFull     == sendLength = WordBytes
      sendWord   == [data |-> lanes.data, keep |-> lanes.keep,
                     last |-> Al!LastSent(word.last, hasResidue)]
      shifted    == Al!shiftDown(offset, word)
      push       == word.last \/ isFull \/ hasResidue
  IN  /\ al.state = "PULL_N" /\ tx_aligner # <<>>
      /\ push => Len(tcp_tx_data) < PortDepth
      /\ tcp_tx_data' = IF push THEN Append(tcp_tx_data, sendWord) ELSE tcp_tx_data
      /\ al' = [state      |-> Al!AfterLast(word.last, hasResidue),
                prevLength |-> IF isFull THEN al.prevLength + currLength - WordBytes
                                         ELSE sendLength,
                prevWord   |-> IF isFull
                               THEN [data |-> shifted.data, keep |-> shifted.keep,
                                     last |-> unwritten]
                               ELSE sendWord]
      /\ tx_aligner' = Tail(tx_aligner)
AlignerSends ==
  /\ al.state = "RESIDUE" /\ Len(tcp_tx_data) < PortDepth
  /\ tcp_tx_data' = Append(tcp_tx_data, al.prevWord)
  /\ al' = [al EXCEPT !.state = "IDLE"]
  /\ UNCHANGED tx_aligner

\* A step of response_aligner is one of the four of its states.
LEMMA AlignerSteps ==
  ASSUME MockInv, AlignerStep
  PROVE  /\ AlignerKeeps
         /\ \/ AlignerWakes
            \/ AlignerFirst(Laned(Head(tx_aligner)))
            \/ \E lanes \in Al!alignWords(Al!ap_uint6(al.prevLength), al.prevWord, Laned(Head(tx_aligner))),
                  unwritten \in BOOLEAN :
                 AlignerNext(Laned(Head(tx_aligner)), lanes, unwritten)
            \/ AlignerSends
<1> DEFINE lanes  == [k \in DOMAIN tx_aligner |-> Laned(tx_aligner[k])]
           lanes2 == [k \in DOMAIN tx_aligner' |-> Laned(tx_aligner'[k])]
<1>1. AlignerKeeps
  BY DEF AlignerStep, AlignerKeeps
<1>2. tx_aligner \in Seq(PlacedWord)
  BY DEF MockInv, PlacedOK
<1>3. tx_aligner' = tx_aligner \/ tx_aligner' = SubSeq(tx_aligner, 2, Len(tx_aligner))
  BY DEF AlignerStep
<1>4. tx_aligner' \in Seq(PlacedWord)
  <2>1. SubSeq(tx_aligner, 2, Len(tx_aligner)) \in Seq(PlacedWord)
    BY <1>2
  <2> QED BY <1>2, <1>3, <2>1
<1>5. /\ lanes \in Seq(Al!Word) /\ Len(lanes) = Len(tx_aligner)
      /\ tx_aligner # <<>> => lanes # <<>> /\ Head(lanes) = Laned(Head(tx_aligner))
      /\ lanes # <<>> => tx_aligner # <<>>
  BY <1>2, LanedFifo
<1>6. Len(lanes2) = Len(tx_aligner')
  BY <1>4, LanedFifo
<1>7. lanes2 = lanes => tx_aligner' = tx_aligner
  <2> SUFFICES ASSUME lanes2 = lanes PROVE tx_aligner' = tx_aligner
    OBVIOUS
  <2>1. Len(tx_aligner') = Len(tx_aligner)
    BY <1>5, <1>6
  <2> HIDE DEF lanes, lanes2
  <2>2. CASE tx_aligner' = SubSeq(tx_aligner, 2, Len(tx_aligner))
    <3>1. CASE tx_aligner = <<>>
      BY <2>2, <3>1
    <3>2. CASE tx_aligner # <<>>
      BY <1>2, <2>1, <2>2, <3>2
    <3> QED BY <3>1, <3>2
  <2> QED BY <1>3, <2>2
<1>8. lanes # <<>> /\ lanes2 = Tail(lanes) => tx_aligner' = Tail(tx_aligner)
  <2> SUFFICES ASSUME lanes # <<>>, lanes2 = Tail(lanes) PROVE tx_aligner' = Tail(tx_aligner)
    OBVIOUS
  <2>1. tx_aligner # <<>> /\ Len(lanes) = Len(tx_aligner) /\ Len(lanes2) = Len(tx_aligner')
        /\ lanes \in Seq(Al!Word)
    BY <1>5, <1>6
  <2> HIDE DEF lanes, lanes2
  <2>2. Len(tx_aligner') = Len(tx_aligner) - 1
    BY <2>1
  <2>3. tx_aligner' # tx_aligner
    BY <1>2, <2>2
  <2>4. SubSeq(tx_aligner, 2, Len(tx_aligner)) = Tail(tx_aligner)
    BY <1>2, <2>1
  <2> QED BY <1>3, <2>3, <2>4
<1>9. CASE Al!AlIdle
  <2>1. /\ al.state = "IDLE" /\ lanes # <<>> /\ al' = [al EXCEPT !.state = "PULL_FIRST"]
        /\ lanes2 = lanes /\ tcp_tx_data' = tcp_tx_data
    BY <1>9 DEF Al!AlIdle
  <2> QED BY <1>1, <1>5, <1>7, <2>1 DEF AlignerWakes
<1>10. CASE Al!AlPullFirst
  <2>1. /\ al.state = "PULL_FIRST" /\ lanes # <<>> /\ lanes2 = Tail(lanes)
        /\ tcp_tx_data' = tcp_tx_data
        /\ al' = [state |-> Al!AfterFirst(Head(lanes).last, Al!keepToLen(Head(lanes).keep) = WordBytes),
                  prevLength |-> Al!keepToLen(Head(lanes).keep), prevWord |-> Head(lanes)]
    BY <1>10 DEF Al!AlPullFirst
  <2> QED BY <1>1, <1>5, <1>8, <2>1 DEF AlignerFirst
<1>11. CASE Al!AlPullN
  <2>1. /\ al.state = "PULL_N" /\ lanes # <<>> /\ lanes2 = Tail(lanes)
    BY <1>11 DEF Al!AlPullN
  <2>2. tx_aligner # <<>> /\ tx_aligner' = Tail(tx_aligner) /\ Head(lanes) = Laned(Head(tx_aligner))
    BY <1>5, <1>8, <2>1
  <2> DEFINE word == Head(lanes)
             offset     == Al!ap_uint6(al.prevLength)
             currLength == Al!keepToLen(word.keep)
             isLast     == word.last
             hasResidue == currLength + al.prevLength > WordBytes
  <2>3. PICK aligned_ \in Al!alignWords(offset, al.prevWord, word), unwritten \in BOOLEAN :
           LET sendLength == Al!keepToLen(aligned_.keep)
               isFull     == sendLength = WordBytes
               sendWord   == [data |-> aligned_.data, keep |-> aligned_.keep,
                              last |-> Al!LastSent(isLast, hasResidue)]
               shifted    == Al!shiftDown(offset, word)
               push       == isLast \/ isFull \/ hasResidue
           IN  /\ push => Len(tcp_tx_data) < PortDepth
               /\ tcp_tx_data' = IF push THEN Append(tcp_tx_data, sendWord) ELSE tcp_tx_data
               /\ al' = [state      |-> Al!AfterLast(isLast, hasResidue),
                         prevLength |-> IF isFull THEN al.prevLength + currLength - WordBytes
                                                  ELSE sendLength,
                         prevWord   |-> IF isFull
                                        THEN [data |-> shifted.data, keep |-> shifted.keep,
                                              last |-> unwritten]
                                        ELSE sendWord]
    BY <1>11 DEF Al!AlPullN
  <2>4. AlignerNext(Head(lanes), aligned_, unwritten)
    BY <2>1, <2>2, <2>3 DEF AlignerNext
  <2>5. /\ AlignerNext(Laned(Head(tx_aligner)), aligned_, unwritten)
        /\ aligned_ \in Al!alignWords(Al!ap_uint6(al.prevLength), al.prevWord, Laned(Head(tx_aligner)))
    BY <2>2, <2>3, <2>4
  <2> QED BY <1>1, <2>5
<1>12. CASE Al!AlResidue
  <2>1. /\ al.state = "RESIDUE" /\ Len(tcp_tx_data) < PortDepth /\ lanes2 = lanes
        /\ tcp_tx_data' = Append(tcp_tx_data, al.prevWord) /\ al' = [al EXCEPT !.state = "IDLE"]
    BY <1>12 DEF Al!AlResidue
  <2> QED BY <1>1, <1>7, <2>1 DEF AlignerSends
<1> QED BY <1>9, <1>10, <1>11, <1>12 DEF AlignerStep, Al!Aligner

\* The first n lanes count as n, or as all of them.
LEMMA CountedLanes ==
  ASSUME NEW n \in Nat
  PROVE  Al!keepToLen(Al!Contiguous(n)) = IF n <= WordBytes THEN n ELSE WordBytes
<1>1. WordBytes \in Nat /\ WordBytes >= 2
  BY MockValues
<1>2. CASE n = 0
  <2>1. Al!keepToLen(Al!Contiguous(n)) \in 0 .. WordBytes
    BY KeptLanes
  <2>2. SUFFICES ASSUME Al!keepToLen(Al!Contiguous(n)) > 0 PROVE FALSE
    BY <1>1, <1>2, <2>1
  <2> DEFINE m == Al!keepToLen(Al!Contiguous(n))
  <2>3. Al!Contiguous(n) = Al!Contiguous(m) /\ m > 0 /\ m \in Nat
    BY <2>1, <2>2, KeptLanes, <1>1
  <2> HIDE DEF m
  <2>4. 0 \in 0 .. WordBytes - 1
    BY <1>1
  <2>5. Al!Contiguous(n)[0] = (0 < n) /\ Al!Contiguous(m)[0] = (0 < m)
    BY <2>4 DEF Al!Contiguous, Al!Lanes
  <2> QED BY <1>2, <2>3, <2>5
<1>3. CASE n \in 1 .. WordBytes
  BY <1>1, <1>3, KeptLanes
<1>4. CASE n > WordBytes
  <2>1. Al!Contiguous(n) = Al!Contiguous(WordBytes)
    BY <1>1, <1>4 DEF Al!Contiguous, Al!Lanes
  <2> QED BY <1>1, <1>4, <2>1, KeptLanes
<1> QED BY <1>1, <1>2, <1>3, <1>4

\* What alignWords and shiftDown make of words are lanes of a word; alignWords
\* fills them all only with a word long enough.
LEMMA AlignedLanes ==
  ASSUME NEW offset \in 0 .. WordBytes - 1, NEW prev \in Al!Word, NEW curr \in Al!Word,
         NEW lanes \in Al!alignWords(offset, prev, curr)
  PROVE  /\ lanes.data \in [Al!Lanes -> [pkt : Nat, pos : Nat]]
         /\ lanes.keep \in [Al!Lanes -> BOOLEAN]
         /\ offset > 0 =>
              \A i \in 0 .. WordBytes - 1 :
                /\ lanes.data[i] = IF i < offset THEN prev.data[i] ELSE curr.data[i - offset]
                /\ lanes.keep[i] = IF i < offset THEN prev.keep[i] ELSE curr.keep[i - offset]
         /\ offset = 0 => \A i \in 1 .. WordBytes - 1 : lanes.keep[i] = curr.keep[i]
<1> DEFINE data == [i \in Al!Lanes |-> IF i < offset THEN prev.data[i] ELSE curr.data[i - offset]]
           keep == [i \in Al!Lanes |-> IF i < offset THEN prev.keep[i] ELSE curr.keep[i - offset]]
<1>1. WordBytes \in Nat /\ WordBytes >= 2 /\ Al!Lanes = 0 .. WordBytes - 1
  BY MockValues DEF Al!Lanes
<1>2. /\ prev.data \in [Al!Lanes -> [pkt : Nat, pos : Nat]] /\ prev.keep \in [Al!Lanes -> BOOLEAN]
      /\ curr.data \in [Al!Lanes -> [pkt : Nat, pos : Nat]] /\ curr.keep \in [Al!Lanes -> BOOLEAN]
  BY DEF Al!Word
<1>3. data \in [Al!Lanes -> [pkt : Nat, pos : Nat]]
  <2>1. ASSUME NEW i \in Al!Lanes
        PROVE  (IF i < offset THEN prev.data[i] ELSE curr.data[i - offset]) \in [pkt : Nat, pos : Nat]
    <3>1. i < offset \/ i - offset \in Al!Lanes
      BY <1>1
    <3> QED BY <1>2, <3>1
  <2> QED BY <2>1
<1>4. keep \in [Al!Lanes -> BOOLEAN]
  <2>1. ASSUME NEW i \in Al!Lanes
        PROVE  (IF i < offset THEN prev.keep[i] ELSE curr.keep[i - offset]) \in BOOLEAN
    <3>1. i < offset \/ i - offset \in Al!Lanes
      BY <1>1
    <3> QED BY <1>2, <3>1
  <2> QED BY <2>1
<1>5. CASE offset > 0
  <2>1. lanes = [data |-> data, keep |-> keep]
    BY <1>5 DEF Al!alignWords
  <2>2. \A i \in Al!Lanes :
          /\ data[i] = IF i < offset THEN prev.data[i] ELSE curr.data[i - offset]
          /\ keep[i] = IF i < offset THEN prev.keep[i] ELSE curr.keep[i - offset]
    OBVIOUS
  <2>3. lanes.data = data /\ lanes.keep = keep
    BY <2>1
  <2> HIDE DEF data, keep
  <2> QED BY <1>1, <1>3, <1>4, <1>5, <2>2, <2>3
<1>6. CASE offset = 0
  <2>1. ~(offset > 0)
    BY <1>6
  <2>2. PICK d \in {data[0], Al!NoByte}, k \in BOOLEAN :
          lanes = [data |-> [data EXCEPT ![0] = d], keep |-> [keep EXCEPT ![0] = k]]
    BY <2>1 DEF Al!alignWords
  <2>3. 0 \in Al!Lanes
    BY <1>1
  <2>4. d \in [pkt : Nat, pos : Nat]
    BY <1>3, <2>3 DEF Al!NoByte
  <2>5. \A i \in Al!Lanes : keep[i] = curr.keep[i]
    BY <1>1, <1>6
  <2>6. lanes.data = [data EXCEPT ![0] = d] /\ lanes.keep = [keep EXCEPT ![0] = k]
    BY <2>2
  <2> HIDE DEF data, keep
  <2>7. lanes.data \in [Al!Lanes -> [pkt : Nat, pos : Nat]] /\ lanes.keep \in [Al!Lanes -> BOOLEAN]
    BY <1>3, <1>4, <2>4, <2>6
  <2>8. \A i \in 1 .. WordBytes - 1 : lanes.keep[i] = curr.keep[i]
    BY <1>1, <1>4, <2>5, <2>6
  <2> QED BY <1>6, <2>7, <2>8
<1> QED BY <1>5, <1>6

\* ... and shiftDown.
LEMMA ShiftedLanes ==
  ASSUME NEW offset \in 0 .. WordBytes - 1, NEW curr \in Al!Word
  PROVE  /\ Al!shiftDown(offset, curr).data \in [Al!Lanes -> [pkt : Nat, pos : Nat]]
         /\ Al!shiftDown(offset, curr).keep \in [Al!Lanes -> BOOLEAN]
<1>1. WordBytes \in Nat /\ Al!Lanes = 0 .. WordBytes - 1
  BY MockValues DEF Al!Lanes
<1>2. curr.data \in [Al!Lanes -> [pkt : Nat, pos : Nat]] /\ curr.keep \in [Al!Lanes -> BOOLEAN]
  BY DEF Al!Word
<1>3. Al!NoByte \in [pkt : Nat, pos : Nat]
  BY DEF Al!NoByte
<1>4. \A i \in Al!Lanes : i + offset < WordBytes => i + offset \in Al!Lanes
  BY <1>1
<1> QED BY <1>2, <1>3, <1>4 DEF Al!shiftDown

\* response_aligner.
LEMMA AlignerTypes == ASSUME MockInv, AlignerStep PROVE MockInv'
<1>1. WordBytes \in Nat /\ WordBytes >= 2 /\ Al!Lanes = 0 .. WordBytes - 1
  BY MockValues DEF Al!Lanes
<1>2. AlignerKeeps
  BY AlignerSteps
<1>3. /\ tx_aligner \in Seq(PlacedWord) /\ AlignerOK /\ MockOK
      /\ al \in [state : {"IDLE", "PULL_FIRST", "PULL_N", "RESIDUE"},
                 prevLength : 0 .. WordBytes, prevWord : Al!Word]
      /\ IsFifo(tcp_tx_data, Al!Word, PortDepth)
  BY DEF MockInv, PlacedOK, AlignerOK
<1>4. tx_aligner' = tx_aligner \/ (tx_aligner # <<>> /\ tx_aligner' = Tail(tx_aligner))
  BY AlignerSteps DEF AlignerWakes, AlignerFirst, AlignerNext, AlignerSends
<1>5. tx_aligner' \in Seq(PlacedWord)
  BY <1>3, <1>4, WordTaken
<1>6. AlignerOK'
  <2>1. CASE AlignerWakes
    BY <1>3, <2>1 DEF AlignerWakes, AlignerOK
  <2>2. CASE AlignerFirst(Laned(Head(tx_aligner)))
    <3>1. Laned(Head(tx_aligner)) \in Al!Word
      BY <1>3, <2>2, WordTaken, LanedType DEF AlignerFirst
    <3> DEFINE word == Laned(Head(tx_aligner))
               length == Al!keepToLen(word.keep)
    <3>2. length \in 0 .. WordBytes
      BY KeptLanes
    <3>3. Al!AfterFirst(word.last, length = WordBytes) \in {"PULL_N", "RESIDUE"}
      BY DEF Al!AfterFirst
    <3>4. /\ al' = [state |-> Al!AfterFirst(word.last, length = WordBytes), prevLength |-> length,
                    prevWord |-> word]
          /\ tcp_tx_data' = tcp_tx_data
      BY <2>2 DEF AlignerFirst
    <3> HIDE DEF word, length
    <3>5. word \in Al!Word
      BY <3>1 DEF word
    <3> QED BY <1>3, <3>2, <3>3, <3>4, <3>5 DEF AlignerOK
  <2>3. ASSUME NEW lanes \in Al!alignWords(Al!ap_uint6(al.prevLength), al.prevWord, Laned(Head(tx_aligner))),
               NEW unwritten \in BOOLEAN,
               AlignerNext(Laned(Head(tx_aligner)), lanes, unwritten)
        PROVE  AlignerOK'
    <3> DEFINE word == Laned(Head(tx_aligner))
               offset == Al!ap_uint6(al.prevLength)
               currLength == Al!keepToLen(word.keep)
               hasResidue == currLength + al.prevLength > WordBytes
               sendLength == Al!keepToLen(lanes.keep)
               isFull == sendLength = WordBytes
               sendWord == [data |-> lanes.data, keep |-> lanes.keep,
                            last |-> Al!LastSent(word.last, hasResidue)]
               shifted == Al!shiftDown(offset, word)
               left == [data |-> shifted.data, keep |-> shifted.keep, last |-> unwritten]
               push == word.last \/ isFull \/ hasResidue
               b == Head(tx_aligner).bytes
    <3>1. /\ word \in Al!Word /\ word.keep = Al!Contiguous(b) /\ b \in Nat
      BY <1>3, <2>3, WordTaken, LanedType DEF AlignerNext, PlacedWord, Tx!Word
    <3>2. offset \in 0 .. WordBytes - 1 /\ (al.prevLength < WordBytes => offset = al.prevLength)
          /\ (al.prevLength = WordBytes => offset = 0)
      <4>1. al.prevLength \in 0 .. WordBytes
        BY <1>3
      <4>2. al.prevLength < WordBytes => al.prevLength % WordBytes = al.prevLength
        BY <1>1, <4>1
      <4>3. WordBytes % WordBytes = 0
        BY <1>1
      <4> QED BY <1>1, <4>1, <4>2, <4>3 DEF Al!ap_uint6
    <3>3. currLength = (IF b <= WordBytes THEN b ELSE WordBytes) /\ currLength \in 0 .. WordBytes
      BY <1>1, <3>1, CountedLanes
    <3>4. /\ lanes.data \in [Al!Lanes -> [pkt : Nat, pos : Nat]]
          /\ lanes.keep \in [Al!Lanes -> BOOLEAN]
          /\ offset > 0 => \A i \in 0 .. WordBytes - 1 :
                lanes.keep[i] = IF i < offset THEN al.prevWord.keep[i] ELSE word.keep[i - offset]
          /\ offset = 0 => \A i \in 1 .. WordBytes - 1 : lanes.keep[i] = word.keep[i]
      BY <1>3, <2>3, <3>1, <3>2, AlignedLanes
    <3>5. sendLength \in 0 .. WordBytes
      BY KeptLanes
    <3>6. isFull => currLength >= WordBytes - offset
      <4> SUFFICES ASSUME isFull PROVE currLength >= WordBytes - offset
        OBVIOUS
      <4>1. lanes.keep = Al!Contiguous(WordBytes)
        BY <1>1, <3>5, KeptLanes
      <4>2. lanes.keep[WordBytes - 1]
        <5>1. WordBytes - 1 \in Al!Lanes /\ WordBytes - 1 < WordBytes
          BY <1>1
        <5>2. Al!Contiguous(WordBytes)[WordBytes - 1] = (WordBytes - 1 < WordBytes)
          BY <5>1 DEF Al!Contiguous
        <5> QED BY <4>1, <5>1, <5>2
      <4>3. word.keep[WordBytes - 1 - offset]
        BY <1>1, <3>2, <3>4, <4>2
      <4>4. WordBytes - 1 - offset \in Al!Lanes
        BY <1>1, <3>2
      <4>5. WordBytes - 1 - offset < b
        BY <3>1, <4>3, <4>4 DEF Al!Contiguous
      <4> QED BY <1>1, <3>1, <3>2, <3>3, <4>5
    <3>7. shifted.data \in [Al!Lanes -> [pkt : Nat, pos : Nat]] /\ shifted.keep \in [Al!Lanes -> BOOLEAN]
      BY <3>1, <3>2, ShiftedLanes
    <3>8. Al!LastSent(word.last, hasResidue) \in BOOLEAN /\ word.last \in BOOLEAN
      BY <3>1 DEF Al!LastSent, Al!Word
    <3>9. sendWord \in Al!Word /\ left \in Al!Word
      <4> HIDE DEF shifted, hasResidue, word
      <4> QED BY <3>4, <3>7, <3>8 DEF Al!Word
    <3>10. Al!AfterLast(word.last, hasResidue) \in {"PULL_N", "RESIDUE", "IDLE"}
      BY DEF Al!AfterLast
    <3>11. /\ push => Len(tcp_tx_data) < PortDepth
           /\ tcp_tx_data' = IF push THEN Append(tcp_tx_data, sendWord) ELSE tcp_tx_data
           /\ al' = [state |-> Al!AfterLast(word.last, hasResidue),
                     prevLength |-> IF isFull THEN al.prevLength + currLength - WordBytes ELSE sendLength,
                     prevWord |-> IF isFull THEN left ELSE sendWord]
      BY <2>3 DEF AlignerNext
    <3>12. (IF isFull THEN al.prevLength + currLength - WordBytes ELSE sendLength) \in 0 .. WordBytes
      <4> HIDE DEF currLength, sendLength, offset
      <4>1. al.prevLength \in 0 .. WordBytes
        BY <1>3
      <4> QED BY SMTT(30), <1>1, <3>2, <3>3, <3>5, <3>6, <4>1
    <3> HIDE DEF sendWord, left, push, isFull, currLength, sendLength, hasResidue
    <3>13. IsFifo(tcp_tx_data', Al!Word, PortDepth)
      <4>1. CASE push
        BY <1>3, <3>9, <3>11, <4>1, FifoAppend, DepthAssumption DEF CanWrite
      <4>2. CASE ~push
        BY <1>3, <3>11, <4>2
      <4> QED BY <4>1, <4>2
    <3>14. (IF isFull THEN left ELSE sendWord) \in Al!Word
      BY <3>9
    <3> QED BY <3>10, <3>11, <3>12, <3>13, <3>14 DEF AlignerOK
  <2>4. CASE AlignerSends
    <3>1. IsFifo(tcp_tx_data', Al!Word, PortDepth)
      BY <1>3, <2>4, FifoAppend, DepthAssumption DEF AlignerSends, CanWrite
    <3> QED BY <1>3, <2>4, <3>1 DEF AlignerSends, AlignerOK
  <2> QED BY AlignerSteps, <2>1, <2>2, <2>3, <2>4
<1>7. MockOK'
  BY <1>2, <1>3 DEF MockOK, AlignerKeeps, rxMockVars, txMockVars
<1>8. /\ tcp_tx_req' \in Seq(Tx!TxRequest) /\ tcp_tx_rsp' \in Seq(Tx!TxAnswer)
      /\ settled' \in Seq([sessionID : Sessions, length : Nat, outcome : {"accepted", "closed"}])
  BY <1>2 DEF AlignerKeeps, MockInv, TxOK
<1> QED BY <1>2, <1>5, <1>6, <1>7, <1>8, TailTypesFrame DEF AlignerKeeps

\* Every step keeps the types.
LEMMA MockTypesStep == MockInv /\ [MockNext]_systemVars => MockInv'
<1> SUFFICES ASSUME MockInv, [MockNext]_systemVars PROVE MockInv'
  OBVIOUS
<1>1. CASE HttpStep(TxStateMachine)
  BY <1>1, TxSmIdleTypes, TxSmTcpReqTypes, TxSmTcpRspTypes, TxSmDataHttpStatusTypes,
     TxSmDataHeadersTypes, TxSmDataCrlfTypes, TxSmDataBodyTypes, TxSmFlushTypes
     DEF HttpStep, TxStateMachine, TxStep, Tx!StateMachine
<1> QED BY <1>1, StepCases, RxStepTypes, TxStatusCodeParserTypes, NotifyTypes, ConsumeTypes,
           ProduceTypes, AlignerTypes, RxMockTypes, TxMockTypes, ListenTypes

\* ... and so they hold always.
LEMMA MockTypes == MockSpec => []MockInv
BY TypesInitially, MockTypesStep, PTL DEF MockSpec

\* The FIFOs and registers of the response path are used by the response path,
\* the aligner and tx_mock alone.
LEMMA MockTxPathFrame ==
  ASSUME TxPathOK,
         \/ HttpStep(RxStateMachine) \/ HttpStep(RxHeadlineParser) \/ HttpStep(RxRequestIssuer)
         \/ HttpStep(RxPayloadParser) \/ HttpStep(ProcessNotify) \/ HttpStep(ConsumeRequest)
         \/ HttpStep(ProduceResponse) \/ RxMock \/ Listen \/ UNCHANGED systemVars
  PROVE  TxPathOK'
<1>1. CASE \/ HttpStep(RxStateMachine) \/ HttpStep(RxHeadlineParser) \/ HttpStep(RxRequestIssuer)
           \/ HttpStep(RxPayloadParser) \/ HttpStep(ConsumeRequest)
  <2>1. UNCHANGED txVars
    BY <1>1 DEF HttpStep, RxStateMachine, RxHeadlineParser, RxRequestIssuer, RxPayloadParser, RxStep,
                ConsumeRequest, ConsumeHeaders, ConsumeBody
  <2> QED BY <2>1, TxPathFrame DEF txVars, txPathVars
<1>2. CASE HttpStep(ProcessNotify) \/ HttpStep(ProduceResponse)
  BY <1>2, TxPathFrame DEF HttpStep, ProcessNotify, ProduceResponse, ProduceHeaders, ProduceBody,
                           txPathVars
<1>3. CASE RxMock
  <2>1. UNCHANGED txVars
    BY <1>3 DEF RxMock, RxMockIdle, RxMockNotification, RxMockMeta, RxMockMetaHandshake, RxMockData,
                RxMockOnly
  <2> QED BY <2>1, TxPathFrame DEF txVars, txPathVars
<1>4. CASE Listen \/ UNCHANGED systemVars
  <2>1. UNCHANGED txVars
    BY <1>4, ListenLeaves
  <2> QED BY <2>1, TxPathFrame DEF txVars, txPathVars
<1> QED BY <1>1, <1>2, <1>3, <1>4

\* The aligner takes a word, or leaves the FIFO alone.
LEMMA MockTxPathAligner == ASSUME TxPathOK, AlignerStep PROVE TxPathOK'
<1>1. /\ UNCHANGED <<tcp_tx_req, tcp_tx_rsp, resp_status_code, resp_status_line, tx_sc, aligned>>
      /\ tx_aligner' = tx_aligner \/ tx_aligner' = SubSeq(tx_aligner, 2, Len(tx_aligner))
  BY DEF AlignerStep
<1>2. tx_aligner \in Seq(Tx!Word) /\ Len(tx_aligner) <= InnerDepth
  BY DEF TxPathOK, IsFifo
<1> DEFINE rest == SubSeq(tx_aligner, 2, Len(tx_aligner))
<1>3. rest \in Seq(Tx!Word) /\ Len(rest) <= Len(tx_aligner)
  BY <1>2
<1>4. IsFifo(tx_aligner', Tx!Word, InnerDepth)
  <2>1. Len(rest) \in Nat /\ Len(tx_aligner) \in Nat /\ InnerDepth \in Nat
    BY <1>2, <1>3, InnerAssumption
  <2> HIDE DEF rest
  <2>2. Len(rest) <= InnerDepth
    BY <1>2, <1>3, <2>1
  <2> QED BY <1>1, <1>2, <1>3, <2>2 DEF IsFifo, rest
<1> QED BY <1>1, <1>4 DEF TxPathOK

\* tx_mock takes a request and answers it.
LEMMA MockTxPathStack == ASSUME TxPathOK, TxOK, TxMock PROVE TxPathOK'
<1>1. UNCHANGED <<tx_aligner, resp_status_code, resp_status_line, tx_sc, aligned>>
  BY DEF TxMock, TxMockIdle, TxMockHandshake, TxMockConsumeData, TxMockOnly
<1>2. tcp_tx_req \in Seq(Tx!TxRequest) /\ tcp_tx_rsp \in Seq(Tx!TxAnswer)
  BY DEF TxOK
<1>3. Len(tcp_tx_req) <= PortDepth /\ Len(tcp_tx_rsp) <= PortDepth
  BY DEF TxPathOK
<1>4. \/ tcp_tx_req' = tcp_tx_req
      \/ tcp_tx_req # <<>> /\ tcp_tx_req' = Tail(tcp_tx_req)
  BY DEF TxMock, TxMockIdle, TxMockHandshake, TxMockConsumeData, CanRead
<1>5. \/ tcp_tx_rsp' = tcp_tx_rsp
      \/ Len(tcp_tx_rsp) < PortDepth /\ \E answer : tcp_tx_rsp' = Append(tcp_tx_rsp, answer)
  BY DEF TxMock, TxMockIdle, TxMockHandshake, TxMockConsumeData, CanWrite
<1>6. Len(tcp_tx_req') <= PortDepth
  <2>1. tcp_tx_req # <<>> => Len(Tail(tcp_tx_req)) = Len(tcp_tx_req) - 1 /\ Len(tcp_tx_req) \in Nat
    BY <1>2
  <2> QED BY <1>3, <1>4, <2>1, DepthAssumption
<1>7. Len(tcp_tx_rsp') <= PortDepth
  <2>1. \A answer : Len(Append(tcp_tx_rsp, answer)) = Len(tcp_tx_rsp) + 1
    BY <1>2
  <2>2. Len(tcp_tx_rsp) \in Nat
    BY <1>2
  <2> QED BY <1>3, <1>5, <2>1, <2>2, DepthAssumption
<1> QED BY <1>1, <1>6, <1>7 DEF TxPathOK

\* Every step keeps the types of the response path.
LEMMA MockTxPath == MockInv /\ TxPathOK /\ [MockNext]_systemVars => TxPathOK'
<1> SUFFICES ASSUME MockInv, TxPathOK, [MockNext]_systemVars PROVE TxPathOK'
  OBVIOUS
<1>1. ServerFifosOK /\ TxOK
  BY DEF MockInv
<1>2. CASE HttpStep(TxStateMachine) \/ HttpStep(TxStatusCodeParser)
  BY <1>1, <1>2, TxPathStep DEF HttpStep, TxStateMachine, TxStatusCodeParser, TxStep
<1> QED BY <1>1, <1>2, StepCases, MockTxPathFrame, MockTxPathAligner, MockTxPathStack

\* The whole emulation system holds values of its types, in the FIFOs, the
\* registers, the lanes of the aligner and the records of the mock, and no FIFO
\* more than its depth, those within the response path included: for every word
\* size, every depth and any number of rounds, and whatever the sizes of the
\* application are.
THEOREM MockTypeCorrect == MockSpec => []MockTypeOK
<1>1. MockInv /\ TxPathOK => MockTypeOK
  <2> SUFFICES ASSUME MockInv, TxPathOK PROVE MockTypeOK
    OBVIOUS
  <2>1. Tx!PathTypeOK
    BY TxPathTyped DEF MockInv
  <2> QED BY <2>1 DEF MockInv, TypeInv, MockTypeOK, ServerTypeOK, ConsumeOK, ProduceOK, AlignerOK,
                      MockOK, ListenOK
<1>2. MockInit => TxPathOK
  BY TxPathInit DEF MockInit
<1> QED BY <1>1, <1>2, MockTxPath, MockTypes, PTL DEF MockSpec

-----------------------------------------------------------------------------
(***************************************************************************)
(* The rounds of rx_mock and state_machine                                 *)
(***************************************************************************)

\* A FIFO without its head,
LEMMA Shorter ==
  ASSUME NEW S, NEW s \in Seq(S), NEW t, s # <<>>, t = Tail(s)
  PROVE  /\ t \in Seq(S) /\ Len(s) \in Nat /\ Len(s) > 0 /\ Len(t) = Len(s) - 1
         /\ Head(s) = s[1] /\ s[1] \in S
         /\ \A i \in 1 .. Len(t) : t[i] = s[i + 1] /\ i + 1 \in 1 .. Len(s)
OBVIOUS

\* ... and with one more element.
LEMMA Longer ==
  ASSUME NEW S, NEW s \in Seq(S), NEW e, NEW t, t = Append(s, e)
  PROVE  /\ Len(s) \in Nat /\ Len(t) = Len(s) + 1
         /\ \A i \in 1 .. Len(t) : (i \in 1 .. Len(s) /\ t[i] = s[i]) \/ (i = Len(s) + 1 /\ t[i] = e)
<1>1. Len(s) \in Nat /\ Len(t) = Len(s) + 1 /\ (\A i \in 1 .. Len(s) : t[i] = s[i]) /\ t[Len(s) + 1] = e
  BY AppendFacts
<1>2. \A i \in 1 .. Len(s) + 1 : i \in 1 .. Len(s) \/ i = Len(s) + 1
  BY <1>1
<1> QED BY <1>1, <1>2

\* The parts of the exchange are FIFOs and states.
LEMMA ExchangeFacts ==
  ASSUME MockInv
  PROVE  /\ tcp_notification \in Seq(Notification) /\ tcp_rx_req \in Seq(ReadRequest)
         /\ tcp_rx_rsp \in Seq(Nat) /\ tcp_rx_data \in Seq(Beat)
         /\ notified \in Seq(Notification) /\ served \in Seq(Transfer)
         /\ Len(tcp_notification) \in Nat /\ Len(tcp_rx_req) \in Nat /\ Len(tcp_rx_rsp) \in Nat
         /\ Len(tcp_rx_data) \in Nat /\ Len(notified) \in Nat /\ Len(served) \in Nat
         /\ sm.state \in {"IDLE", "NOTIFICATION", "HANDSHAKE", "DATA_HEADLINE", "DATA_PAYLOAD"}
         /\ rx_mock \in {"IDLE", "NOTIFICATION", "META", "META_HANDSHAKE", "DATA_HEADLINE",
                         "DATA_PAYLOAD", "DATA_PAYLOAD2"}
BY DEF MockInv, TypeInv, TypeOK, TcpFifosOK, SmOK, EnvironmentOK, IsFifo, MockOK

\* state_machine reads what rx_mock has written.
LEMMA SmExchange ==
  ASSUME MockInv, Exchange, HttpStep(RxStateMachine)
  PROVE  Exchange'
<1> USE DEF Exchange
<1>1. /\ UNCHANGED <<rx_mock, notified, served>>
  BY RxStateMachineLeaves
<1>2. sm \in [state : {"IDLE", "NOTIFICATION", "HANDSHAKE", "DATA_HEADLINE", "DATA_PAYLOAD"},
              sessionID : Sessions \cup {Unset},
              hasHeaders : BOOLEAN \cup {Unset}, hasBody : BOOLEAN \cup {Unset}]
  BY DEF MockInv, TypeInv, TypeOK, SmOK
<1>3. CASE SmIdle
  <2>1. sm.state = "IDLE" /\ sm'.state = "NOTIFICATION" /\ Len(tcp_notification) > 0
        /\ UNCHANGED <<tcp_notification, tcp_rx_req, tcp_rx_rsp, tcp_rx_data>>
    BY <1>2, <1>3, ExchangeFacts DEF SmIdle, CanRead, tcpFifos
  <2> QED BY <1>1, <2>1, ExchangeFacts
      DEF ExchangeCounted, MockNotifications, LastInFlight, Awaiting, Drawn, Delivered, One
<1>4. CASE SmNotificationData
  <2>1. sm.state = "NOTIFICATION" /\ sm'.state = "HANDSHAKE"
        /\ UNCHANGED <<tcp_rx_rsp, tcp_rx_data>>
    BY <1>4 DEF SmNotificationData
  <2>2. Len(tcp_rx_req') = Len(tcp_rx_req) + 1
    BY <1>4, Longer, ExchangeFacts DEF SmNotificationData
  <2>3. /\ Len(tcp_notification) > 0 /\ Len(tcp_notification') = Len(tcp_notification) - 1
        /\ \A i \in 1 .. Len(tcp_notification') :
              tcp_notification'[i] = tcp_notification[i + 1] /\ i + 1 \in 1 .. Len(tcp_notification)
    BY <1>4, Shorter, ExchangeFacts DEF SmNotificationData, CanRead
  <2>4. MockNotifications'
    BY <2>3 DEF MockNotifications
  <2>5. Drawn' = Drawn /\ Drawn \in Int
    BY <1>1, <2>1, ExchangeFacts DEF Drawn, Delivered, One
  <2>6. LastInFlight'
    BY <2>1, <2>5 DEF LastInFlight
  <2>7. ExchangeCounted'
    BY SMTT(30), <1>1, <2>1, <2>2, <2>3, <2>5, ExchangeFacts DEF ExchangeCounted, Awaiting, One
  <2> QED BY <2>4, <2>6, <2>7
<1>5. CASE SmNotificationEmpty
  <2>1. sm.state = "NOTIFICATION" /\ tcp_notification # <<>> /\ Head(tcp_notification).length = 0
    BY <1>5 DEF SmNotificationEmpty, CanRead
  <2>2. tcp_notification[1].length = MockLength /\ Head(tcp_notification) = tcp_notification[1]
    BY <2>1, ExchangeFacts DEF MockNotifications
  <2> QED BY <2>1, <2>2, MockValues
<1>6. CASE SmHandshake
  <2>1. sm.state = "HANDSHAKE" /\ sm'.state = "DATA_HEADLINE"
        /\ UNCHANGED <<tcp_notification, tcp_rx_req, tcp_rx_data>>
    BY <1>2, <1>6 DEF SmHandshake
  <2>2. Len(tcp_rx_rsp) > 0 /\ Len(tcp_rx_rsp') = Len(tcp_rx_rsp) - 1
    BY <1>6, Shorter, ExchangeFacts DEF SmHandshake, CanRead
  <2>3. Drawn' = Drawn /\ Drawn \in Int
    BY <1>1, <2>1, ExchangeFacts DEF Drawn, Delivered, One
  <2>4. LastInFlight' /\ MockNotifications'
    BY <2>1, <2>3 DEF LastInFlight, MockNotifications
  <2>5. ExchangeCounted'
    BY <1>1, <2>1, <2>2, <2>3, ExchangeFacts DEF ExchangeCounted, Awaiting, One
  <2> QED BY <2>4, <2>5
<1>7. ASSUME SmDataHeadline \/ SmDataPayload
      PROVE  Exchange'
  <2>1. /\ sm.state \in {"DATA_HEADLINE", "DATA_PAYLOAD"}
        /\ sm'.state = AfterBeat(Head(tcp_rx_data).last)
        /\ UNCHANGED <<tcp_notification, tcp_rx_req, tcp_rx_rsp>>
    BY <1>2, <1>7 DEF SmDataHeadline, SmDataPayload
  <2>2. /\ Len(tcp_rx_data) > 0 /\ Len(tcp_rx_data') = Len(tcp_rx_data) - 1
        /\ Head(tcp_rx_data) = tcp_rx_data[1]
        /\ \A i \in 1 .. Len(tcp_rx_data') :
              tcp_rx_data'[i] = tcp_rx_data[i + 1] /\ i + 1 \in 1 .. Len(tcp_rx_data)
    BY <1>7, Shorter, ExchangeFacts DEF SmDataHeadline, SmDataPayload, CanRead
  <2>3. Head(tcp_rx_data).last <=> Drawn + 1 = 3
    <3>1. 1 \in 1 .. Len(tcp_rx_data)
      BY <2>2, ExchangeFacts
    <3> QED BY <2>2, <3>1 DEF LastInFlight
  <2>4. Drawn' = Drawn + 1 /\ Drawn \in Int
    BY <1>1, <2>2, ExchangeFacts DEF Drawn, Delivered, One
  <2>5. sm'.state = IF Drawn + 1 = 3 THEN "IDLE" ELSE "DATA_PAYLOAD"
    BY <2>1, <2>3 DEF AfterBeat
  <2>6. LastInFlight'
    <3> SUFFICES ASSUME NEW i \in 1 .. Len(tcp_rx_data')
                 PROVE  tcp_rx_data'[i].last <=> Drawn' + i = 3
      BY DEF LastInFlight
    <3>1. tcp_rx_data[i + 1].last <=> Drawn + (i + 1) = 3
      BY <2>2 DEF LastInFlight
    <3> QED BY <2>2, <2>4, <3>1
  <2>7. ExchangeCounted'
    <3> HIDE DEF Drawn
    <3> QED BY <1>1, <2>1, <2>4, <2>5, ExchangeFacts DEF ExchangeCounted, Awaiting, One
  <2> QED BY <2>1, <2>6, <2>7 DEF MockNotifications
<1> QED BY <1>3, <1>4, <1>5, <1>6, <1>7 DEF HttpStep, RxStateMachine, RxStep, StateMachine

\* rx_mock writes what state_machine reads.
LEMMA RxMockExchange ==
  ASSUME MockInv, Exchange, RxMock
  PROVE  Exchange'
<1> USE DEF Exchange
<1>1. sm' = sm
  BY RxMockLeaves
<1>2. CASE RxMockIdle
  <2>1. rx_mock = "IDLE" /\ rx_mock' = "NOTIFICATION"
        /\ UNCHANGED <<tcp_notification, tcp_rx_req, tcp_rx_rsp, tcp_rx_data, notified, served>>
    BY <1>2 DEF RxMockIdle, tcpFifos
  <2> QED BY <1>1, <2>1, ExchangeFacts
      DEF ExchangeCounted, MockNotifications, LastInFlight, Awaiting, Drawn, Delivered, One
<1>3. CASE RxMockNotification
  <2> DEFINE n == [sessionID |-> MockSession, length |-> MockLength]
  <2>1. rx_mock = "NOTIFICATION" /\ rx_mock' = "META" /\ tcp_notification' = Append(tcp_notification, n)
        /\ notified' = Append(notified, n) /\ UNCHANGED <<tcp_rx_req, tcp_rx_rsp, tcp_rx_data, served>>
    BY <1>3 DEF RxMockNotification
  <2>2. n.length = MockLength
    OBVIOUS
  <2> HIDE DEF n
  <2>3. Len(notified') = Len(notified) + 1
    BY <2>1, Longer, ExchangeFacts
  <2>4. /\ Len(tcp_notification') = Len(tcp_notification) + 1
        /\ \A i \in 1 .. Len(tcp_notification') :
              \/ i \in 1 .. Len(tcp_notification) /\ tcp_notification'[i] = tcp_notification[i]
              \/ i = Len(tcp_notification) + 1 /\ tcp_notification'[i] = n
    BY <2>1, Longer, ExchangeFacts
  <2>5. MockNotifications'
    BY <2>2, <2>4 DEF MockNotifications
  <2>6. rx_mock = "NOTIFICATION" /\ rx_mock' = "META" /\ UNCHANGED <<tcp_rx_req, tcp_rx_rsp, tcp_rx_data, served>>
    BY <2>1
  <2>7. ExchangeCounted' /\ LastInFlight'
    BY <1>1, <2>3, <2>4, <2>6, ExchangeFacts
    DEF ExchangeCounted, LastInFlight, Awaiting, Drawn, Delivered, One
  <2> QED BY <2>5, <2>7
<1>4. CASE RxMockMeta
  <2>1. rx_mock = "META" /\ rx_mock' = "META_HANDSHAKE"
        /\ UNCHANGED <<tcp_notification, tcp_rx_rsp, tcp_rx_data, notified, served>>
    BY <1>4 DEF RxMockMeta
  <2>2. Len(tcp_rx_req) > 0 /\ Len(tcp_rx_req') = Len(tcp_rx_req) - 1
    BY <1>4, Shorter, ExchangeFacts DEF RxMockMeta, CanRead
  <2> QED BY <1>1, <2>1, <2>2, ExchangeFacts
      DEF ExchangeCounted, MockNotifications, LastInFlight, Awaiting, Drawn, Delivered, One
<1>5. CASE RxMockMetaHandshake
  <2>1. rx_mock = "META_HANDSHAKE" /\ rx_mock' = "DATA_HEADLINE"
        /\ UNCHANGED <<tcp_notification, tcp_rx_req, tcp_rx_data, notified>>
    BY <1>5 DEF RxMockMetaHandshake
  <2>2. Len(tcp_rx_rsp') = Len(tcp_rx_rsp) + 1
    BY <1>5, Longer, ExchangeFacts DEF RxMockMetaHandshake
  <2>3. Len(served') = Len(served) + 1
    BY <1>5, Longer, ExchangeFacts DEF RxMockMetaHandshake
  <2>4. sm.state = "HANDSHAKE" /\ Len(tcp_rx_rsp) = 0 /\ Len(tcp_rx_req) = 0
    BY <2>1, ExchangeFacts DEF ExchangeCounted, One
  <2>5. Drawn = 3 /\ Len(tcp_rx_data) = 0
    BY <2>1, <2>4, ExchangeFacts DEF ExchangeCounted, Awaiting, Drawn, Delivered, One
  <2>6. Drawn' = 0
    BY <2>1, <2>5 DEF Drawn, Delivered, One
  <2>7. LastInFlight' /\ MockNotifications'
    BY <2>1, <2>5 DEF LastInFlight, MockNotifications
  <2>8. ExchangeCounted'
    BY <1>1, <2>1, <2>2, <2>3, <2>4, <2>6, ExchangeFacts DEF ExchangeCounted, Awaiting, One
  <2> QED BY <2>7, <2>8
<1>6. CASE RxMockData
  <2>1. PICK w \in MockWords :
          /\ rx_mock = w[1] /\ rx_mock' = w[2]
          /\ tcp_rx_data' =
               Append(tcp_rx_data,
                      [data |-> [req |-> Len(served), pos |-> w[3],
                                 text |-> IF w[3] = 1 THEN MOCK_HEADLINE ELSE Blank],
                       last |-> w[4]])
    BY <1>6 DEF RxMockData
  <2>2. UNCHANGED <<tcp_notification, tcp_rx_req, tcp_rx_rsp, notified, served>>
    BY <1>6 DEF RxMockData
  <2> DEFINE e == [data |-> [req |-> Len(served), pos |-> w[3],
                             text |-> IF w[3] = 1 THEN MOCK_HEADLINE ELSE Blank],
                   last |-> w[4]]
  <2>3. tcp_rx_data' = Append(tcp_rx_data, e) /\ e.last = w[4]
    BY <2>1
  <2> HIDE DEF e
  <2>4. /\ Len(tcp_rx_data') = Len(tcp_rx_data) + 1
        /\ \A i \in 1 .. Len(tcp_rx_data') :
              \/ i \in 1 .. Len(tcp_rx_data) /\ tcp_rx_data'[i] = tcp_rx_data[i]
              \/ i = Len(tcp_rx_data) + 1 /\ tcp_rx_data'[i] = e
    BY <2>3, Longer, ExchangeFacts
  <2>5. \/ rx_mock = "DATA_HEADLINE" /\ rx_mock' = "DATA_PAYLOAD" /\ ~w[4]
        \/ rx_mock = "DATA_PAYLOAD" /\ rx_mock' = "DATA_PAYLOAD2" /\ ~w[4]
        \/ rx_mock = "DATA_PAYLOAD2" /\ rx_mock' = "IDLE" /\ w[4]
    <3>1. CASE w = <<"DATA_HEADLINE", "DATA_PAYLOAD", 1, FALSE>>
      BY <2>1, <3>1
    <3>2. CASE w = <<"DATA_PAYLOAD", "DATA_PAYLOAD2", 2, FALSE>>
      BY <2>1, <3>2
    <3>3. CASE w = <<"DATA_PAYLOAD2", "IDLE", 3, TRUE>>
      BY <2>1, <3>3
    <3> QED BY <3>1, <3>2, <3>3 DEF MockWords
  <2>6. Delivered' = Delivered + 1 /\ Delivered \in Int /\ (w[4] <=> Delivered = 2)
    BY <2>5 DEF Delivered, One
  <2>7. Drawn' = Drawn /\ Drawn = Delivered - Len(tcp_rx_data)
    BY <2>4, <2>6, ExchangeFacts DEF Drawn
  <2>8. LastInFlight'
    <3> SUFFICES ASSUME NEW i \in 1 .. Len(tcp_rx_data')
                 PROVE  tcp_rx_data'[i].last <=> Drawn' + i = 3
      BY DEF LastInFlight
    <3>1. CASE i \in 1 .. Len(tcp_rx_data) /\ tcp_rx_data'[i] = tcp_rx_data[i]
      BY <2>7, <3>1 DEF LastInFlight
    <3>2. CASE i = Len(tcp_rx_data) + 1 /\ tcp_rx_data'[i] = e
      BY <2>3, <2>6, <2>7, <3>2, ExchangeFacts
    <3> QED BY <2>4, <3>1, <3>2
  <2>9. ExchangeCounted'
    BY <1>1, <2>2, <2>5, <2>7, ExchangeFacts DEF ExchangeCounted, Awaiting, One
  <2> QED BY <2>2, <2>8, <2>9 DEF MockNotifications
<1> QED BY <1>2, <1>3, <1>4, <1>5, <1>6 DEF RxMock

\* A step of state_machine passes on the headline of a transfer, or a word of its
\* payload, or neither.
LEMMA SmPasses ==
  ASSUME MockInv, Exchange, HttpStep(RxStateMachine)
  PROVE  \/ /\ sm.state = "DATA_HEADLINE" /\ sm'.state = "DATA_PAYLOAD"
            /\ Drawn = 0 /\ Drawn' = 1
            /\ Len(headline_in') = Len(headline_in) + 1 /\ payload_in' = payload_in
         \/ /\ sm.state = "DATA_PAYLOAD" /\ Drawn \in {1, 2} /\ Drawn' = Drawn + 1
            /\ sm'.state = IF Drawn = 2 THEN "IDLE" ELSE "DATA_PAYLOAD"
            /\ headline_in' = headline_in /\ tcp_rx_data # <<>>
            /\ payload_in' = Append(payload_in, Head(tcp_rx_data))
            /\ Head(tcp_rx_data).last <=> Drawn = 2
         \/ /\ sm.state \in {"IDLE", "NOTIFICATION", "HANDSHAKE"}
            /\ sm'.state \in {"NOTIFICATION", "HANDSHAKE", "DATA_HEADLINE"}
            /\ Awaiting' = Awaiting
            /\ headline_in' = headline_in /\ payload_in' = payload_in
<1> USE DEF Exchange
<1>1. rx_mock' = rx_mock
  BY RxStateMachineLeaves
<1>2. sm \in [state : {"IDLE", "NOTIFICATION", "HANDSHAKE", "DATA_HEADLINE", "DATA_PAYLOAD"},
              sessionID : Sessions \cup {Unset},
              hasHeaders : BOOLEAN \cup {Unset}, hasBody : BOOLEAN \cup {Unset}]
      /\ headline_in \in Seq(HeadlineIn)
  BY DEF MockInv, TypeInv, TypeOK, SmOK, InFifosOK, IsFifo
<1>3. CASE SmIdle
  BY <1>2, <1>3 DEF SmIdle, tcpFifos, inFifos, Awaiting
<1>4. CASE SmNotificationData
  <2>1. /\ sm.state = "NOTIFICATION" /\ sm'.state = "HANDSHAKE" /\ tcp_rx_rsp' = tcp_rx_rsp
        /\ UNCHANGED <<headline_in, payload_in>>
    BY <1>4 DEF SmNotificationData, inFifos
  <2>2. Len(tcp_rx_rsp) = 0
    BY <2>1, ExchangeFacts DEF ExchangeCounted, One
  <2> QED BY <2>1, <2>2 DEF Awaiting
<1>5. CASE SmNotificationEmpty
  <2>1. sm.state = "NOTIFICATION" /\ tcp_notification # <<>> /\ Head(tcp_notification).length = 0
    BY <1>5 DEF SmNotificationEmpty, CanRead
  <2>2. tcp_notification[1].length = MockLength /\ Head(tcp_notification) = tcp_notification[1]
    BY <2>1, ExchangeFacts DEF MockNotifications
  <2> QED BY <2>1, <2>2, MockValues
<1>6. CASE SmHandshake
  <2>1. Len(tcp_rx_rsp) > 0
    BY <1>6, ExchangeFacts DEF SmHandshake, CanRead
  <2> QED BY <1>2, <1>6, <2>1 DEF SmHandshake, inFifos, Awaiting
<1>7. ASSUME SmDataHeadline \/ SmDataPayload
      PROVE  /\ sm'.state = (IF Drawn = 2 THEN "IDLE" ELSE "DATA_PAYLOAD")
             /\ Head(tcp_rx_data).last <=> Drawn = 2
             /\ tcp_rx_data # <<>> /\ Drawn' = Drawn + 1 /\ Drawn \in Int
  <2>1. /\ sm'.state = AfterBeat(Head(tcp_rx_data).last) /\ tcp_rx_data # <<>>
        /\ tcp_rx_data' = Tail(tcp_rx_data)
    BY <1>2, <1>7 DEF SmDataHeadline, SmDataPayload, CanRead
  <2>2. Len(tcp_rx_data) > 0 /\ Head(tcp_rx_data) = tcp_rx_data[1]
        /\ Len(tcp_rx_data') = Len(tcp_rx_data) - 1
    BY <2>1, Shorter, ExchangeFacts
  <2>3. Drawn' = Drawn + 1 /\ Drawn \in Int
    BY <1>1, <2>2, ExchangeFacts DEF Drawn, Delivered, One
  <2>4. Head(tcp_rx_data).last <=> Drawn = 2
    <3>1. 1 \in 1 .. Len(tcp_rx_data)
      BY <2>2, ExchangeFacts
    <3>2. tcp_rx_data[1].last <=> Drawn + 1 = 3
      BY <3>1 DEF LastInFlight
    <3> QED BY <2>2, <2>3, <3>2
  <2> QED BY <2>1, <2>3, <2>4 DEF AfterBeat
<1>8. CASE SmDataHeadline
  <2>1. sm.state = "DATA_HEADLINE" /\ payload_in' = payload_in
    BY <1>8 DEF SmDataHeadline
  <2>2. Len(headline_in') = Len(headline_in) + 1
    BY <1>2, <1>8, Longer DEF SmDataHeadline
  <2>3. Drawn = 0
    BY <2>1 DEF ExchangeCounted, Awaiting
  <2> QED BY <1>7, <1>8, <2>1, <2>2, <2>3
<1>9. CASE SmDataPayload
  <2>1. sm.state = "DATA_PAYLOAD" /\ headline_in' = headline_in
        /\ payload_in' = Append(payload_in, Head(tcp_rx_data))
    BY <1>9 DEF SmDataPayload
  <2>2. Drawn \in {1, 2}
    BY <2>1 DEF ExchangeCounted
  <2> QED BY <1>7, <1>9, <2>1, <2>2
<1> QED BY <1>3, <1>4, <1>5, <1>6, <1>8, <1>9 DEF HttpStep, RxStateMachine, RxStep, StateMachine

\* A step of rx_mock serves a transfer that nothing of has been passed on, or
\* leaves what is to be passed on as it is.
LEMMA RxMockServes ==
  ASSUME MockInv, Exchange, RxMock
  PROVE  \/ /\ Len(served') = Len(served) + 1 /\ ~Awaiting /\ Awaiting'
            /\ sm.state # "DATA_PAYLOAD" /\ sm' = sm
         \/ /\ served' = served /\ Awaiting' = Awaiting /\ Drawn' = Drawn /\ sm' = sm
<1>1. sm' = sm
  BY RxMockLeaves
<1>2. CASE RxMockMetaHandshake
  <2>1. rx_mock = "META_HANDSHAKE"
    BY <1>2 DEF RxMockMetaHandshake
  <2>2. Len(tcp_rx_rsp') = Len(tcp_rx_rsp) + 1
    BY <1>2, Longer, ExchangeFacts DEF RxMockMetaHandshake
  <2>3. Len(served') = Len(served) + 1
    BY <1>2, Longer, ExchangeFacts DEF RxMockMetaHandshake
  <2>4. sm.state = "HANDSHAKE" /\ Len(tcp_rx_rsp) = 0
    BY <2>1, ExchangeFacts DEF Exchange, ExchangeCounted, One
  <2> QED BY <1>1, <2>2, <2>3, <2>4 DEF Awaiting
<1>3. CASE RxMockData
  <2>1. UNCHANGED <<tcp_rx_rsp, served>>
    BY <1>3 DEF RxMockData
  <2>2. PICK w \in MockWords : rx_mock = w[1] /\ rx_mock' = w[2]
    BY <1>3 DEF RxMockData
  <2>3. \/ rx_mock = "DATA_HEADLINE" /\ rx_mock' = "DATA_PAYLOAD"
        \/ rx_mock = "DATA_PAYLOAD" /\ rx_mock' = "DATA_PAYLOAD2"
        \/ rx_mock = "DATA_PAYLOAD2" /\ rx_mock' = "IDLE"
    <3>1. CASE w = <<"DATA_HEADLINE", "DATA_PAYLOAD", 1, FALSE>>
      BY <2>2, <3>1
    <3>2. CASE w = <<"DATA_PAYLOAD", "DATA_PAYLOAD2", 2, FALSE>>
      BY <2>2, <3>2
    <3>3. CASE w = <<"DATA_PAYLOAD2", "IDLE", 3, TRUE>>
      BY <2>2, <3>3
    <3> QED BY <3>1, <3>2, <3>3 DEF MockWords
  <2>4. PICK e : tcp_rx_data' = Append(tcp_rx_data, e)
    BY <1>3 DEF RxMockData
  <2>5. Len(tcp_rx_data') = Len(tcp_rx_data) + 1
    BY <2>4, Longer, ExchangeFacts
  <2>6. Drawn' = Drawn
    BY <2>3, <2>5, ExchangeFacts DEF Drawn, Delivered, One
  <2> QED BY <1>1, <2>1, <2>6 DEF Awaiting
<1>4. ASSUME RxMockIdle \/ RxMockNotification \/ RxMockMeta
      PROVE  served' = served /\ Awaiting' = Awaiting /\ Drawn' = Drawn
  <2>1. UNCHANGED <<tcp_rx_rsp, tcp_rx_data, served>>
        /\ rx_mock \in {"IDLE", "NOTIFICATION", "META"}
        /\ rx_mock' \in {"NOTIFICATION", "META", "META_HANDSHAKE"}
    BY <1>4 DEF RxMockIdle, RxMockNotification, RxMockMeta, tcpFifos
  <2> QED BY <1>1, <2>1 DEF Awaiting, Drawn, Delivered, One
<1> QED BY <1>1, <1>2, <1>3, <1>4 DEF RxMock

\* The stages of a headline are FIFOs and a state.
LEMMA HeadlineFacts ==
  ASSUME MockInv
  PROVE  /\ headline_in \in Seq(HeadlineIn) /\ headline_out \in Seq(HeadlineOut)
         /\ http_request \in Seq(Request) /\ app.requests \in Seq(Request)
         /\ Len(headline_in) \in Nat /\ Len(headline_out) \in Nat /\ Len(http_request) \in Nat
         /\ Len(app.requests) \in Nat /\ Len(served) \in Nat
BY DEF MockInv, TypeInv, TypeOK, InFifosOK, AppFifosOK, EnvironmentOK, IsFifo

\* ... which are counted.
LEMMA HeadlineLens ==
  ASSUME MockInv
  PROVE  /\ HeadlinesBefore \in Int /\ HeadlinesAfter \in Int /\ Len(served) \in Int
         /\ HeadlineParsed \in {0, 1} /\ Requested \in Nat
         /\ Len(headline_out) \in Nat /\ Len(http_request) \in Nat
BY HeadlineFacts DEF Requested, HeadlinesBefore, HeadlinesAfter, HeadlineParsed, One

\* What One counts.
LEMMA OneFacts ==
  /\ \A c \in BOOLEAN : One(c) \in {0, 1} /\ (c => One(c) = 1) /\ (~c => One(c) = 0)
  /\ Awaiting \in BOOLEAN
  /\ One(Awaiting) \in {0, 1} /\ (Awaiting => One(Awaiting) = 1) /\ (~Awaiting => One(Awaiting) = 0)
BY DEF One, Awaiting

\* ... and where something is still awaited.
LEMMA OneAwaiting ==
  /\ Unserved \in {0, 1} /\ (Awaiting => Unserved = 1) /\ (~Awaiting => Unserved = 0)
  /\ (Awaiting' => Unserved' = 1) /\ (~Awaiting' => Unserved' = 0)
  /\ (Awaiting' = Awaiting) => Unserved' = Unserved
BY OneFacts DEF One, Awaiting, Unserved

\* state_machine and rx_mock.
LEMMA SmHeadlines ==
  ASSUME MockInv, Exchange, Headlines, HttpStep(RxStateMachine) \/ RxMock
  PROVE  Headlines'
<1>1. HeadlinesAfter' = HeadlinesAfter
  BY RxStateMachineLeaves, RxMockLeaves DEF HeadlinesAfter, Requested
<1>2. HeadlineParsed' = HeadlineParsed
  BY RxStateMachineLeaves, RxMockLeaves DEF HeadlineParsed, One
<1>3. Unserved \in {0, 1}
  BY OneAwaiting
<1>4. CASE HttpStep(RxStateMachine)
  <2>1. served' = served
    BY <1>4, RxStateMachineLeaves
  <2>2. CASE Len(headline_in') = Len(headline_in) + 1 /\ Awaiting /\ ~Awaiting'
    <3>1. HeadlinesBefore' = HeadlinesBefore + 1
      BY <1>2, <2>2, HeadlineFacts, HeadlineLens DEF HeadlinesBefore
    <3>2. Unserved = 1 /\ Unserved' = 0
      BY <2>2, OneAwaiting
    <3> QED BY <1>1, <2>1, <3>1, <3>2, HeadlineLens DEF Headlines
  <2>3. CASE headline_in' = headline_in /\ Awaiting' = Awaiting
    <3>1. HeadlinesBefore' = HeadlinesBefore /\ Unserved' = Unserved
      BY <1>2, <2>3, OneAwaiting DEF HeadlinesBefore
    <3> QED BY <1>1, <2>1, <3>1 DEF Headlines
  <2> QED BY <1>4, <2>2, <2>3, SmPasses DEF Awaiting
<1>5. CASE RxMock
  <2>1. HeadlinesBefore' = HeadlinesBefore
    BY <1>2, <1>5, RxMockLeaves DEF HeadlinesBefore
  <2>2. CASE Len(served') = Len(served) + 1 /\ ~Awaiting /\ Awaiting'
    <3>1. Unserved = 0 /\ Unserved' = 1
      BY <2>2, OneAwaiting
    <3> QED BY <1>1, <2>1, <2>2, <3>1, HeadlineLens DEF Headlines
  <2>3. CASE served' = served /\ Awaiting' = Awaiting
    <3>1. Unserved' = Unserved
      BY <2>3, OneAwaiting
    <3> QED BY <1>1, <2>1, <2>3, <3>1 DEF Headlines
  <2> QED BY <1>5, <2>2, <2>3, RxMockServes
<1> QED BY <1>4, <1>5

\* headline_parser, request_issuer and process_notify.
LEMMA PassedHeadlines ==
  ASSUME MockInv, Headlines,
         HttpStep(RxHeadlineParser) \/ HttpStep(RxRequestIssuer) \/ HttpStep(ProcessNotify)
  PROVE  Headlines'
<1>1. served' = served /\ Unserved' = Unserved /\ Unserved \in {0, 1}
  BY HeadlineLeaves, ProcessNotifyLeaves, OneAwaiting DEF exchangeVars, Awaiting
<1>2. CASE HttpStep(RxHeadlineParser)
  <2>1. UNCHANGED <<http_request, app>>
    BY <1>2, HeadlineLeaves DEF HttpStep, RxHeadlineParser, RxStep, HeadlineParser, HpInputRead,
       HpParseMethod, HpExtractEndpoint, HpOutputWrite, appFifos
  <2>2. hp \in [state : {"INPUT_READ", "PARSE_METHOD", "EXTRACT_ENDPOINT", "OUTPUT_WRITE"},
                line : Data \cup {Unset}, method : HttpMethods \cup {Unset},
                sessionID : Sessions \cup {Unset},
                hasHeaders : BOOLEAN \cup {Unset}, hasBody : BOOLEAN \cup {Unset}]
    BY DEF MockInv, TypeInv, TypeOK, HpOK
  <2>3. CASE HpInputRead
    <3>1. Len(headline_in) > 0 /\ Len(headline_in') = Len(headline_in) - 1
      BY <2>3, Shorter, HeadlineFacts DEF HpInputRead, CanRead
    <3>2. hp.state = "INPUT_READ" /\ hp'.state = "PARSE_METHOD" /\ headline_out' = headline_out
      BY <2>2, <2>3 DEF HpInputRead, HeadlineLoaded
    <3>3. HeadlineParsed' = 1 /\ HeadlineParsed = 0
      BY <3>2 DEF HeadlineParsed, One
    <3>4. HeadlinesBefore' = HeadlinesBefore
      BY <3>1, <3>3, HeadlineFacts DEF HeadlinesBefore
    <3>5. HeadlinesAfter' = HeadlinesAfter
      BY <2>1, <3>2 DEF HeadlinesAfter, Requested
    <3> QED BY <1>1, <3>4, <3>5 DEF Headlines
  <2>4. CASE HpParseMethod \/ HpExtractEndpoint
    <3>1. hp.state \in {"PARSE_METHOD", "EXTRACT_ENDPOINT"} /\ hp'.state \in {"EXTRACT_ENDPOINT", "OUTPUT_WRITE"}
          /\ headline_in' = headline_in /\ headline_out' = headline_out
      BY <2>2, <2>4 DEF HpParseMethod, HpExtractEndpoint, inFifos
    <3>2. HeadlineParsed' = 1 /\ HeadlineParsed = 1
      BY <3>1 DEF HeadlineParsed, One
    <3> QED BY <1>1, <2>1, <3>1, <3>2 DEF Headlines, HeadlinesBefore, HeadlinesAfter, Requested
  <2>5. CASE HpOutputWrite
    <3>1. Len(headline_out') = Len(headline_out) + 1
      BY <2>5, Longer, HeadlineFacts DEF HpOutputWrite
    <3>2. hp.state = "OUTPUT_WRITE" /\ hp'.state = "INPUT_READ" /\ headline_in' = headline_in
      BY <2>2, <2>5 DEF HpOutputWrite
    <3>3. HeadlineParsed' = 0 /\ HeadlineParsed = 1
      BY <3>2 DEF HeadlineParsed, One
    <3>4. HeadlinesBefore' = HeadlinesBefore - 1
      BY <3>2, <3>3, HeadlineFacts DEF HeadlinesBefore
    <3>5. HeadlinesAfter' = HeadlinesAfter + 1
      <4>1. http_request' = http_request /\ Requested' = Requested
        BY <2>1 DEF Requested
      <4> QED BY <3>1, <4>1, HeadlineLens DEF HeadlinesAfter
    <3> QED BY <1>1, <3>4, <3>5, HeadlineLens DEF Headlines
  <2> QED BY <1>2, <2>3, <2>4, <2>5 DEF HttpStep, RxHeadlineParser, RxStep, HeadlineParser
<1>3. CASE HttpStep(RxRequestIssuer) \/ HttpStep(ProcessNotify)
  <2>1. HeadlinesAfter' = HeadlinesAfter
    <3>1. CASE HttpStep(RxRequestIssuer)
      <4>1. Len(headline_out) > 0 /\ Len(headline_out') = Len(headline_out) - 1
        BY <3>1, Shorter, HeadlineFacts DEF HttpStep, RxRequestIssuer, RxStep, RequestIssuer, CanRead
      <4>2. Len(http_request') = Len(http_request) + 1
        BY <3>1, Longer, HeadlineFacts DEF HttpStep, RxRequestIssuer, RxStep, RequestIssuer
      <4>3. Requested' = Requested
        BY <3>1 DEF HttpStep, RxRequestIssuer, RxStep, RequestIssuer, Requested
      <4> QED BY <4>1, <4>2, <4>3, HeadlineLens DEF HeadlinesAfter
    <3>2. CASE HttpStep(ProcessNotify)
      <4>1. Len(http_request) > 0 /\ Len(http_request') = Len(http_request) - 1
        BY <3>2, Shorter, HeadlineFacts, ProcessNotifyTakes DEF CanRead
      <4>2. Requested' = Requested + 1
        BY <3>2, Longer, HeadlineFacts, ProcessNotifyTakes DEF Requested
      <4>3. headline_out' = headline_out
        BY <3>2, ProcessNotifyLeaves
      <4> QED BY <4>1, <4>2, <4>3, HeadlineLens DEF HeadlinesAfter
    <3> QED BY <1>3, <3>1, <3>2
  <2>2. UNCHANGED <<headline_in, hp>>
    BY <1>3, ProcessNotifyLeaves DEF HttpStep, RxRequestIssuer, RxStep, RequestIssuer
  <2>3. HeadlinesBefore' = HeadlinesBefore
    BY <2>2 DEF HeadlinesBefore, HeadlineParsed, One
  <2> QED BY <1>1, <2>1, <2>3 DEF Headlines
<1> QED BY <1>2, <1>3

-----------------------------------------------------------------------------
(***************************************************************************)
(* The payload of the rounds                                               *)
(***************************************************************************)

\* What the payload goes through are FIFOs, counted.
LEMMA PayloadFacts ==
  ASSUME MockInv
  PROVE  /\ payload_in \in Seq(Beat) /\ http_request_headers \in Seq(Beat) /\ http_request_body \in Seq(Beat)
         /\ Len(payload_in) \in Nat /\ Len(http_request_headers) \in Nat /\ Len(http_request_body) \in Nat
         /\ HeadersConsumed \in Nat /\ BodyConsumed \in Nat
BY DEF MockInv, TypeInv, TypeOK, InFifosOK, AppFifosOK, EnvironmentOK, IsFifo, HeadersConsumed, BodyConsumed

\* ... and the words of it.
LEMMA PayloadLens ==
  ASSUME MockInv
  PROVE  /\ Drawn \in Int /\ PayloadDue \in Int /\ PayloadIssued \in Int /\ PayloadRead \in Int
         /\ HeadersOffered \in Int /\ BodyOffered \in Int /\ Len(served) \in Int
<1>1. Delivered \in Int
  BY DEF Delivered, One
<1>2. Drawn \in Int
  BY <1>1, ExchangeFacts DEF Drawn
<1>3. PayloadDue \in Int
  BY <1>2 DEF PayloadDue
<1>4. PayloadIssued \in Int
  BY <1>3, ExchangeFacts DEF PayloadIssued
<1>5. PayloadRead \in Int
  BY <1>4, PayloadFacts DEF PayloadRead
<1> QED BY <1>2, <1>3, <1>4, <1>5, PayloadFacts, ExchangeFacts DEF HeadersOffered, BodyOffered

\* state_machine passes the payload on as it is served.
LEMMA SmPayload ==
  ASSUME MockInv, Exchange, Payload, HttpStep(RxStateMachine) \/ RxMock
  PROVE  Payload'
<1>1. UNCHANGED <<pp, http_request_headers, http_request_body, app>>
  BY RxStateMachineLeaves, RxMockLeaves DEF consumeVars
<1>2. HeadersOffered' = HeadersOffered /\ BodyOffered' = BodyOffered
  BY <1>1 DEF HeadersOffered, BodyOffered, HeadersConsumed, BodyConsumed
<1>3. SUFFICES PayloadRead' = PayloadRead /\ PayloadWords'
  BY <1>1, <1>2 DEF Payload
<1>4. ASSUME payload_in' = payload_in, PayloadIssued' = PayloadIssued
      PROVE  PayloadRead' = PayloadRead /\ PayloadWords'
  <2>1. PayloadRead' = PayloadRead
    BY <1>4 DEF PayloadRead
  <2> QED BY <1>4, <2>1 DEF Payload, PayloadWords
<1>5. CASE HttpStep(RxStateMachine)
  <2>1. served' = served
    BY <1>5, RxStateMachineLeaves
  <2>2. CASE /\ sm.state = "DATA_HEADLINE" /\ sm'.state = "DATA_PAYLOAD"
             /\ Drawn' = 1 /\ payload_in' = payload_in
    <3>1. Awaiting /\ ~Awaiting'
      BY <2>2 DEF Awaiting
    <3>2. PayloadDue = 2 /\ PayloadDue' = 2
      BY <2>2, <3>1 DEF PayloadDue
    <3> QED BY <1>4, <2>1, <2>2, <3>2 DEF PayloadIssued
  <2>3. CASE /\ sm.state = "DATA_PAYLOAD" /\ Drawn \in {1, 2} /\ Drawn' = Drawn + 1
             /\ sm'.state = (IF Drawn = 2 THEN "IDLE" ELSE "DATA_PAYLOAD")
             /\ tcp_rx_data # <<>> /\ payload_in' = Append(payload_in, Head(tcp_rx_data))
             /\ (Head(tcp_rx_data).last <=> Drawn = 2)
    <3> DEFINE e == Head(tcp_rx_data)
    <3> HIDE DEF e
    <3>0. payload_in' = Append(payload_in, e) /\ (e.last <=> Drawn = 2)
      BY <2>3 DEF e
    <3>1. ~Awaiting /\ ~Awaiting'
      BY <2>3 DEF Awaiting
    <3>2. PayloadDue = 3 - Drawn /\ PayloadDue' = 2 - Drawn
      BY <2>3, <3>1 DEF PayloadDue
    <3>3. PayloadIssued = 2 * Len(served) - 3 + Drawn /\ PayloadIssued' = PayloadIssued + 1
      BY <2>1, <2>3, <3>2, PayloadLens DEF PayloadIssued
    <3>4. /\ Len(payload_in') = Len(payload_in) + 1
          /\ \A i \in 1 .. Len(payload_in') :
                \/ i \in 1 .. Len(payload_in) /\ payload_in'[i] = payload_in[i]
                \/ i = Len(payload_in) + 1 /\ payload_in'[i] = e
      <4>1. payload_in' = Append(payload_in, e) /\ payload_in \in Seq(Beat)
        BY <3>0, PayloadFacts
      <4> QED BY <4>1, Longer
    <3>5. PayloadRead' = PayloadRead /\ PayloadRead + Len(payload_in) = PayloadIssued
      <4>1. PayloadRead = PayloadIssued - Len(payload_in)
            /\ PayloadRead' = PayloadIssued' - Len(payload_in')
        BY DEF PayloadRead
      <4>2. PayloadIssued' = PayloadIssued + 1 /\ Len(payload_in') = Len(payload_in) + 1
        BY <3>3, <3>4
      <4> QED BY SMTT(30), <4>1, <4>2, PayloadLens, PayloadFacts
    <3>6. e.last <=> EndsTransfer(PayloadRead' + (Len(payload_in) + 1))
      <4>1. PayloadRead' + (Len(payload_in) + 1) = 2 * Len(served) - 2 + Drawn
        BY SMTT(30), <3>3, <3>5, PayloadLens, PayloadFacts, <2>3
      <4>2. CASE Drawn = 2
        <5>1. PayloadRead' + (Len(payload_in) + 1) = 2 * Len(served)
          BY <4>1, <4>2, PayloadLens
        <5>2. EndsTransfer(2 * Len(served))
          BY PayloadLens DEF EndsTransfer
        <5> QED BY <3>0, <4>2, <5>1, <5>2
      <4>3. CASE Drawn = 1
        <5>1. PayloadRead' + (Len(payload_in) + 1) = 2 * Len(served) - 1
          BY <4>1, <4>3, PayloadLens
        <5>2. \A k \in Int : 2 * Len(served) - 1 # 2 * k
          BY PayloadLens
        <5> QED BY <3>0, <4>3, <5>1, <5>2 DEF EndsTransfer
      <4> QED BY <2>3, <4>2, <4>3
    <3>7. PayloadWords'
      <4> SUFFICES ASSUME NEW i \in 1 .. Len(payload_in')
                   PROVE  payload_in'[i].last <=> EndsTransfer(PayloadRead' + i)
        BY DEF PayloadWords
      <4>1. CASE i \in 1 .. Len(payload_in) /\ payload_in'[i] = payload_in[i]
        BY <3>5, <4>1 DEF Payload, PayloadWords
      <4>2. CASE i = Len(payload_in) + 1 /\ payload_in'[i] = e
        BY <3>6, <4>2
      <4> QED BY <3>4, <4>1, <4>2
    <3> QED BY <3>5, <3>7
  <2>4. CASE /\ sm.state \in {"IDLE", "NOTIFICATION", "HANDSHAKE"}
             /\ sm'.state \in {"NOTIFICATION", "HANDSHAKE", "DATA_HEADLINE"}
             /\ Awaiting' = Awaiting /\ payload_in' = payload_in
    <3>1. PayloadDue' = PayloadDue
      BY <2>4 DEF PayloadDue
    <3> QED BY <1>4, <2>1, <2>4, <3>1 DEF PayloadIssued
  <2> QED BY <1>5, <2>2, <2>3, <2>4, SmPasses
<1>6. CASE RxMock
  <2>1. payload_in' = payload_in
    BY <1>6, RxMockLeaves
  <2>2. CASE /\ Len(served') = Len(served) + 1 /\ ~Awaiting /\ Awaiting'
             /\ sm.state # "DATA_PAYLOAD"
    <3>1. PayloadDue = 0 /\ PayloadDue' = 2
      BY <2>2 DEF PayloadDue
    <3>2. PayloadIssued' = PayloadIssued
      BY <2>2, <3>1, PayloadLens DEF PayloadIssued
    <3> QED BY <1>4, <2>1, <3>2
  <2>3. CASE served' = served /\ Awaiting' = Awaiting /\ Drawn' = Drawn /\ sm' = sm
    <3>1. PayloadDue' = PayloadDue
      BY <2>3 DEF PayloadDue
    <3> QED BY <1>4, <2>1, <2>3, <3>1 DEF PayloadIssued
  <2> QED BY <1>6, <2>2, <2>3, RxMockServes
<1> QED BY <1>5, <1>6

\* req_payload_parser hands out headers and body by turns: the word it has just
\* read is the headers of a transfer, or the body that ends it.
LEMMA PpPayload ==
  ASSUME MockInv, Payload, HttpStep(RxPayloadParser)
  PROVE  Payload'
<1> USE DEF Payload
<1>1. PayloadIssued' = PayloadIssued /\ UNCHANGED app
  BY RxPayloadParserLeaves DEF PayloadIssued, PayloadDue, Awaiting, Drawn, Delivered
<1>2. HeadersConsumed' = HeadersConsumed /\ BodyConsumed' = BodyConsumed
  BY <1>1 DEF HeadersConsumed, BodyConsumed
<1>3. /\ pp \in [state : {"HEADER_READ", "HEADER_WRITE", "BODY_READ", "BODY_WRITE"},
                 line : Beat \cup {Unset}]
      /\ pp.state = "HEADER_WRITE" => pp.line \in Beat
  BY DEF MockInv, TypeInv, TypeOK, PpOK, RegistersWritten
<1>4. ASSUME CanRead(payload_in), payload_in' = Tail(payload_in),
             UNCHANGED <<http_request_headers, http_request_body>>
      PROVE  /\ PayloadRead' = PayloadRead + 1 /\ PayloadWords'
             /\ Head(payload_in).last <=> EndsTransfer(PayloadRead + 1)
             /\ HeadersOffered' = HeadersOffered /\ BodyOffered' = BodyOffered
  <2>1. /\ Len(payload_in) > 0 /\ Len(payload_in') = Len(payload_in) - 1
        /\ Head(payload_in) = payload_in[1]
        /\ \A i \in 1 .. Len(payload_in') : payload_in'[i] = payload_in[i + 1] /\ i + 1 \in 1 .. Len(payload_in)
    BY <1>4, Shorter, PayloadFacts DEF CanRead
  <2>2. PayloadRead' = PayloadRead + 1
    BY <1>1, <2>1, PayloadLens, PayloadFacts DEF PayloadRead
  <2>3. Head(payload_in).last <=> EndsTransfer(PayloadRead + 1)
    <3>1. 1 \in 1 .. Len(payload_in)
      BY <2>1, PayloadFacts
    <3> QED BY <2>1, <3>1 DEF PayloadWords
  <2>4. PayloadWords'
    <3> SUFFICES ASSUME NEW i \in 1 .. Len(payload_in')
                 PROVE  payload_in'[i].last <=> EndsTransfer(PayloadRead' + i)
      BY DEF PayloadWords
    <3>1. PayloadRead' + i = PayloadRead + (i + 1)
      BY <2>2, PayloadLens
    <3>2. payload_in[i + 1].last <=> EndsTransfer(PayloadRead + (i + 1))
      BY <2>1 DEF PayloadWords
    <3> QED BY <2>1, <3>1, <3>2
  <2> QED BY <1>2, <1>4, <2>2, <2>3, <2>4 DEF HeadersOffered, BodyOffered
<1>5. ASSUME payload_in' = payload_in
      PROVE  PayloadRead' = PayloadRead /\ PayloadWords'
  <2>1. PayloadRead' = PayloadRead
    BY <1>1, <1>5 DEF PayloadRead
  <2> QED BY <1>5, <2>1 DEF PayloadWords
<1>6. CASE PpHeaderRead
  <2>1. /\ pp.state = "HEADER_READ" /\ pp' = [state |-> "HEADER_WRITE", line |-> Head(payload_in)]
        /\ CanRead(payload_in) /\ payload_in' = Tail(payload_in)
        /\ UNCHANGED <<http_request_headers, http_request_body>>
    BY <1>6 DEF PpHeaderRead, appFifos
  <2>2. /\ PayloadRead' = PayloadRead + 1 /\ PayloadWords'
        /\ Head(payload_in).last <=> EndsTransfer(PayloadRead + 1)
        /\ HeadersOffered' = HeadersOffered /\ BodyOffered' = BodyOffered
    BY <1>4, <2>1
  <2>3. PayloadRead = 2 * HeadersOffered
    BY <2>1
  <2>4. ~Head(payload_in).last
    <3>1. \A k \in Int : 2 * HeadersOffered + 1 # 2 * k
      BY PayloadLens
    <3> QED BY <2>2, <2>3, <3>1 DEF EndsTransfer
  <2>5. pp'.state = "HEADER_WRITE" /\ ~pp'.line.last
    BY <2>1, <2>4
  <2> QED BY <2>1, <2>2, <2>3, <2>5
<1>7. CASE PpHeaderWrite
  <2>1. pp.state = "HEADER_WRITE" /\ payload_in' = payload_in /\ http_request_body' = http_request_body
    BY <1>7 DEF PpHeaderWrite, inFifos
  <2>2. PICK e : http_request_headers' = Append(http_request_headers, e)
    BY <1>7 DEF PpHeaderWrite
  <2>3. HeadersOffered' = HeadersOffered + 1 /\ BodyOffered' = BodyOffered
    <3>1. Len(http_request_headers') = Len(http_request_headers) + 1
      BY <2>2, Longer, PayloadFacts
    <3> QED BY <1>2, <2>1, <3>1, PayloadFacts DEF HeadersOffered, BodyOffered
  <2>4. pp'.state = "BODY_READ"
    <3>1. ~pp.line.last
      BY <2>1
    <3> QED BY <1>3, <1>7, <2>1, <3>1 DEF PpHeaderWrite
  <2>5. PayloadRead' = PayloadRead /\ PayloadWords' /\ PayloadRead = 2 * HeadersOffered + 1
        /\ BodyOffered = HeadersOffered
    BY <1>5, <2>1
  <2> QED BY <2>3, <2>4, <2>5, PayloadLens
<1>8. CASE PpBodyRead
  <2>1. /\ pp.state = "BODY_READ" /\ pp' = [state |-> "BODY_WRITE", line |-> Head(payload_in)]
        /\ CanRead(payload_in) /\ payload_in' = Tail(payload_in)
        /\ UNCHANGED <<http_request_headers, http_request_body>>
    BY <1>8 DEF PpBodyRead, appFifos
  <2>2. /\ PayloadRead' = PayloadRead + 1 /\ PayloadWords'
        /\ Head(payload_in).last <=> EndsTransfer(PayloadRead + 1)
        /\ HeadersOffered' = HeadersOffered /\ BodyOffered' = BodyOffered
    BY <1>4, <2>1
  <2>3. PayloadRead = 2 * HeadersOffered - 1 /\ BodyOffered = HeadersOffered - 1
    BY <2>1
  <2>4. Head(payload_in).last
    BY <2>2, <2>3, PayloadLens DEF EndsTransfer
  <2>5. pp'.state = "BODY_WRITE" /\ pp'.line.last
    BY <2>1, <2>4
  <2> QED BY <2>2, <2>3, <2>5, PayloadLens
<1>9. CASE PpBodyWrite
  <2>1. /\ pp.state = "BODY_WRITE" /\ pp.line.last /\ payload_in' = payload_in
        /\ http_request_headers' = http_request_headers
    BY <1>9 DEF PpBodyWrite, inFifos
  <2>2. PICK e : http_request_body' = Append(http_request_body, e)
    BY <1>9 DEF PpBodyWrite
  <2>3. BodyOffered' = BodyOffered + 1 /\ HeadersOffered' = HeadersOffered
    <3>1. Len(http_request_body') = Len(http_request_body) + 1
      BY <2>2, Longer, PayloadFacts
    <3> QED BY <1>2, <2>1, <3>1, PayloadFacts DEF HeadersOffered, BodyOffered
  <2>4. pp'.state = "HEADER_READ"
    BY <1>3, <1>9, <2>1 DEF PpBodyWrite
  <2>5. PayloadRead' = PayloadRead /\ PayloadWords' /\ PayloadRead = 2 * HeadersOffered
        /\ BodyOffered = HeadersOffered - 1
    BY <1>5, <2>1
  <2> QED BY <2>3, <2>4, <2>5, PayloadLens
<1> QED BY <1>6, <1>7, <1>8, <1>9 DEF HttpStep, RxPayloadParser, RxStep, PayloadParser

\* consume_request takes them in any order, which does not change how many there are.
LEMMA ConsumeTakes ==
  ASSUME MockInv, HttpStep(ConsumeRequest)
  PROVE  \/ /\ ~consume.headers /\ CanRead(http_request_headers)
            /\ http_request_headers' = Tail(http_request_headers)
            /\ HeadersConsumed' = HeadersConsumed + 1
            /\ http_request_body' = http_request_body /\ BodyConsumed' = BodyConsumed
            /\ consume' = Consumed("headers", Head(http_request_headers).last)
         \/ /\ ~consume.body /\ CanRead(http_request_body)
            /\ http_request_body' = Tail(http_request_body)
            /\ BodyConsumed' = BodyConsumed + 1
            /\ http_request_headers' = http_request_headers /\ HeadersConsumed' = HeadersConsumed
            /\ consume' = Consumed("body", Head(http_request_body).last)
<1>1. app \in [requests : Seq(Request), headers : Seq(Beat), body : Seq(Beat)]
  BY DEF MockInv, TypeInv, TypeOK, EnvironmentOK
<1>2. CASE ConsumeHeaders
  <2>1. app'.headers = Append(app.headers, Head(http_request_headers)) /\ app'.body = app.body
    BY <1>1, <1>2 DEF ConsumeHeaders, AppHeaders
  <2>2. HeadersConsumed' = HeadersConsumed + 1 /\ BodyConsumed' = BodyConsumed
    BY <1>1, <2>1, Longer DEF HeadersConsumed, BodyConsumed
  <2> QED BY <1>2, <2>2 DEF ConsumeHeaders, AppHeaders
<1>3. CASE ConsumeBody
  <2>1. app'.body = Append(app.body, Head(http_request_body)) /\ app'.headers = app.headers
    BY <1>1, <1>3 DEF ConsumeBody, AppBody
  <2>2. BodyConsumed' = BodyConsumed + 1 /\ HeadersConsumed' = HeadersConsumed
    BY <1>1, <2>1, Longer DEF HeadersConsumed, BodyConsumed
  <2> QED BY <1>3, <2>2 DEF ConsumeBody, AppBody
<1> QED BY <1>2, <1>3 DEF HttpStep, ConsumeRequest

\* ... so that
LEMMA ConsumePayload ==
  ASSUME MockInv, Payload, HttpStep(ConsumeRequest)
  PROVE  Payload'
<1>1. HeadersOffered' = HeadersOffered /\ BodyOffered' = BodyOffered
  <2>1. CASE /\ CanRead(http_request_headers) /\ http_request_headers' = Tail(http_request_headers)
             /\ HeadersConsumed' = HeadersConsumed + 1
             /\ http_request_body' = http_request_body /\ BodyConsumed' = BodyConsumed
    <3>1. Len(http_request_headers') = Len(http_request_headers) - 1
      BY <2>1, Shorter, PayloadFacts DEF CanRead
    <3>2. HeadersConsumed' = HeadersConsumed + 1
      BY <2>1
    <3>3. HeadersOffered' = HeadersOffered
      BY <3>1, <3>2, PayloadFacts DEF HeadersOffered
    <3>4. BodyOffered' = BodyOffered
      BY <2>1 DEF BodyOffered
    <3> QED BY <3>3, <3>4
  <2>2. CASE /\ CanRead(http_request_body) /\ http_request_body' = Tail(http_request_body)
             /\ BodyConsumed' = BodyConsumed + 1
             /\ http_request_headers' = http_request_headers /\ HeadersConsumed' = HeadersConsumed
    <3>1. Len(http_request_body') = Len(http_request_body) - 1
      BY <2>2, Shorter, PayloadFacts DEF CanRead
    <3>2. BodyConsumed' = BodyConsumed + 1
      BY <2>2
    <3>3. BodyOffered' = BodyOffered
      BY <3>1, <3>2, PayloadFacts DEF BodyOffered
    <3>4. HeadersOffered' = HeadersOffered
      BY <2>2 DEF HeadersOffered
    <3> QED BY <3>3, <3>4
  <2> QED BY <2>1, <2>2, ConsumeTakes
<1>2. UNCHANGED <<exchangeVars, payload_in, pp>>
  BY ConsumeRequestLeaves
<1>3. PayloadRead' = PayloadRead
  BY <1>2 DEF exchangeVars, PayloadRead, PayloadIssued, PayloadDue, Awaiting, Drawn, Delivered
<1> QED BY <1>1, <1>2, <1>3 DEF Payload, PayloadWords

\* The last of a part of the request is taken before the other part of the next.
LEMMA ConsumeConsumption ==
  ASSUME MockInv, Consumption, HttpStep(ConsumeRequest)
  PROVE  Consumption'
<1>1. consume \in [headers : BOOLEAN, body : BOOLEAN] /\ ~(consume.headers /\ consume.body)
  BY DEF MockInv, ConsumeOK
<1>2. CASE /\ ~consume.headers /\ CanRead(http_request_headers)
           /\ http_request_headers' = Tail(http_request_headers)
           /\ HeadersConsumed' = HeadersConsumed + 1
           /\ http_request_body' = http_request_body /\ BodyConsumed' = BodyConsumed
           /\ consume' = Consumed("headers", Head(http_request_headers).last)
  <2>1. /\ Len(http_request_headers) > 0 /\ Head(http_request_headers) = http_request_headers[1]
        /\ \A i \in 1 .. Len(http_request_headers') :
              http_request_headers'[i] = http_request_headers[i + 1] /\ i + 1 \in 1 .. Len(http_request_headers)
    BY <1>2, Shorter, PayloadFacts DEF CanRead
  <2>2. Head(http_request_headers).last
    BY <2>1, PayloadFacts DEF Consumption
  <2>3. Head(http_request_headers).last = TRUE
    <3>1. Head(http_request_headers) \in Beat
      BY <1>2, Shorter, PayloadFacts DEF CanRead
    <3> QED BY <2>2, <3>1 DEF Beat
  <2>4. \/ consume.body /\ ~consume'.headers /\ ~consume'.body
        \/ ~consume.body /\ consume'.headers /\ ~consume'.body
    BY <1>1, <1>2, <2>3 DEF Consumed
  <2>5. \/ BodyEnded = 1 /\ HeadersEnded = 0 /\ HeadersEnded' = 0 /\ BodyEnded' = 0
        \/ BodyEnded = 0 /\ HeadersEnded = 0 /\ HeadersEnded' = 1 /\ BodyEnded' = 0
    BY <1>2, <2>4 DEF One, HeadersEnded, BodyEnded
  <2>6. HeadersConsumed' + BodyEnded' = BodyConsumed' + HeadersEnded'
    <3>1. HeadersConsumed + BodyEnded = BodyConsumed + HeadersEnded
      BY DEF Consumption
    <3>2. HeadersConsumed' = HeadersConsumed + 1 /\ BodyConsumed' = BodyConsumed
      BY <1>2
    <3> QED BY <2>5, <3>1, <3>2, PayloadFacts
  <2> QED BY <1>2, <2>1, <2>6 DEF Consumption
<1>3. CASE /\ ~consume.body /\ CanRead(http_request_body)
           /\ http_request_body' = Tail(http_request_body)
           /\ BodyConsumed' = BodyConsumed + 1
           /\ http_request_headers' = http_request_headers /\ HeadersConsumed' = HeadersConsumed
           /\ consume' = Consumed("body", Head(http_request_body).last)
  <2>1. /\ Len(http_request_body) > 0 /\ Head(http_request_body) = http_request_body[1]
        /\ \A i \in 1 .. Len(http_request_body') :
              http_request_body'[i] = http_request_body[i + 1] /\ i + 1 \in 1 .. Len(http_request_body)
    BY <1>3, Shorter, PayloadFacts DEF CanRead
  <2>2. Head(http_request_body).last
    BY <2>1, PayloadFacts DEF Consumption
  <2>3. Head(http_request_body).last = TRUE
    <3>1. Head(http_request_body) \in Beat
      BY <1>3, Shorter, PayloadFacts DEF CanRead
    <3> QED BY <2>2, <3>1 DEF Beat
  <2>4. \/ consume.headers /\ ~consume'.headers /\ ~consume'.body
        \/ ~consume.headers /\ ~consume'.headers /\ consume'.body
    BY <1>1, <1>3, <2>3 DEF Consumed
  <2>5. \/ HeadersEnded = 1 /\ BodyEnded = 0 /\ BodyEnded' = 0 /\ HeadersEnded' = 0
        \/ HeadersEnded = 0 /\ BodyEnded = 0 /\ BodyEnded' = 1 /\ HeadersEnded' = 0
    BY <1>3, <2>4 DEF One, HeadersEnded, BodyEnded
  <2>6. HeadersConsumed' + BodyEnded' = BodyConsumed' + HeadersEnded'
    <3>1. HeadersConsumed + BodyEnded = BodyConsumed + HeadersEnded
      BY DEF Consumption
    <3>2. BodyConsumed' = BodyConsumed + 1 /\ HeadersConsumed' = HeadersConsumed
      BY <1>3
    <3> QED BY <2>5, <3>1, <3>2, PayloadFacts
  <2> QED BY <1>3, <2>1, <2>6 DEF Consumption
<1> QED BY <1>2, <1>3, ConsumeTakes

\* What req_payload_parser offers, always ends.
LEMMA PpConsumption ==
  ASSUME MockInv, Consumption, Payload, HttpStep(RxPayloadParser)
  PROVE  Consumption'
<1>1. /\ HeadersConsumed' = HeadersConsumed /\ BodyConsumed' = BodyConsumed /\ consume' = consume
      /\ HeadersEnded' = HeadersEnded /\ BodyEnded' = BodyEnded
  BY RxPayloadParserLeaves DEF HeadersConsumed, BodyConsumed, HeadersEnded, BodyEnded
<1>2. /\ pp \in [state : {"HEADER_READ", "HEADER_WRITE", "BODY_READ", "BODY_WRITE"},
                 line : Beat \cup {Unset}]
      /\ pp.state = "HEADER_WRITE" => pp.line \in Beat
  BY DEF MockInv, TypeInv, TypeOK, PpOK, RegistersWritten
<1>3. CASE PpHeaderWrite
  <2>1. http_request_headers' = Append(http_request_headers, HeaderBeat(pp.line))
        /\ http_request_body' = http_request_body
    BY <1>3 DEF PpHeaderWrite
  <2>2. HeaderBeat(pp.line).last
    BY <1>2, <1>3 DEF PpHeaderWrite, HeaderBeat, Beat
  <2>3. \A i \in 1 .. Len(http_request_headers') :
           \/ i \in 1 .. Len(http_request_headers) /\ http_request_headers'[i] = http_request_headers[i]
           \/ i = Len(http_request_headers) + 1 /\ http_request_headers'[i] = HeaderBeat(pp.line)
    BY <2>1, Longer, PayloadFacts
  <2> QED BY <1>1, <2>1, <2>2, <2>3 DEF Consumption
<1>4. CASE PpBodyWrite
  <2>1. http_request_body' = Append(http_request_body, pp.line)
        /\ http_request_headers' = http_request_headers
    BY <1>4 DEF PpBodyWrite
  <2>2. pp.line.last
    BY <1>4 DEF PpBodyWrite, Payload
  <2>3. \A i \in 1 .. Len(http_request_body') :
           \/ i \in 1 .. Len(http_request_body) /\ http_request_body'[i] = http_request_body[i]
           \/ i = Len(http_request_body) + 1 /\ http_request_body'[i] = pp.line
    BY <2>1, Longer, PayloadFacts
  <2> QED BY <1>1, <2>1, <2>2, <2>3 DEF Consumption
<1>5. CASE PpHeaderRead \/ PpBodyRead
  <2>1. UNCHANGED <<http_request_headers, http_request_body>>
    BY <1>5 DEF PpHeaderRead, PpBodyRead, appFifos
  <2> QED BY <1>1, <2>1 DEF Consumption
<1> QED BY <1>3, <1>4, <1>5 DEF HttpStep, RxPayloadParser, RxStep, PayloadParser

-----------------------------------------------------------------------------
(***************************************************************************)
(* The answers: what each process does for them                            *)
(***************************************************************************)

\* What the answers go through are FIFOs, counted.
LEMMA AnswerFacts ==
  ASSUME MockInv
  PROVE  /\ http_response \in Seq(Tx!Response) /\ app.requests \in Seq(Request)
         /\ http_response_headers \in Seq(PlacedWord) /\ http_response_body \in Seq(PlacedWord)
         /\ tx_aligner \in Seq(PlacedWord)
         /\ resp_status_code \in Seq({"OK_200"}) /\ resp_status_line \in Seq({Tx!StatusLine("OK_200")})
         /\ tcp_tx_req \in Seq(Tx!TxRequest) /\ tcp_tx_rsp \in Seq(Tx!TxAnswer)
         /\ settled \in Seq([sessionID : Sessions, length : Nat, outcome : {"accepted", "closed"}])
         /\ tcp_tx_data \in Seq(Al!Word) /\ received \in Seq(Nat)
         /\ tx_sm \in [state : Tx!SmStates, app_response : Tx!Response \cup {Unset}]
         /\ tx_sc \in [state : {"IDLE", "READ_INPUT", "WRITE_OUTPUT"}, status_code : {"OK_200", Unset}]
         /\ produce \in [rsp : Nat \ {0}, word : 1 .. 3]
BY DEF MockInv, ServerFifosOK, PlacedOK, StatusOK, TxOK, AlignerOK, MockOK, ProduceOK, TypeInv, TypeOK,
       EnvironmentOK, IsFifo

\* ... and how many of them there are.
LEMMA AnswerLens ==
  ASSUME MockInv
  PROVE  /\ answering \in Int /\ HeadersTaken \in Int /\ BodyTaken \in Int
         /\ Len(settled) \in Nat /\ Len(tx_aligner) \in Nat /\ Len(tcp_tx_data) \in Nat
         /\ Len(tcp_tx_req) \in Nat /\ Len(tcp_tx_rsp) \in Nat /\ Len(http_response) \in Nat
         /\ Len(resp_status_code) \in Nat /\ Len(resp_status_line) \in Nat
         /\ Len(http_response_headers) \in Nat /\ Len(http_response_body) \in Nat
         /\ (tcp_tx_req = <<>> <=> Len(tcp_tx_req) = 0) /\ (tcp_tx_rsp = <<>> <=> Len(tcp_tx_rsp) = 0)
<1>1. produce.rsp \in Int /\ produce.word \in Int
  BY AnswerFacts
<1>2. Len(app.requests) \in Int /\ Len(http_response) \in Int
  BY AnswerFacts
<1>3. answering \in Int
  BY <1>2 DEF answering
<1>4. Len(http_response_headers) \in Nat /\ Len(http_response_body) \in Nat
  BY AnswerFacts
<1>5. HeadersTaken \in Int
  BY <1>1, <1>4 DEF HeadersTaken
<1>6. BodyTaken \in Int
  BY <1>1, <1>4 DEF BodyTaken
<1> QED BY SMTT(30), <1>2, <1>3, <1>4, <1>5, <1>6, AnswerFacts

\* state_machine of the response path takes an answer,
TxTakesAnswer ==
  /\ tx_sm.state = "IDLE" /\ tx_sm' = [state |-> "TCP_REQ", app_response |-> Head(http_response)]
  /\ http_response # <<>> /\ http_response' = Tail(http_response)
  /\ resp_status_code' = Append(resp_status_code, Head(http_response).status_code)
  /\ UNCHANGED <<http_response_headers, http_response_body, tcp_tx_req, tcp_tx_rsp, tx_aligner,
                 resp_status_line>>
\* asks for it to be sent,
TxAsks ==
  /\ tx_sm.state = "TCP_REQ" /\ tx_sm' = [tx_sm EXCEPT !.state = "TCP_RSP"]
  /\ tcp_tx_req' = Append(tcp_tx_req, [sessionID |-> tx_sm.app_response.sessionID,
                                       length    |-> Tx!Announced(tx_sm.app_response)])
  /\ UNCHANGED <<http_response, http_response_headers, http_response_body, tcp_tx_rsp, tx_aligner,
                 resp_status_code, resp_status_line>>
\* hears of it,
TxHears ==
  /\ tx_sm.state = "TCP_RSP" /\ tx_sm' = [tx_sm EXCEPT !.state = Tx!AfterRsp(Head(tcp_tx_rsp).error)]
  /\ tcp_tx_rsp # <<>> /\ tcp_tx_rsp' = Tail(tcp_tx_rsp)
  /\ UNCHANGED <<http_response, http_response_headers, http_response_body, tcp_tx_req, tx_aligner,
                 resp_status_code, resp_status_line>>
\* takes the status line,
TxTakesStatus ==
  /\ tx_sm.state = "DATA_HTTP_STATUS" /\ tx_sm' = [tx_sm EXCEPT !.state = "DATA_HEADERS"]
  /\ resp_status_line # <<>> /\ resp_status_line' = Tail(resp_status_line)
  /\ UNCHANGED <<http_response, http_response_headers, http_response_body, tcp_tx_req, tcp_tx_rsp,
                 tx_aligner, resp_status_code>>
\* passes the headers on,
TxTakesHeaders ==
  /\ tx_sm.state = "DATA_HEADERS"
  /\ tx_sm' = [tx_sm EXCEPT !.state = IF Head(http_response_headers).last THEN "DATA_CRLF" ELSE "DATA_HEADERS"]
  /\ http_response_headers # <<>> /\ http_response_headers' = Tail(http_response_headers)
  /\ tx_aligner' = Append(tx_aligner, Tx!Middle(Head(http_response_headers)))
  /\ UNCHANGED <<http_response, http_response_body, tcp_tx_req, tcp_tx_rsp, resp_status_code,
                 resp_status_line>>
\* adds the CR LF
TxAddsCrlf ==
  /\ tx_sm.state = "DATA_CRLF" /\ tx_sm' = [tx_sm EXCEPT !.state = "DATA_BODY"]
  /\ tx_aligner' = Append(tx_aligner, Tx!Crlf)
  /\ UNCHANGED <<http_response, http_response_headers, http_response_body, tcp_tx_req, tcp_tx_rsp,
                 resp_status_code, resp_status_line>>
\* and passes the body on.
TxTakesBody ==
  /\ tx_sm.state = "DATA_BODY"
  /\ tx_sm' = [tx_sm EXCEPT !.state = IF Head(http_response_body).last THEN "IDLE" ELSE "DATA_BODY"]
  /\ http_response_body # <<>> /\ http_response_body' = Tail(http_response_body)
  /\ tx_aligner' = Append(tx_aligner, Head(http_response_body))
  /\ UNCHANGED <<http_response, http_response_headers, tcp_tx_req, tcp_tx_rsp, resp_status_code,
                 resp_status_line>>

\* It does no more, since the mock never closes a connection.
LEMMA TxMoves ==
  ASSUME Asked, HttpStep(TxStateMachine)
  PROVE  \/ TxTakesAnswer \/ TxAsks \/ TxHears \/ TxTakesStatus \/ TxTakesHeaders \/ TxAddsCrlf
         \/ TxTakesBody
<1>1. CASE Tx!SmIdle
  BY <1>1 DEF Tx!SmIdle, TxTakesAnswer, Tx!CanRead, Tx!tcpFifos
<1>2. CASE Tx!SmTcpReq
  BY <1>2 DEF Tx!SmTcpReq, TxAsks, Tx!appFifos, Tx!innerFifos
<1>3. CASE Tx!SmTcpRsp
  BY <1>3 DEF Tx!SmTcpRsp, TxHears, Tx!CanRead, Tx!appFifos, Tx!innerFifos
<1>4. CASE Tx!SmDataHttpStatus
  BY <1>4 DEF Tx!SmDataHttpStatus, TxTakesStatus, Tx!CanRead, Tx!appFifos, Tx!tcpFifos
<1>5. CASE Tx!SmDataHeaders
  BY <1>5 DEF Tx!SmDataHeaders, TxTakesHeaders, Tx!CanRead, Tx!tcpFifos
<1>6. CASE Tx!SmDataCrlf
  BY <1>6 DEF Tx!SmDataCrlf, TxAddsCrlf, Tx!appFifos, Tx!tcpFifos
<1>7. CASE Tx!SmDataBody
  BY <1>7 DEF Tx!SmDataBody, TxTakesBody, Tx!CanRead, Tx!tcpFifos
<1>8. CASE Tx!SmFlushHeadline \/ Tx!SmFlushHeaders \/ Tx!SmFlushBody
  BY <1>8 DEF Tx!SmFlushHeadline, Tx!SmFlushHeaders, Tx!SmFlushBody, Asked
<1> QED BY <1>1, <1>2, <1>3, <1>4, <1>5, <1>6, <1>7, <1>8
        DEF HttpStep, TxStateMachine, TxStep, Tx!StateMachine

\* An answer more is worked on when it is taken, and not when it is made.
LEMMA AnsweringSteps ==
  ASSUME MockInv
  PROVE  /\ HttpStep(TxStateMachine) /\ TxTakesAnswer => answering' = answering + 1
         /\ HttpStep(TxStateMachine) /\ http_response' = http_response => answering' = answering
         /\ HttpStep(ProcessNotify) => answering' = answering
<1>1. Len(app.requests) \in Int /\ Len(http_response) \in Nat
  BY AnswerFacts
<1>2. ASSUME HttpStep(TxStateMachine), TxTakesAnswer PROVE answering' = answering + 1
  <2>1. Len(app'.requests) = Len(app.requests)
    BY <1>2, TxStateMachineLeaves
  <2>2. Len(http_response') = Len(http_response) - 1
    BY <1>2, Shorter, AnswerFacts DEF TxTakesAnswer
  <2> QED BY <1>1, <2>1, <2>2 DEF answering
<1>3. ASSUME HttpStep(TxStateMachine), http_response' = http_response PROVE answering' = answering
  BY <1>3, TxStateMachineLeaves DEF answering
<1>4. ASSUME HttpStep(ProcessNotify) PROVE answering' = answering
  <2>1. Len(app'.requests) = Len(app.requests) + 1
    BY <1>4, Longer, AnswerFacts, ProcessNotifyTakes
  <2>2. Len(http_response') = Len(http_response) + 1
    BY <1>4, Longer, AnswerFacts, ProcessNotifyTakes
  <2> QED BY <1>1, <2>1, <2>2 DEF answering
<1> QED BY <1>2, <1>3, <1>4

\* The sizes are those of the application from the answer being made to its
\* being settled.
LEMMA NotifySizes ==
  ASSUME MockInv, SizesMade, HttpStep(ProcessNotify)
  PROVE  SizesMade'
<1>1. http_response' = Append(http_response, ResponseTo(Head(http_request).meta.sessionID))
  BY ProcessNotifyTakes
<1>2. UNCHANGED <<tx_sm, tcp_tx_req, settled>>
  BY ProcessNotifyLeaves
<1> DEFINE r == ResponseTo(Head(http_request).meta.sessionID)
<1>3. Made(r)
  BY DEF Made, ResponseTo
<1> HIDE DEF r
<1>4. \A i \in 1 .. Len(http_response') :
         \/ i \in 1 .. Len(http_response) /\ http_response'[i] = http_response[i]
         \/ i = Len(http_response) + 1 /\ http_response'[i] = r
  BY SMTT(30), <1>1, Longer, AnswerFacts DEF r
<1>5. \A i \in 1 .. Len(http_response') : Made(http_response'[i])
  BY <1>3, <1>4 DEF SizesMade
<1> QED BY <1>2, <1>5 DEF SizesMade

\* ... by state_machine
LEMMA TxSizes ==
  ASSUME MockInv, Asked, SizesMade, HttpStep(TxStateMachine)
  PROVE  SizesMade'
<1>1. settled' = settled
  BY TxStateMachineLeaves
<1>2. tx_sm \in [state : Tx!SmStates, app_response : Tx!Response \cup {Unset}]
  BY AnswerFacts
<1>3. CASE TxTakesAnswer
  <2>1. /\ Len(http_response) > 0 /\ Head(http_response) = http_response[1] /\ Len(http_response) \in Nat
        /\ \A i \in 1 .. Len(http_response') : http_response'[i] = http_response[i + 1] /\ i + 1 \in 1 .. Len(http_response)
    BY SMTT(30), <1>3, Shorter, AnswerFacts DEF TxTakesAnswer
  <2>2. Made(Head(http_response))
    BY <2>1 DEF SizesMade
  <2>3. tx_sm'.app_response = Head(http_response) /\ tcp_tx_req' = tcp_tx_req
    BY <1>3 DEF TxTakesAnswer
  <2>4. \A i \in 1 .. Len(http_response') : Made(http_response'[i])
    BY <2>1 DEF SizesMade
  <2> QED BY <1>1, <2>2, <2>3, <2>4 DEF SizesMade
<1>4. CASE TxAsks
  <2> DEFINE e == [sessionID |-> tx_sm.app_response.sessionID, length |-> Tx!Announced(tx_sm.app_response)]
  <2>1. tcp_tx_req' = Append(tcp_tx_req, e) /\ http_response' = http_response
        /\ tx_sm'.app_response = tx_sm.app_response /\ tx_sm.state # "IDLE"
    BY <1>2, <1>4 DEF TxAsks
  <2>2. e.length = AnswerLength
    <3>1. Made(tx_sm.app_response)
      BY <2>1 DEF SizesMade
    <3> QED BY <3>1 DEF Made, Tx!Announced, AnswerLength
  <2> HIDE DEF e
  <2>3. \A i \in 1 .. Len(tcp_tx_req') :
           \/ i \in 1 .. Len(tcp_tx_req) /\ tcp_tx_req'[i] = tcp_tx_req[i]
           \/ i = Len(tcp_tx_req) + 1 /\ tcp_tx_req'[i] = e
    <3>1. tcp_tx_req \in Seq(Tx!TxRequest) /\ tcp_tx_req' = Append(tcp_tx_req, e)
      BY <2>1, AnswerFacts
    <3> QED BY <3>1, Longer
  <2>4. \A i \in 1 .. Len(tcp_tx_req') : tcp_tx_req'[i].length = AnswerLength
    BY <2>2, <2>3 DEF SizesMade
  <2> QED BY <1>1, <2>1, <2>4 DEF SizesMade
<1>5. ASSUME TxHears \/ TxTakesStatus \/ TxTakesHeaders \/ TxAddsCrlf \/ TxTakesBody
      PROVE  SizesMade'
  <2>1. /\ http_response' = http_response /\ tcp_tx_req' = tcp_tx_req /\ tx_sm.state # "IDLE"
        /\ tx_sm'.app_response = tx_sm.app_response
    BY <1>2, <1>5 DEF TxHears, TxTakesStatus, TxTakesHeaders, TxAddsCrlf, TxTakesBody
  <2> QED BY <1>1, <2>1 DEF SizesMade
<1> QED BY <1>3, <1>4, <1>5, TxMoves

\* ... and by tx_mock.
LEMMA MockSizes ==
  ASSUME MockInv, SizesMade, TxMock
  PROVE  SizesMade'
<1>1. UNCHANGED <<http_response, tx_sm>>
  BY TxMockLeaves
<1>2. CASE TxMockIdle
  <2> DEFINE e == [sessionID |-> Head(tcp_tx_req).sessionID, length |-> Head(tcp_tx_req).length,
                   outcome |-> "accepted"]
  <2>1. tcp_tx_req # <<>> /\ tcp_tx_req' = Tail(tcp_tx_req) /\ settled' = Append(settled, e)
    BY <1>2 DEF TxMockIdle, CanRead
  <2>2. /\ Len(tcp_tx_req) > 0 /\ Head(tcp_tx_req) = tcp_tx_req[1] /\ Len(tcp_tx_req) \in Nat
        /\ \A i \in 1 .. Len(tcp_tx_req') : tcp_tx_req'[i] = tcp_tx_req[i + 1] /\ i + 1 \in 1 .. Len(tcp_tx_req)
    BY SMTT(30), <2>1, Shorter, AnswerFacts
  <2>3. e.length = AnswerLength
    BY <2>2 DEF SizesMade
  <2> HIDE DEF e
  <2>4. \A i \in 1 .. Len(settled') :
           \/ i \in 1 .. Len(settled) /\ settled'[i] = settled[i]
           \/ i = Len(settled) + 1 /\ settled'[i] = e
    BY SMTT(30), <2>1, Longer, AnswerFacts
  <2>5. \A i \in 1 .. Len(settled') : settled'[i].length = AnswerLength
    BY <2>3, <2>4 DEF SizesMade
  <2>6. \A i \in 1 .. Len(tcp_tx_req') : tcp_tx_req'[i].length = AnswerLength
    BY <2>2 DEF SizesMade
  <2> QED BY <1>1, <2>5, <2>6 DEF SizesMade
<1>3. CASE TxMockHandshake \/ TxMockConsumeData
  <2>1. UNCHANGED <<tcp_tx_req, settled>>
    BY <1>3 DEF TxMockHandshake, TxMockConsumeData
  <2> QED BY <1>1, <2>1 DEF SizesMade
<1> QED BY <1>2, <1>3 DEF TxMock

\* state_machine asks for one answer at a time and goes on with it once it is
\* accepted.
LEMMA TxAsked ==
  ASSUME MockInv, Asked, HttpStep(TxStateMachine)
  PROVE  Asked'
<1>1. /\ settled' = settled /\ tx_mock' = tx_mock
  BY TxStateMachineLeaves
<1>2. /\ tx_sm \in [state : Tx!SmStates, app_response : Tx!Response \cup {Unset}]
      /\ answering \in Int /\ Len(settled) \in Nat
  BY AnswerFacts, AnswerLens
<1>3. CASE TxTakesAnswer
  <2>1. tx_sm.state = "IDLE" /\ tx_sm'.state = "TCP_REQ" /\ UNCHANGED <<tcp_tx_req, tcp_tx_rsp>>
    BY <1>3 DEF TxTakesAnswer
  <2>2. answering' = answering + 1
    BY <1>3, AnsweringSteps
  <2> QED BY <1>1, <1>2, <2>1, <2>2 DEF Asked
<1>4. CASE TxAsks
  <2>1. tx_sm.state = "TCP_REQ" /\ tx_sm'.state = "TCP_RSP" /\ tcp_tx_rsp' = tcp_tx_rsp
        /\ http_response' = http_response
    BY <1>2, <1>4 DEF TxAsks
  <2>2. Len(tcp_tx_req') = Len(tcp_tx_req) + 1
    BY <1>4, Longer, AnswerFacts DEF TxAsks
  <2>3. Len(tcp_tx_req') = 1
    BY <2>1, <2>2, AnswerLens DEF Asked
  <2>4. answering' = answering
    BY <2>1, AnsweringSteps
  <2> QED BY <1>1, <1>2, <2>1, <2>3, <2>4 DEF Asked
<1>5. CASE TxHears
  <2>1. tx_sm.state = "TCP_RSP" /\ tcp_tx_req' = tcp_tx_req /\ tcp_tx_rsp # <<>>
        /\ tcp_tx_rsp' = Tail(tcp_tx_rsp) /\ http_response' = http_response
    BY <1>5 DEF TxHears
  <2>2. /\ tcp_tx_req = <<>> /\ Len(tcp_tx_rsp) = 1 /\ tcp_tx_rsp[1].error = 0
        /\ tx_mock = "CONSUME_DATA" /\ Len(settled) = answering
    BY <2>1 DEF Asked
  <2>3. Head(tcp_tx_rsp) = tcp_tx_rsp[1] /\ tcp_tx_rsp' = <<>>
    <3>1. Len(tcp_tx_rsp') = 0 /\ Head(tcp_tx_rsp) = tcp_tx_rsp[1]
      BY <2>1, <2>2, Shorter, AnswerFacts
    <3>2. tcp_tx_rsp' \in Seq(Tx!TxAnswer)
      BY <2>1, AnswerFacts
    <3> QED BY <3>1, <3>2
  <2>4. tx_sm'.state = "DATA_HTTP_STATUS"
    BY <1>2, <1>5, <2>2, <2>3 DEF TxHears, Tx!AfterRsp
  <2>5. answering' = answering
    BY <2>1, AnsweringSteps
  <2> QED BY <1>1, <1>2, <2>1, <2>2, <2>3, <2>4, <2>5 DEF Asked
<1>6. ASSUME TxTakesStatus \/ TxTakesHeaders \/ TxAddsCrlf \/ TxTakesBody
      PROVE  Asked'
  <2>1. /\ UNCHANGED <<http_response, tcp_tx_req, tcp_tx_rsp>>
        /\ tx_sm.state \in {"DATA_HTTP_STATUS", "DATA_HEADERS", "DATA_CRLF", "DATA_BODY"}
        /\ tx_sm'.state \in {"DATA_HEADERS", "DATA_CRLF", "DATA_BODY", "IDLE"}
    BY <1>2, <1>6 DEF TxTakesStatus, TxTakesHeaders, TxAddsCrlf, TxTakesBody
  <2>2. answering' = answering
    BY <2>1, AnsweringSteps
  <2> QED BY <1>1, <1>2, <2>1, <2>2 DEF Asked
<1> QED BY <1>3, <1>4, <1>5, <1>6, TxMoves

\* The mock accepts every answer.
LEMMA HeardIsAccepted ==
  ASSUME MockInv, Asked, TxHears
  PROVE  Head(tcp_tx_rsp).error = 0 /\ tx_sm'.state = "DATA_HTTP_STATUS"
<1>1. tcp_tx_rsp[1].error = 0 /\ tcp_tx_rsp # <<>>
  BY DEF Asked, TxHears
<1>2. Head(tcp_tx_rsp) = tcp_tx_rsp[1]
  BY <1>1, Shorter, AnswerFacts
<1>3. tx_sm \in [state : Tx!SmStates, app_response : Tx!Response \cup {Unset}]
  BY AnswerFacts
<1> QED BY <1>1, <1>2, <1>3 DEF TxHears, Tx!AfterRsp

\* One status line is under way.
LEMMA TxStatus ==
  ASSUME MockInv, Asked, StatusUnderWay, HttpStep(TxStateMachine)
  PROVE  StatusUnderWay'
<1> DEFINE Due(state) == One(state \in {"TCP_REQ", "TCP_RSP", "DATA_HTTP_STATUS"})
           written_ == One(tx_sc.state = "WRITE_OUTPUT")
<1>1. tx_sc' = tx_sc /\ written_ \in {0, 1}
  BY TxStateMachineLeaves DEF One
<1>2. tx_sm \in [state : Tx!SmStates, app_response : Tx!Response \cup {Unset}]
  BY AnswerFacts
<1>3. Len(resp_status_code) + written_ + Len(resp_status_line) = Due(tx_sm.state)
      /\ (tx_sc.state = "READ_INPUT" => resp_status_code # <<>>)
  BY DEF StatusUnderWay
<1>4. SUFFICES /\ Len(resp_status_code') + written_ + Len(resp_status_line') = Due(tx_sm'.state)
               /\ tx_sc.state = "READ_INPUT" => resp_status_code' # <<>>
  BY <1>1 DEF StatusUnderWay
<1>5. CASE TxTakesAnswer
  <2>1. Due(tx_sm.state) = 0 /\ Due(tx_sm'.state) = 1 /\ resp_status_line' = resp_status_line
    BY <1>5 DEF TxTakesAnswer, One
  <2>2. Len(resp_status_code') = Len(resp_status_code) + 1
    BY <1>5, Longer, AnswerFacts DEF TxTakesAnswer
  <2>3. resp_status_code' # <<>>
    BY <2>2, AnswerLens
  <2> HIDE DEF Due, written_
  <2> QED BY SMTT(30), <1>1, <1>3, <2>1, <2>2, <2>3, AnswerLens
<1>6. CASE TxTakesStatus
  <2>1. Due(tx_sm.state) = 1 /\ Due(tx_sm'.state) = 0 /\ resp_status_code' = resp_status_code
    BY <1>2, <1>6 DEF TxTakesStatus, One
  <2>2. Len(resp_status_line) > 0 /\ Len(resp_status_line') = Len(resp_status_line) - 1
    BY <1>6, Shorter, AnswerFacts DEF TxTakesStatus
  <2> HIDE DEF Due, written_
  <2> QED BY <1>1, <1>3, <2>1, <2>2, AnswerLens
<1>7. ASSUME TxAsks \/ TxHears \/ TxTakesHeaders \/ TxAddsCrlf \/ TxTakesBody
      PROVE  /\ Len(resp_status_code') + written_ + Len(resp_status_line') = Due(tx_sm'.state)
             /\ tx_sc.state = "READ_INPUT" => resp_status_code' # <<>>
  <2>1. UNCHANGED <<resp_status_code, resp_status_line>>
    BY <1>7 DEF TxAsks, TxHears, TxTakesHeaders, TxAddsCrlf, TxTakesBody
  <2>2. \/ tx_sm.state \in {"TCP_REQ", "TCP_RSP"} /\ tx_sm'.state \in {"TCP_RSP", "DATA_HTTP_STATUS"}
        \/ tx_sm.state \in {"DATA_HEADERS", "DATA_CRLF", "DATA_BODY"}
           /\ tx_sm'.state \in {"DATA_HEADERS", "DATA_CRLF", "DATA_BODY", "IDLE"}
    <3>1. CASE TxHears
      BY <1>2, <3>1, HeardIsAccepted DEF TxHears
    <3> QED BY <1>2, <1>7, <3>1 DEF TxAsks, TxTakesHeaders, TxAddsCrlf, TxTakesBody
  <2>3. Due(tx_sm'.state) = Due(tx_sm.state)
    BY <2>2 DEF One
  <2> QED BY <1>3, <2>1, <2>3
<1> QED BY <1>5, <1>6, <1>7, TxMoves

\* ... which status_code_parser makes.
LEMMA ScStatus ==
  ASSUME MockInv, StatusUnderWay, HttpStep(TxStatusCodeParser)
  PROVE  StatusUnderWay'
<1> DEFINE lines == One(tx_sm.state \in {"TCP_REQ", "TCP_RSP", "DATA_HTTP_STATUS"})
           Written(state) == One(state = "WRITE_OUTPUT")
<1>1. tx_sm' = tx_sm
  BY TxStatusCodeParserLeaves
<1>2. tx_sc \in [state : {"IDLE", "READ_INPUT", "WRITE_OUTPUT"}, status_code : {"OK_200", Unset}]
  BY AnswerFacts
<1>3. /\ Len(resp_status_code) + Written(tx_sc.state) + Len(resp_status_line) = lines
      /\ tx_sc.state = "READ_INPUT" => resp_status_code # <<>>
  BY DEF StatusUnderWay
<1>4. SUFFICES /\ Len(resp_status_code') + Written(tx_sc'.state) + Len(resp_status_line') = lines
               /\ tx_sc'.state = "READ_INPUT" => resp_status_code' # <<>>
  BY <1>1 DEF StatusUnderWay
<1>5. CASE Tx!ScIdle
  <2>1. /\ tx_sc.state = "IDLE" /\ tx_sc'.state = "READ_INPUT" /\ resp_status_code # <<>>
        /\ UNCHANGED <<resp_status_code, resp_status_line>>
    BY <1>2, <1>5 DEF Tx!ScIdle, Tx!CanRead, Tx!innerFifos
  <2>2. Written(tx_sc.state) = 0 /\ Written(tx_sc'.state) = 0
    BY <2>1 DEF One
  <2> QED BY <1>3, <2>1, <2>2
<1>6. CASE Tx!ScReadInput
  <2>1. /\ tx_sc.state = "READ_INPUT" /\ tx_sc'.state = "WRITE_OUTPUT" /\ resp_status_line' = resp_status_line
    BY <1>2, <1>6 DEF Tx!ScReadInput
  <2>2. Written(tx_sc.state) = 0 /\ Written(tx_sc'.state) = 1
    BY <2>1 DEF One
  <2>3. Len(resp_status_code') = Len(resp_status_code) - 1
    BY <1>6, Shorter, AnswerFacts DEF Tx!ScReadInput, Tx!CanRead
  <2> HIDE DEF lines, Written
  <2> QED BY <1>3, <2>1, <2>2, <2>3, AnswerLens
<1>7. CASE Tx!ScWriteOutput
  <2>1. /\ tx_sc.state = "WRITE_OUTPUT" /\ tx_sc'.state = "IDLE" /\ resp_status_code' = resp_status_code
    BY <1>2, <1>7 DEF Tx!ScWriteOutput
  <2>2. Written(tx_sc.state) = 1 /\ Written(tx_sc'.state) = 0
    BY <2>1 DEF One
  <2>3. Len(resp_status_line') = Len(resp_status_line) + 1
    BY <1>7, AnswerFacts DEF Tx!ScWriteOutput
  <2> HIDE DEF lines, Written
  <2> QED BY <1>3, <2>1, <2>2, <2>3, AnswerLens
<1> QED BY <1>5, <1>6, <1>7 DEF HttpStep, TxStatusCodeParser, TxStep, Tx!StatusCodeParser

-----------------------------------------------------------------------------
(***************************************************************************)
(* The words of the answers                                                *)
(***************************************************************************)

\* What WordsWritten says of what is taken, in each state of state_machine.
TakenSoFar ==
  /\ BodyTaken = IF tx_sm.state = "IDLE" THEN answering ELSE answering - 1
  /\ tx_sm.state \in {"IDLE", "DATA_CRLF", "DATA_BODY"} => HeadersTaken = 2 * answering
  /\ tx_sm.state \in {"TCP_REQ", "TCP_RSP", "DATA_HTTP_STATUS"} => HeadersTaken = 2 * answering - 2
  /\ tx_sm.state = "DATA_HEADERS" => HeadersTaken \in {2 * answering - 2, 2 * answering - 1}
HeadersPieces == \A i \in 1 .. Len(http_response_headers) : HeadersPiece(http_response_headers[i], HeadersTaken + i)
BodyPieces    == \A i \in 1 .. Len(http_response_body) : BodyPiece(http_response_body[i])

\* produce_response writes the word that comes next, and nothing is taken.
LEMMA ProduceWords ==
  ASSUME MockInv, WordsWritten, HttpStep(ProduceResponse)
  PROVE  WordsWritten' /\ HeadersTaken' = HeadersTaken
<1>1. tx_sm' = tx_sm /\ answering' = answering
  BY ProduceResponseLeaves DEF askedVars, answering
<1>2. /\ produce.rsp \in Nat \ {0} /\ produce.word \in 1 .. 3
      /\ produce \in [rsp : Nat \ {0}, word : 1 .. 3] /\ ProduceOK
  BY AnswerFacts DEF ProduceOK
<1>3. Len(http_response_headers) \in Nat /\ Len(http_response_body) \in Nat
  BY AnswerLens
<1>4. HeadersPieces /\ BodyPieces /\ TakenSoFar
  BY DEF WordsWritten, HeadersPieces, BodyPieces, TakenSoFar
<1>5. SUFFICES HeadersPieces' /\ BodyPieces' /\ BodyTaken' = BodyTaken /\ HeadersTaken' = HeadersTaken
  BY <1>1, <1>4 DEF WordsWritten, HeadersPieces, BodyPieces, TakenSoFar
<1>6. CASE ProduceHeaders
  <2> DEFINE w == HeadersWord(produce.word)
  <2>1. /\ produce.word \in {1, 2} /\ http_response_headers' = Append(http_response_headers, w)
        /\ produce' = [produce EXCEPT !.word = @ + 1] /\ http_response_body' = http_response_body
    BY <1>6 DEF ProduceHeaders
  <2>2. w.part = "headers" /\ w.pos = produce.word /\ HeadersWordOK(w)
    BY <1>2, <2>1, WrittenWords
  <2> HIDE DEF w
  <2>3. /\ Len(http_response_headers') = Len(http_response_headers) + 1
        /\ \A i \in 1 .. Len(http_response_headers') :
             \/ i \in 1 .. Len(http_response_headers) /\ http_response_headers'[i] = http_response_headers[i]
             \/ i = Len(http_response_headers) + 1 /\ http_response_headers'[i] = w
    BY SMTT(30), <2>1, Longer, AnswerFacts
  <2>4. produce'.rsp = produce.rsp /\ produce'.word = produce.word + 1
    BY <1>2, <2>1
  <2>5. HeadersTaken' = HeadersTaken /\ BodyTaken' = BodyTaken
    BY <1>2, <1>3, <2>1, <2>3, <2>4 DEF HeadersTaken, BodyTaken
  <2>6. HeadersTaken + (Len(http_response_headers) + 1) = 2 * (produce.rsp - 1) + w.pos /\ produce.rsp - 1 \in Nat
    BY SMTT(30), <1>2, <1>3, <2>2 DEF HeadersTaken
  <2>7. HeadersPiece(w, HeadersTaken + (Len(http_response_headers) + 1))
    BY <2>2, <2>6 DEF HeadersPiece
  <2>8. HeadersPieces'
    BY <1>4, <2>3, <2>5, <2>7 DEF HeadersPieces
  <2> QED BY <1>4, <2>1, <2>5, <2>8 DEF BodyPieces
<1>7. CASE ProduceBody
  <2> DEFINE w == Tx!WordOf(produce.rsp, "body", 1, body_size)
  <2>1. /\ produce.word = 3 /\ http_response_body' = Append(http_response_body, w)
        /\ produce' = [rsp |-> produce.rsp + 1, word |-> 1] /\ http_response_headers' = http_response_headers
    BY <1>7 DEF ProduceBody
  <2>2. BodyPiece(w)
    BY <1>2, WrittenWords DEF BodyPiece
  <2> HIDE DEF w
  <2>3. /\ Len(http_response_body') = Len(http_response_body) + 1
        /\ \A i \in 1 .. Len(http_response_body') :
             \/ i \in 1 .. Len(http_response_body) /\ http_response_body'[i] = http_response_body[i]
             \/ i = Len(http_response_body) + 1 /\ http_response_body'[i] = w
    BY SMTT(30), <2>1, Longer, AnswerFacts
  <2>4. produce'.rsp = produce.rsp + 1 /\ produce'.word = 1
    BY <2>1
  <2>5. HeadersTaken' = HeadersTaken /\ BodyTaken' = BodyTaken
    BY SMTT(30), <1>2, <1>3, <2>1, <2>3, <2>4 DEF HeadersTaken, BodyTaken
  <2>6. BodyPieces'
    BY <1>4, <2>2, <2>3 DEF BodyPieces
  <2>7. HeadersPieces'
    BY <1>4, <2>1, <2>5 DEF HeadersPieces
  <2> QED BY <2>5, <2>6, <2>7
<1> QED BY <1>6, <1>7 DEF HttpStep, ProduceResponse

\* process_notify writes no word,
LEMMA NotifyWords ==
  ASSUME MockInv, WordsWritten, HttpStep(ProcessNotify)
  PROVE  WordsWritten'
<1>1. UNCHANGED <<http_response_headers, http_response_body, produce, tx_sm>>
  BY ProcessNotifyLeaves
<1>2. answering' = answering
  BY AnsweringSteps
<1> QED BY <1>1, <1>2 DEF WordsWritten, HeadersTaken, BodyTaken

\* state_machine takes a word of headers.
LEMMA TakesOneHeaders ==
  ASSUME MockInv, HttpStep(TxStateMachine), TxTakesHeaders
  PROVE  HeadersTaken' = HeadersTaken + 1
<1> DEFINE whole == 2 * (produce.rsp - 1)
           part  == produce.word - 1
<1>1. produce' = produce /\ produce.rsp \in Int /\ produce.word \in Int
  BY AnswerFacts, TxStateMachineLeaves
<1>2. /\ Len(http_response_headers) \in Int
      /\ Len(http_response_headers') = Len(http_response_headers) - 1
  BY Shorter, AnswerFacts DEF TxTakesHeaders
<1>3. whole \in Int /\ part \in Int
  BY <1>1
<1>4. /\ HeadersTaken  = whole + (part - Len(http_response_headers))
      /\ HeadersTaken' = whole + (part - Len(http_response_headers'))
  BY <1>1 DEF HeadersTaken
<1> HIDE DEF whole, part
<1> QED BY <1>2, <1>3, <1>4

\* ... and state_machine takes the words of the answer it works on.
LEMMA TxWords ==
  ASSUME MockInv, Asked, WordsWritten, HttpStep(TxStateMachine)
  PROVE  WordsWritten'
<1>1. produce' = produce
  BY TxStateMachineLeaves
<1>2. /\ produce.rsp \in Int /\ produce.word \in Int
      /\ tx_sm \in [state : Tx!SmStates, app_response : Tx!Response \cup {Unset}]
  BY AnswerFacts
<1>3. /\ Len(http_response_headers) \in Nat /\ Len(http_response_body) \in Nat
      /\ answering \in Int /\ HeadersTaken \in Int /\ BodyTaken \in Int
  BY AnswerLens
<1>4. HeadersPieces /\ BodyPieces /\ TakenSoFar
  BY DEF WordsWritten, HeadersPieces, BodyPieces, TakenSoFar
<1>5. SUFFICES HeadersPieces' /\ BodyPieces' /\ TakenSoFar'
  BY DEF WordsWritten, HeadersPieces, BodyPieces, TakenSoFar
<1>6. ASSUME UNCHANGED http_response_headers PROVE HeadersTaken' = HeadersTaken /\ HeadersPieces'
  BY <1>1, <1>4, <1>6 DEF HeadersTaken, HeadersPieces
<1>7. ASSUME UNCHANGED http_response_body PROVE BodyTaken' = BodyTaken /\ BodyPieces'
  BY <1>1, <1>4, <1>7 DEF BodyTaken, BodyPieces
<1>8. ASSUME UNCHANGED http_response PROVE answering' = answering
  BY <1>8, AnsweringSteps
<1>9. CASE TxTakesAnswer
  <2>1. /\ tx_sm.state = "IDLE" /\ tx_sm'.state = "TCP_REQ"
        /\ UNCHANGED <<http_response_headers, http_response_body>>
    BY <1>9 DEF TxTakesAnswer
  <2>2. answering' = answering + 1
    BY <1>9, AnsweringSteps
  <2> QED BY <1>3, <1>4, <1>6, <1>7, <2>1, <2>2 DEF TakenSoFar
<1>10. CASE TxTakesHeaders
  <2> DEFINE w == Head(http_response_headers)
  <2>1. /\ tx_sm.state = "DATA_HEADERS" /\ tx_sm'.state = IF w.last THEN "DATA_CRLF" ELSE "DATA_HEADERS"
        /\ UNCHANGED <<http_response, http_response_body>>
        /\ http_response_headers # <<>> /\ http_response_headers' = Tail(http_response_headers)
    BY <1>2, <1>10 DEF TxTakesHeaders
  <2>2. /\ Len(http_response_headers) > 0 /\ Len(http_response_headers') = Len(http_response_headers) - 1
        /\ w = http_response_headers[1]
        /\ \A i \in 1 .. Len(http_response_headers') :
             http_response_headers'[i] = http_response_headers[i + 1] /\ i + 1 \in 1 .. Len(http_response_headers)
    BY SMTT(30), <2>1, Shorter, AnswerFacts
  <2>3. HeadersPiece(w, HeadersTaken + 1)
    BY <1>3, <1>4, <2>2 DEF HeadersPieces
  <2>4. HeadersTaken \in {2 * answering - 2, 2 * answering - 1}
    BY <1>4, <2>1 DEF TakenSoFar
  <2> HIDE DEF w
  <2>5. w.last <=> HeadersTaken + 1 = 2 * answering
    <3>1. PICK k \in Nat : HeadersTaken + 1 = 2 * k + w.pos
      BY <2>3 DEF HeadersPiece
    <3>2. \/ w.pos = 1 /\ ~w.last
          \/ w.pos = 2 /\ w.last
      <4>1. HeadersWordOK(w)
        BY <2>3 DEF HeadersPiece
      <4> QED BY <4>1 DEF HeadersWordOK
    <3> QED BY <1>3, <2>4, <3>1, <3>2
  <2>6. HeadersTaken' = HeadersTaken + 1
    BY <1>10, TakesOneHeaders
  <2>7. HeadersPieces'
    <3> SUFFICES ASSUME NEW i \in 1 .. Len(http_response_headers')
                 PROVE  HeadersPiece(http_response_headers'[i], HeadersTaken' + i)
      BY DEF HeadersPieces
    <3>1. HeadersTaken' + i = HeadersTaken + (i + 1)
      BY <1>3, <2>6
    <3>2. HeadersPiece(http_response_headers[i + 1], HeadersTaken + (i + 1))
      BY <1>4, <2>2 DEF HeadersPieces
    <3> QED BY <2>2, <3>1, <3>2
  <2>8. answering' = answering /\ BodyTaken' = BodyTaken /\ BodyPieces'
    BY <1>7, <1>8, <2>1
  <2>9. TakenSoFar'
    BY <1>3, <1>4, <2>1, <2>4, <2>5, <2>6, <2>8 DEF TakenSoFar
  <2> QED BY <2>7, <2>8, <2>9
<1>11. CASE TxTakesBody
  <2> DEFINE w == Head(http_response_body)
  <2>1. /\ tx_sm.state = "DATA_BODY" /\ tx_sm'.state = IF w.last THEN "IDLE" ELSE "DATA_BODY"
        /\ UNCHANGED <<http_response, http_response_headers>>
        /\ http_response_body # <<>> /\ http_response_body' = Tail(http_response_body)
    BY <1>2, <1>11 DEF TxTakesBody
  <2>2. /\ Len(http_response_body) > 0 /\ Len(http_response_body') = Len(http_response_body) - 1
        /\ w = http_response_body[1]
        /\ \A i \in 1 .. Len(http_response_body') :
             http_response_body'[i] = http_response_body[i + 1] /\ i + 1 \in 1 .. Len(http_response_body)
    BY SMTT(30), <2>1, Shorter, AnswerFacts
  <2>3. w.last
    BY <1>3, <1>4, <2>2 DEF BodyPieces, BodyPiece, BodyWordOK
  <2> HIDE DEF w
  <2>4. BodyTaken' = BodyTaken + 1
    BY <1>1, <1>2, <1>3, <2>2 DEF BodyTaken
  <2>5. BodyPieces'
    BY <1>4, <2>2 DEF BodyPieces
  <2>6. answering' = answering /\ HeadersTaken' = HeadersTaken /\ HeadersPieces'
    BY <1>6, <1>8, <2>1
  <2>7. TakenSoFar'
    BY <1>3, <1>4, <2>1, <2>3, <2>4, <2>6 DEF TakenSoFar
  <2> QED BY <2>5, <2>6, <2>7
<1>12. ASSUME TxAsks \/ TxHears \/ TxTakesStatus \/ TxAddsCrlf
       PROVE  HeadersPieces' /\ BodyPieces' /\ TakenSoFar'
  <2>1. UNCHANGED <<http_response, http_response_headers, http_response_body>>
    BY <1>12 DEF TxAsks, TxHears, TxTakesStatus, TxAddsCrlf
  <2>2. \/ tx_sm.state \in {"TCP_REQ", "TCP_RSP"} /\ tx_sm'.state \in {"TCP_RSP", "DATA_HTTP_STATUS"}
        \/ tx_sm.state = "DATA_HTTP_STATUS" /\ tx_sm'.state = "DATA_HEADERS"
        \/ tx_sm.state = "DATA_CRLF" /\ tx_sm'.state = "DATA_BODY"
    <3>1. CASE TxHears
      BY <1>2, <3>1, HeardIsAccepted DEF TxHears
    <3> QED BY <1>2, <1>12, <3>1 DEF TxAsks, TxTakesStatus, TxAddsCrlf
  <2>3. answering' = answering /\ HeadersTaken' = HeadersTaken /\ BodyTaken' = BodyTaken /\ HeadersPieces' /\ BodyPieces'
    BY <1>6, <1>7, <1>8, <2>1
  <2>4. TakenSoFar'
    BY <1>3, <1>4, <2>2, <2>3 DEF TakenSoFar
  <2> QED BY <2>3, <2>4
<1> QED BY <1>9, <1>10, <1>11, <1>12, TxMoves

-----------------------------------------------------------------------------
(***************************************************************************)
(* The answer on its way: what state_machine writes to the aligner         *)
(***************************************************************************)

\* How many words of the answer are written, in each state of state_machine.
LEMMA SentIs ==
  ASSUME MockInv, WordsWritten
  PROVE  /\ Sent \in 0 .. 4
         /\ tx_sm.state \in {"IDLE", "TCP_REQ"} => Sent = 4
         /\ tx_sm.state = "TCP_RSP" => Sent = IF tcp_tx_rsp = <<>> THEN 4 ELSE 0
         /\ tx_sm.state = "DATA_HTTP_STATUS" => Sent = 0
         /\ tx_sm.state = "DATA_HEADERS" => Sent \in {0, 1} /\ HeadersTaken = 2 * answering - 2 + Sent
         /\ tx_sm.state = "DATA_CRLF" => Sent = 2
         /\ tx_sm.state = "DATA_BODY" => Sent = 3
<1>1. HeadersTaken \in Int /\ answering \in Int
  BY AnswerLens
<1>2. CASE tx_sm.state = "DATA_HEADERS"
  <2>1. HeadersTaken \in {2 * answering - 2, 2 * answering - 1} /\ Sent = HeadersTaken - (2 * answering - 2)
    BY <1>2 DEF WordsWritten, Sent
  <2> QED BY <1>1, <1>2, <2>1
<1>3. CASE tx_sm.state # "DATA_HEADERS"
  BY <1>3 DEF Sent, Accepted, One
<1> QED BY <1>2, <1>3

\* A word of the answer goes to the aligner, the next one, once it is accepted.
Feeds(w) == tx_mock = "CONSUME_DATA" /\ Sent' = Sent + 1 /\ Piece(w, Sent + 1) /\ tx_aligner' = Append(tx_aligner, w)

LEMMA TxFeeds ==
  ASSUME MockInv, Asked, WordsWritten, HttpStep(TxStateMachine)
  PROVE  \/ UNCHANGED tx_aligner /\ Sent' = Sent
         \/ \E w : Feeds(w)
<1>1. MockInv' /\ WordsWritten'
  BY TxWords, MockTypesStep DEF MockNext, Path, HttpTop, HttpStep
<1>2. /\ tx_sm \in [state : Tx!SmStates, app_response : Tx!Response \cup {Unset}]
      /\ answering \in Int /\ HeadersTaken \in Int /\ Sent \in 0 .. 4
      /\ Len(http_response_headers) \in Nat /\ Len(http_response_body) \in Nat
  BY AnswerFacts, AnswerLens, SentIs
<1>3. produce' = produce
  BY TxStateMachineLeaves
<1>4. ASSUME UNCHANGED http_response_headers PROVE HeadersTaken' = HeadersTaken
  BY <1>3, <1>4 DEF HeadersTaken
<1>5. ASSUME UNCHANGED http_response PROVE answering' = answering
  BY <1>5, AnsweringSteps
<1>6. CASE TxTakesAnswer
  <2>1. tx_sm.state = "IDLE" /\ tx_sm'.state = "TCP_REQ" /\ tx_aligner' = tx_aligner
    BY <1>6 DEF TxTakesAnswer
  <2>2. Sent = 4 /\ Sent' = 4
    BY <2>1, SentIs DEF Sent, Accepted, One
  <2> QED BY <2>1, <2>2
<1>7. CASE TxAsks
  <2>1. tx_sm.state = "TCP_REQ" /\ tx_sm'.state = "TCP_RSP" /\ UNCHANGED <<tcp_tx_rsp, tx_aligner>>
    BY <1>2, <1>7 DEF TxAsks
  <2>2. tcp_tx_rsp = <<>>
    BY <2>1 DEF Asked
  <2>3. Sent = 4 /\ Sent' = 4
    BY <2>1, <2>2, SentIs DEF Sent, Accepted, One
  <2> QED BY <2>1, <2>3
<1>8. CASE TxHears
  <2>1. tx_sm.state = "TCP_RSP" /\ tx_sm'.state = "DATA_HTTP_STATUS" /\ tcp_tx_rsp # <<>> /\ tx_aligner' = tx_aligner
    BY <1>2, <1>8, HeardIsAccepted DEF TxHears
  <2>2. Sent = 0 /\ Sent' = 0
    BY <2>1, SentIs DEF Sent, Accepted, One
  <2> QED BY <2>1, <2>2
<1>9. CASE TxTakesStatus
  <2>1. /\ tx_sm.state = "DATA_HTTP_STATUS" /\ tx_sm'.state = "DATA_HEADERS"
        /\ UNCHANGED <<tx_aligner, http_response_headers, http_response>>
    BY <1>2, <1>9 DEF TxTakesStatus
  <2> DEFINE before == 2 * answering - 2
  <2>2. before \in Int
    BY <1>2
  <2>3. HeadersTaken' = before
    BY <1>4, <2>1 DEF WordsWritten
  <2>4. Sent = 0 /\ Sent' = HeadersTaken' - before
    BY <1>5, <2>1, SentIs DEF Sent
  <2> HIDE DEF before
  <2> QED BY <2>1, <2>2, <2>3, <2>4
<1>10. CASE TxTakesHeaders
  <2> DEFINE w == Head(http_response_headers)
             sent_ == Tx!Middle(w)
  <2>1. /\ tx_sm.state = "DATA_HEADERS" /\ tx_sm'.state = IF w.last THEN "DATA_CRLF" ELSE "DATA_HEADERS"
        /\ UNCHANGED http_response /\ tx_aligner' = Append(tx_aligner, sent_)
        /\ http_response_headers # <<>> /\ http_response_headers' = Tail(http_response_headers)
    BY <1>2, <1>10 DEF TxTakesHeaders
  <2>2. /\ Len(http_response_headers) > 0 /\ w = http_response_headers[1] /\ w \in PlacedWord
    BY SMTT(30), <2>1, Shorter, AnswerFacts
  <2>3. HeadersPiece(w, HeadersTaken + 1)
    BY <1>2, <2>2 DEF WordsWritten
  <2>4. Sent \in {0, 1} /\ HeadersTaken = 2 * answering - 2 + Sent /\ tx_mock = "CONSUME_DATA"
    BY <2>1, SentIs DEF Asked
  <2>5. /\ sent_.part = w.part /\ sent_.pos = w.pos /\ sent_.bytes = w.bytes /\ ~sent_.last
    BY <2>2 DEF PlacedWord, Tx!Word, Tx!Middle
  <2>6. answering' = answering
    BY <1>5, <2>1
  <2> HIDE DEF w, sent_
  <2>7. HeadersWordOK(w) /\ w.part = "headers"
    BY <2>3 DEF HeadersPiece
  <2>8. w.pos = Sent + 1
    <3>1. PICK k \in Nat : HeadersTaken + 1 = 2 * k + w.pos
      BY <2>3 DEF HeadersPiece
    <3>2. w.pos \in {1, 2}
      BY <2>7 DEF HeadersWordOK
    <3> QED BY <1>2, <2>4, <3>1, <3>2
  <2>9. Piece(sent_, Sent + 1)
    BY <2>4, <2>5, <2>7, <2>8 DEF Piece, HeadersWordOK
  <2>10. Sent' = Sent + 1
    <3>1. CASE w.last
      <4>1. Sent = 1
        BY <2>4, <2>7, <2>8, <3>1 DEF HeadersWordOK
      <4>2. Sent' = 2
        BY <2>1, <3>1 DEF Sent, Accepted, One
      <4> QED BY <4>1, <4>2
    <3>2. CASE ~w.last
      <4>1. Sent = 0
        BY <2>4, <2>7, <2>8, <3>2 DEF HeadersWordOK
      <4>2. tx_sm'.state = "DATA_HEADERS"
        BY <2>1, <3>2
      <4>3. HeadersTaken' \in {2 * answering' - 2, 2 * answering' - 1} /\ Sent' = HeadersTaken' - (2 * answering' - 2)
        BY <1>1, <4>2 DEF WordsWritten, Sent
      <4>4. HeadersTaken' = HeadersTaken + 1
        BY TakesOneHeaders, <1>10
      <4> QED BY <1>2, <2>4, <2>6, <4>1, <4>3, <4>4
    <3> QED BY <3>1, <3>2
  <2> QED BY <2>1, <2>4, <2>9, <2>10 DEF Feeds
<1>11. CASE TxAddsCrlf
  <2>1. tx_sm.state = "DATA_CRLF" /\ tx_sm'.state = "DATA_BODY" /\ tx_aligner' = Append(tx_aligner, Tx!Crlf)
    BY <1>2, <1>11 DEF TxAddsCrlf
  <2>2. Sent = 2 /\ Sent' = 3 /\ tx_mock = "CONSUME_DATA"
    BY <2>1, SentIs DEF Sent, Accepted, One, Asked
  <2>3. Piece(Tx!Crlf, 3)
    BY DEF Piece, Tx!Crlf
  <2> QED BY <2>1, <2>2, <2>3 DEF Feeds
<1>12. CASE TxTakesBody
  <2> DEFINE w == Head(http_response_body)
  <2>1. /\ tx_sm.state = "DATA_BODY" /\ tx_sm'.state = IF w.last THEN "IDLE" ELSE "DATA_BODY"
        /\ tx_aligner' = Append(tx_aligner, w) /\ http_response_body # <<>>
    BY <1>2, <1>12 DEF TxTakesBody
  <2>2. BodyPiece(w)
    <3>1. http_response_body \in Seq(PlacedWord)
      BY AnswerFacts
    <3>2. Len(http_response_body) > 0 /\ w = http_response_body[1]
      BY <2>1, <3>1
    <3> QED BY <1>2, <3>2 DEF WordsWritten
  <2> HIDE DEF w
  <2>3. Piece(w, 4) /\ w.last
    BY <2>2 DEF Piece, BodyPiece, BodyWordOK
  <2>4. Sent = 3 /\ Sent' = 4 /\ tx_mock = "CONSUME_DATA"
    BY <2>1, <2>3, SentIs DEF Sent, Accepted, One, Asked
  <2> QED BY <2>1, <2>3, <2>4 DEF Feeds
<1> QED BY <1>6, <1>7, <1>8, <1>9, <1>10, <1>11, <1>12, TxMoves

\* Nothing happens to the answer under way when the count of its words stands.
LEMMA StillUnderWay ==
  ASSUME AnswerUnderWay, Sent' = Sent, UNCHANGED <<tx_aligner, al, tcp_tx_data, tx_mock, received, settled>>
  PROVE  AnswerUnderWay'
BY DEF AnswerUnderWay, Quiet, InFlight, Pieces, Packs, Aligning, Taken, PackedOut, Read

\* ... as when the application works,
LEMMA ApplicationAnswer ==
  ASSUME MockInv, WordsWritten, AnswerUnderWay, HttpStep(ProduceResponse) \/ HttpStep(ProcessNotify)
  PROVE  AnswerUnderWay'
<1>1. CASE HttpStep(ProduceResponse)
  <2>1. UNCHANGED <<tx_sm, tcp_tx_rsp, http_response, app.requests, tx_mock, settled, tx_aligner, al, tcp_tx_data, received>>
    BY <1>1, ProduceResponseLeaves DEF askedVars
  <2>2. HeadersTaken' = HeadersTaken /\ answering' = answering
    BY <1>1, <2>1, ProduceWords DEF answering
  <2>3. Sent' = Sent
    BY <2>1, <2>2 DEF Sent, Accepted
  <2> QED BY <2>1, <2>3, StillUnderWay
<1>2. CASE HttpStep(ProcessNotify)
  <2>1. UNCHANGED <<tx_sm, tcp_tx_rsp, tx_mock, settled, tx_aligner, al, tcp_tx_data, received, http_response_headers, produce>>
    BY <1>2, ProcessNotifyLeaves
  <2>2. HeadersTaken' = HeadersTaken /\ answering' = answering
    BY <1>2, <2>1, AnsweringSteps DEF HeadersTaken
  <2>3. Sent' = Sent
    BY <2>1, <2>2 DEF Sent, Accepted
  <2> QED BY <2>1, <2>3, StillUnderWay
<1> QED BY <1>1, <1>2

\* ... and a word that state_machine feeds waits behind the others.
LEMMA TxAnswer ==
  ASSUME MockInv, Asked, WordsWritten, AnswerUnderWay, HttpStep(TxStateMachine)
  PROVE  AnswerUnderWay'
<1>1. UNCHANGED <<al, tcp_tx_data, tx_mock, received, settled>>
  BY TxStateMachineLeaves
<1>2. CASE UNCHANGED tx_aligner /\ Sent' = Sent
  BY <1>1, <1>2, StillUnderWay
<1>3. ASSUME NEW w, Feeds(w) PROVE AnswerUnderWay'
  <2>1. tx_mock = "CONSUME_DATA" /\ Sent' = Sent + 1 /\ Piece(w, Sent + 1) /\ tx_aligner' = Append(tx_aligner, w)
    BY <1>3 DEF Feeds
  <2>2. InFlight
    BY <2>1 DEF AnswerUnderWay
  <2>3. /\ Len(tx_aligner) \in Nat /\ Len(tx_aligner') = Len(tx_aligner) + 1
        /\ \A i \in 1 .. Len(tx_aligner') :
             \/ i \in 1 .. Len(tx_aligner) /\ tx_aligner'[i] = tx_aligner[i]
             \/ i = Len(tx_aligner) + 1 /\ tx_aligner'[i] = w
    <3>1. tx_aligner \in Seq(PlacedWord) /\ tx_aligner' = Append(tx_aligner, w)
      BY <2>1, AnswerFacts
    <3> QED BY <3>1, Longer
  <2>4. Sent \in 0 .. 4
    BY SentIs
  <2>5. Read' = Read /\ Sent + 1 = Read + (Len(tx_aligner) + 1)
    BY <2>1, <2>3, <2>4 DEF Read
  <2>6. PackedOut' = PackedOut /\ Taken' = Taken
    BY <1>1, <2>5 DEF PackedOut, Taken
  <2>7. Pieces'
    BY <2>1, <2>2, <2>3, <2>5 DEF InFlight, Pieces
  <2>8. Aligning' /\ Packs'
    BY <1>1, <2>2, <2>5, <2>6 DEF InFlight, Aligning, Packs
  <2>9. InFlight'
    BY <1>1, <2>2, <2>5, <2>6, <2>7, <2>8 DEF InFlight
  <2> QED BY <1>1, <2>1, <2>9 DEF AnswerUnderWay
<1> QED BY <1>2, <1>3, TxFeeds

-----------------------------------------------------------------------------
(***************************************************************************)
(* ... through the aligner                                                 *)
(***************************************************************************)

\* Joining the bytes of the answer that the buffer holds with those that follow.
LEMMA JoinedWord ==
  ASSUME NEW prev \in Al!Word, NEW word \in PlacedWord, NEW p \in 1 .. WordBytes - 1,
         Holds(prev, WordBytes, p), FirstByte(word) = WordBytes + p, word.bytes \in Nat,
         p + word.bytes <= WordBytes,
         NEW lanes \in Al!alignWords(p, prev, Laned(word))
  PROVE  Holds(lanes, WordBytes, p + word.bytes)
<1>1. WordBytes \in Nat /\ WordBytes >= 2 /\ Al!Lanes = 0 .. WordBytes - 1
  BY MockValues DEF Al!Lanes
<1> DEFINE curr == Laned(word)
           n    == word.bytes
<1>2. /\ curr \in Al!Word /\ curr.keep = Al!Contiguous(n)
      /\ \A i \in 0 .. WordBytes - 1 : curr.data[i].pos = (WordBytes + p) + i
  BY LanedType
<1> HIDE DEF curr
<1>3. /\ lanes.keep \in [Al!Lanes -> BOOLEAN]
      /\ \A i \in 0 .. WordBytes - 1 :
           /\ lanes.data[i] = IF i < p THEN prev.data[i] ELSE curr.data[i - p]
           /\ lanes.keep[i] = IF i < p THEN prev.keep[i] ELSE curr.keep[i - p]
  <2>1. lanes \in Al!alignWords(p, prev, curr) /\ p \in 0 .. WordBytes - 1 /\ p > 0
    BY <1>1 DEF curr
  <2> QED BY <1>2, <2>1, AlignedLanes
<1>4. \A i \in 0 .. p - 1 : prev.data[i].pos = WordBytes + i
  BY DEF Holds
<1>5. /\ \A i \in 0 .. WordBytes - 1 : prev.keep[i] = (i < p)
      /\ \A i \in 0 .. WordBytes - 1 : curr.keep[i] = (i < n)
  BY <1>1, <1>2 DEF Holds, Al!Contiguous
<1>6. ASSUME NEW i \in 0 .. WordBytes - 1
      PROVE  /\ lanes.keep[i] = (i < p + n)
             /\ i < p + n => lanes.data[i].pos = WordBytes + i
  <2>1. CASE i < p
    <3>1. i \in 0 .. p - 1 /\ i < p + n
      BY <1>1, <2>1
    <3>2. lanes.data[i] = prev.data[i] /\ lanes.keep[i] = prev.keep[i]
      BY <1>3, <2>1
    <3>3. prev.data[i].pos = WordBytes + i /\ prev.keep[i]
      BY <1>4, <1>5, <2>1, <3>1
    <3> QED BY <3>1, <3>2, <3>3
  <2>2. CASE ~(i < p)
    <3>1. i - p \in 0 .. WordBytes - 1 /\ (i - p < n <=> i < p + n) /\ (WordBytes + p) + (i - p) = WordBytes + i
      BY <1>1, <2>2
    <3>2. lanes.data[i] = curr.data[i - p] /\ lanes.keep[i] = curr.keep[i - p]
      BY <1>3, <2>2
    <3>3. curr.data[i - p].pos = (WordBytes + p) + (i - p) /\ curr.keep[i - p] = (i - p < n)
      BY <1>2, <1>5, <3>1
    <3> QED BY <3>1, <3>2, <3>3
  <2> QED BY <2>1, <2>2
<1>7. lanes.keep = Al!Contiguous(p + n)
  BY <1>1, <1>3, <1>6 DEF Al!Contiguous
<1>8. \A i \in 0 .. (p + n) - 1 : lanes.data[i].pos = WordBytes + i
  BY <1>1, <1>6
<1> QED BY <1>7, <1>8 DEF Holds

\* The sizes, so that nothing but the first word fills a word.
LEMMA SizesFacts ==
  ASSUME SizesFit
  PROVE  /\ WordBytes \in Nat /\ WordBytes >= 2 /\ headers_size \in Nat /\ body_size \in Nat
         /\ headers_size - WordBytes \in 1 .. WordBytes - 3
         /\ (headers_size - WordBytes) + 2 \in 3 .. WordBytes - 1
         /\ ((headers_size - WordBytes) + 2) + body_size <= WordBytes
         /\ ((headers_size - WordBytes) + 2) + body_size = AnswerBytes - WordBytes
         /\ WordBytes + (headers_size - WordBytes) = headers_size
         /\ body_size \in 1 .. WordBytes /\ AnswerBytes \in Nat
<1>1. WordBytes \in Nat /\ WordBytes >= 2
  BY MockValues
<1>2. headers_size \in WordBytes + 1 .. 2 * WordBytes /\ body_size \in 1 .. WordBytes
  BY SizesAssumption
<1>3. headers_size + 2 + body_size <= 2 * WordBytes
  BY DEF SizesFit, AnswerBytes
<1>4. headers_size \in Nat /\ body_size \in Nat /\ headers_size > WordBytes /\ body_size > 0
  BY <1>1, <1>2
<1> DEFINE rest == headers_size - WordBytes
<1>5. rest \in Nat /\ rest > 0 /\ headers_size = WordBytes + rest
  BY <1>1, <1>4
<1> HIDE DEF rest
<1>6. rest + 2 + body_size <= WordBytes
  BY <1>1, <1>3, <1>4, <1>5
<1>7. (rest + 2) + body_size = AnswerBytes - WordBytes /\ AnswerBytes \in Nat
  BY <1>1, <1>4, <1>5 DEF AnswerBytes
<1>8. rest \in 1 .. WordBytes - 3 /\ rest + 2 \in 3 .. WordBytes - 1 /\ (rest + 2) + body_size <= WordBytes
  BY <1>1, <1>4, <1>5, <1>6
<1> QED BY <1>1, <1>2, <1>4, <1>5, <1>7, <1>8 DEF rest

\* What response_aligner leaves alone.
LEMMA AlignerStands ==
  ASSUME AlignerStep
  PROVE  Sent' = Sent /\ UNCHANGED <<tx_mock, settled, received>>
BY AlignerLeaves DEF askedVars, wordsVars, Sent, Accepted, HeadersTaken, answering

\* While it has something to do, tx_mock takes words.
LEMMA NotQuiet ==
  ASSUME MockInv, AnswerUnderWay, ~Quiet
  PROVE  tx_mock = "CONSUME_DATA" /\ InFlight
<1>1. tx_mock \in {"IDLE", "HANDSHAKE", "CONSUME_DATA"}
  BY DEF MockInv, MockOK
<1> QED BY <1>1 DEF AnswerUnderWay

\* The word it reads is the next one of the answer.
LEMMA NextPiece ==
  ASSUME MockInv, WordsWritten, InFlight, tx_aligner # <<>>
  PROVE  /\ Read \in 0 .. 3 /\ Head(tx_aligner) \in PlacedWord /\ Piece(Head(tx_aligner), Read + 1)
         /\ tx_aligner' = Tail(tx_aligner) /\ Sent' = Sent => Read' = Read + 1 /\ Pieces'
<1>1. Sent \in 0 .. 4 /\ Read \in 0 .. 4 /\ Pieces
  BY SentIs DEF InFlight
<1>2. tx_aligner \in Seq(PlacedWord)
  BY AnswerFacts
<1>3. Len(tx_aligner) \in Nat /\ Len(tx_aligner) > 0 /\ Head(tx_aligner) = tx_aligner[1] /\ tx_aligner[1] \in PlacedWord
  BY <1>2
<1>4. Read \in 0 .. 3
  BY <1>1, <1>3 DEF Read
<1>5. Piece(Head(tx_aligner), Read + 1)
  BY <1>1, <1>3 DEF Pieces
<1>6. ASSUME tx_aligner' = Tail(tx_aligner), Sent' = Sent
      PROVE  Read' = Read + 1 /\ Pieces'
  <2>1. /\ Len(tx_aligner') = Len(tx_aligner) - 1
        /\ \A i \in 1 .. Len(tx_aligner') : tx_aligner'[i] = tx_aligner[i + 1] /\ i + 1 \in 1 .. Len(tx_aligner)
    BY <1>2, <1>6, Shorter
  <2>2. Read' = Read + 1
    <3>1. Len(tx_aligner') = Len(tx_aligner) - 1 /\ Sent \in Int /\ Len(tx_aligner) \in Int
      BY <1>1, <1>3, <2>1
    <3>2. Read = Sent - Len(tx_aligner) /\ Read' = Sent - Len(tx_aligner')
      BY <1>6 DEF Read
    <3> QED BY <3>1, <3>2
  <2>3. ASSUME NEW i \in 1 .. Len(tx_aligner') PROVE Piece(tx_aligner'[i], Read' + i)
    <3>1. Read' + i = Read + (i + 1)
      BY <1>4, <2>2
    <3> QED BY <1>1, <2>1, <3>1 DEF Pieces
  <2> QED BY <2>2, <2>3 DEF Pieces
<1> QED BY <1>3, <1>4, <1>5, <1>6

\* It turns to the first word of an answer, or to what follows a full one,
LEMMA WakesAnswer ==
  ASSUME MockInv, WordsWritten, AnswerUnderWay, AlignerStep, AlignerWakes
  PROVE  AnswerUnderWay'
<1>1. Sent' = Sent /\ UNCHANGED <<tx_mock, settled, received, tx_aligner, tcp_tx_data>>
  BY AlignerStands DEF AlignerWakes
<1>2. al.state = "IDLE" /\ tx_aligner # <<>> /\ al' = [al EXCEPT !.state = "PULL_FIRST"]
  BY DEF AlignerWakes
<1>3. al \in [state : {"IDLE", "PULL_FIRST", "PULL_N", "RESIDUE"}, prevLength : 0 .. WordBytes, prevWord : Al!Word]
  BY DEF MockInv, AlignerOK
<1>4. al'.state = "PULL_FIRST"
  BY <1>2, <1>3
<1>5. tx_mock = "CONSUME_DATA" /\ InFlight
  BY <1>2, NotQuiet DEF Quiet
<1>6. Read \in {0, 1}
  <2>1. Read \in 0 .. 3
    BY <1>2, <1>5, NextPiece
  <2> QED BY <1>2, <1>5, <2>1 DEF InFlight, Aligning
<1>7. Read' = Read
  BY <1>1 DEF Read
<1>8. PackedOut' = PackedOut
  BY <1>2, <1>4, <1>6, <1>7 DEF PackedOut
<1>9. Taken' = Taken
  BY <1>1, <1>8 DEF Taken
<1>10. Aligning'
  BY <1>4, <1>6, <1>7 DEF Aligning
<1>11. Pieces' /\ Packs'
  BY <1>1, <1>5, <1>7, <1>9 DEF InFlight, Pieces, Packs
<1>12. InFlight'
  BY <1>1, <1>5, <1>7, <1>9, <1>10, <1>11 DEF InFlight
<1> QED BY <1>1, <1>5, <1>12 DEF AnswerUnderWay

\* ... takes it,
LEMMA FirstAnswer ==
  ASSUME MockInv, SizesFit, WordsWritten, AnswerUnderWay, AlignerStep,
         AlignerFirst(Laned(Head(tx_aligner)))
  PROVE  AnswerUnderWay'
<1> DEFINE w == Head(tx_aligner)
<1>1. Sent' = Sent /\ UNCHANGED <<tx_mock, settled, received, tcp_tx_data>>
  BY AlignerStands DEF AlignerFirst
<1>2. /\ al.state = "PULL_FIRST" /\ tx_aligner # <<>> /\ tx_aligner' = Tail(tx_aligner)
      /\ al' = [state      |-> Al!AfterFirst(Laned(w).last, Al!keepToLen(Laned(w).keep) = WordBytes),
                prevLength |-> Al!keepToLen(Laned(w).keep), prevWord |-> Laned(w)]
  BY DEF AlignerFirst
<1>3. tx_mock = "CONSUME_DATA" /\ InFlight
  BY <1>2, NotQuiet DEF Quiet
<1>4. Read \in 0 .. 3 /\ w \in PlacedWord /\ Piece(w, Read + 1) /\ Read' = Read + 1 /\ Pieces'
  BY <1>1, <1>2, <1>3, NextPiece
<1> HIDE DEF w
<1>5. Read \in {0, 1}
  BY <1>2, <1>3, <1>4 DEF InFlight, Aligning
<1>6. /\ Laned(w).last = w.last /\ Laned(w).keep = Al!Contiguous(w.bytes)
      /\ \A i \in 0 .. WordBytes - 1 : Laned(w).data[i].pos = FirstByte(w) + i
  BY <1>4, LanedType
<1>7. PackedOut' = PackedOut /\ Aligning'
  <2>1. CASE Read = 0
    <3>1. w.part = "headers" /\ w.pos = 1 /\ w.bytes = WordBytes /\ ~w.last
      BY <1>4, <2>1 DEF Piece
    <3>2. FirstByte(w) = 0
      BY <3>1, SizesFacts DEF FirstByte
    <3>3. Al!keepToLen(Laned(w).keep) = WordBytes
      BY <1>6, <3>1, CountedLanes, SizesFacts
    <3>4. al'.state = "RESIDUE" /\ al'.prevWord = Laned(w)
      BY <1>2, <3>3 DEF Al!AfterFirst
    <3>5. Packed(Laned(w), 1)
      BY <1>6, <3>1, <3>2, SizesFacts DEF Packed, Holds
    <3>6. PackedOut' = PackedOut
      BY <1>4, <2>1, <3>4 DEF PackedOut, One
    <3> QED BY <1>4, <2>1, <3>4, <3>5, <3>6 DEF Aligning
  <2>2. CASE Read = 1
    <3>1. w.part = "headers" /\ w.pos = 2 /\ w.bytes = headers_size - WordBytes /\ ~w.last
      BY <1>4, <2>2 DEF Piece
    <3>2. FirstByte(w) = WordBytes
      BY <3>1, SizesFacts DEF FirstByte
    <3>3. Al!keepToLen(Laned(w).keep) = headers_size - WordBytes
      BY <1>6, <3>1, CountedLanes, SizesFacts
    <3>4. ~Laned(w).last /\ Al!keepToLen(Laned(w).keep) # WordBytes
      BY <1>6, <3>1, <3>3, SizesFacts
    <3>5. al'.state = "PULL_N" /\ al'.prevWord = Laned(w) /\ al'.prevLength = headers_size - WordBytes
      BY <1>2, <3>3, <3>4 DEF Al!AfterFirst
    <3>6. Holds(Laned(w), WordBytes, headers_size - WordBytes)
      BY <1>6, <3>1, <3>2, SizesFacts DEF Holds
    <3>7. PackedOut' = PackedOut
      BY <1>2, <1>4, <2>2, <3>5 DEF PackedOut, One
    <3> QED BY <1>4, <2>2, <3>5, <3>6, <3>7 DEF Aligning
  <2> QED BY <1>5, <2>1, <2>2
<1>8. Taken' = Taken
  BY <1>1, <1>7 DEF Taken
<1>9. Packs'
  BY <1>1, <1>3, <1>8 DEF InFlight, Packs
<1>10. InFlight'
  BY <1>1, <1>3, <1>4, <1>5, <1>7, <1>8, <1>9 DEF InFlight
<1> QED BY <1>1, <1>3, <1>10 DEF AnswerUnderWay

\* ... joins it to what it holds,
LEMMA NextAnswer ==
  ASSUME MockInv, SizesFit, WordsWritten, AnswerUnderWay, AlignerStep,
         NEW lanes \in Al!alignWords(Al!ap_uint6(al.prevLength), al.prevWord, Laned(Head(tx_aligner))),
         NEW unwritten, AlignerNext(Laned(Head(tx_aligner)), lanes, unwritten)
  PROVE  AnswerUnderWay'
<1> DEFINE w        == Head(tx_aligner)
           p        == al.prevLength
           length   == Al!keepToLen(Laned(w).keep)
           joined   == Al!keepToLen(lanes.keep)
           sendWord == [data |-> lanes.data, keep |-> lanes.keep, last |-> Laned(w).last]
<1>1. Sent' = Sent /\ UNCHANGED <<tx_mock, settled, received>>
  BY AlignerStands
<1>2. al.state = "PULL_N" /\ tx_aligner # <<>> /\ tx_aligner' = Tail(tx_aligner)
  BY DEF AlignerNext
<1>3. tx_mock = "CONSUME_DATA" /\ InFlight
  BY <1>2, NotQuiet DEF Quiet
<1>4. Read \in 0 .. 3 /\ w \in PlacedWord /\ Piece(w, Read + 1) /\ Read' = Read + 1 /\ Pieces'
  BY <1>1, <1>2, <1>3, NextPiece
<1>5. Read \in {2, 3}
  BY <1>2, <1>3, <1>4 DEF InFlight, Aligning
<1>6. al \in [state : {"IDLE", "PULL_FIRST", "PULL_N", "RESIDUE"}, prevLength : 0 .. WordBytes, prevWord : Al!Word]
  BY DEF MockInv, AlignerOK
<1>7. lanes \in Al!alignWords(Al!ap_uint6(p), al.prevWord, Laned(w))
  OBVIOUS
<1>8. Laned(w).last = w.last /\ Laned(w).keep = Al!Contiguous(w.bytes)
  BY <1>4, LanedType
<1>9. ASSUME ~(length + p > WordBytes)
      PROVE  /\ al'.state = IF Laned(w).last THEN "IDLE" ELSE "PULL_N"
             /\ joined # WordBytes => al'.prevLength = joined /\ al'.prevWord = sendWord
             /\ tcp_tx_data' = IF Laned(w).last \/ joined = WordBytes
                               THEN Append(tcp_tx_data, sendWord) ELSE tcp_tx_data
  <2> DEFINE residue == length + p > WordBytes
             full    == joined = WordBytes
             written_ == [data |-> lanes.data, keep |-> lanes.keep, last |-> Al!LastSent(Laned(w).last, residue)]
             shifted == Al!shiftDown(Al!ap_uint6(p), Laned(w))
  <2>1. /\ tcp_tx_data' = IF Laned(w).last \/ full \/ residue
                          THEN Append(tcp_tx_data, written_) ELSE tcp_tx_data
        /\ al' = [state      |-> Al!AfterLast(Laned(w).last, residue),
                  prevLength |-> IF full THEN p + length - WordBytes ELSE joined,
                  prevWord   |-> IF full
                                 THEN [data |-> shifted.data, keep |-> shifted.keep, last |-> unwritten]
                                 ELSE written_]
    BY DEF AlignerNext
  <2>2. ~residue
    BY <1>9
  <2>3. Laned(w).last \in BOOLEAN
    BY <1>4, LanedType DEF Al!Word
  <2>4. written_ = sendWord
    BY <2>2, <2>3 DEF Al!LastSent
  <2>5. Al!AfterLast(Laned(w).last, residue) = IF Laned(w).last THEN "IDLE" ELSE "PULL_N"
    BY <2>2 DEF Al!AfterLast
  <2> HIDE DEF residue, full, written_, shifted, sendWord
  <2>6. tcp_tx_data' = IF Laned(w).last \/ full THEN Append(tcp_tx_data, sendWord) ELSE tcp_tx_data
    BY <2>1, <2>2, <2>4
  <2>7. al'.state = IF Laned(w).last THEN "IDLE" ELSE "PULL_N"
    BY <2>1, <2>5
  <2>8. ~full => al'.prevLength = joined /\ al'.prevWord = sendWord
    BY <2>1, <2>4
  <2> QED BY <2>6, <2>7, <2>8 DEF full
<1>10. ASSUME Holds(al.prevWord, WordBytes, p), p \in 1 .. WordBytes - 1, FirstByte(w) = WordBytes + p,
              w.bytes \in Nat, p + w.bytes <= WordBytes
       PROVE  /\ Holds(lanes, WordBytes, p + w.bytes) /\ joined = p + w.bytes /\ ~(length + p > WordBytes)
  <2>1. Al!ap_uint6(p) = p
    <3>1. p \in Nat /\ WordBytes \in Nat /\ p < WordBytes
      BY <1>10, SizesFacts
    <3> HIDE DEF p
    <3> QED BY <3>1 DEF Al!ap_uint6
  <2>2. Holds(lanes, WordBytes, p + w.bytes)
    BY <1>4, <1>6, <1>7, <1>10, <2>1, JoinedWord
  <2>3. joined = p + w.bytes
    BY <1>10, <2>2, CountedLanes, SizesFacts DEF Holds
  <2>4. length = w.bytes
    BY <1>8, <1>10, CountedLanes, SizesFacts
  <2> QED BY <1>10, <2>2, <2>3, <2>4, SizesFacts
<1>11. Taken' = Taken /\ Packs' /\ Aligning'
  <2>1. CASE Read = 2
    <3>1. w.part = "crlf" /\ w.bytes = 2 /\ ~w.last
      BY <1>4, <2>1 DEF Piece
    <3>2. p = headers_size - WordBytes /\ Holds(al.prevWord, WordBytes, p)
      BY <1>3, <2>1 DEF InFlight, Aligning
    <3>3. FirstByte(w) = WordBytes + p /\ p \in 1 .. WordBytes - 1 /\ p + w.bytes <= WordBytes /\ p + w.bytes # WordBytes
      BY <3>1, <3>2, SizesFacts DEF FirstByte
    <3>4. Holds(lanes, WordBytes, p + 2) /\ joined = p + 2 /\ ~(length + p > WordBytes)
      BY <1>10, <3>1, <3>2, <3>3
    <3>5. /\ al'.state = "PULL_N" /\ al'.prevLength = p + 2 /\ al'.prevWord = sendWord
          /\ tcp_tx_data' = tcp_tx_data
      BY <1>9, <1>8, <3>1, <3>3, <3>4
    <3>6. Holds(al'.prevWord, WordBytes, p + 2)
      BY <3>4, <3>5 DEF Holds
    <3>7. Aligning'
      BY <1>4, <2>1, <3>2, <3>5, <3>6 DEF Aligning
    <3>8. Read' = 3
      BY <1>4, <2>1
    <3>9. PackedOut' = PackedOut
      BY <2>1, <3>8 DEF PackedOut, One
    <3> QED BY <1>3, <3>5, <3>7, <3>9 DEF Taken, InFlight, Packs
  <2>2. CASE Read = 3
    <3>1. w.part = "body" /\ w.bytes = body_size /\ w.last
      BY <1>4, <2>2 DEF Piece
    <3>2. p = (headers_size - WordBytes) + 2 /\ Holds(al.prevWord, WordBytes, p)
      BY <1>3, <2>2 DEF InFlight, Aligning
    <3>3. /\ FirstByte(w) = WordBytes + p /\ p \in 1 .. WordBytes - 1 /\ p + w.bytes <= WordBytes
          /\ w.bytes \in Nat /\ p + w.bytes = AnswerBytes - WordBytes
      BY <3>1, <3>2, SizesFacts DEF FirstByte
    <3>4. Holds(lanes, WordBytes, AnswerBytes - WordBytes) /\ ~(length + p > WordBytes)
      BY <1>10, <3>2, <3>3
    <3>5. al'.state = "IDLE" /\ tcp_tx_data' = Append(tcp_tx_data, sendWord)
      BY <1>9, <1>8, <3>1, <3>4
    <3>6. Packed(sendWord, 2)
      <4>1. Holds(sendWord, WordBytes, AnswerBytes - WordBytes) /\ sendWord.last
        BY <1>8, <3>1, <3>4 DEF Holds
      <4> QED BY <4>1 DEF Packed
    <3>7. Read' = 4
      BY <1>4, <2>2
    <3>8. Aligning'
      BY <3>5, <3>7 DEF Aligning
    <3>9. PackedOut = 1 /\ PackedOut' = 2
      BY <2>2, <3>7 DEF PackedOut, One
    <3> HIDE DEF sendWord
    <3>10. /\ Len(tcp_tx_data) \in Nat /\ Len(tcp_tx_data') = Len(tcp_tx_data) + 1
           /\ \A i \in 1 .. Len(tcp_tx_data') :
                \/ i \in 1 .. Len(tcp_tx_data) /\ tcp_tx_data'[i] = tcp_tx_data[i]
                \/ i = Len(tcp_tx_data) + 1 /\ tcp_tx_data'[i] = sendWord
      <4>1. tcp_tx_data \in Seq(Al!Word)
        BY AnswerFacts
      <4> QED BY <3>5, <4>1, Longer
    <3>11. Taken' = Taken /\ Taken + (Len(tcp_tx_data) + 1) = 2
      BY <3>9, <3>10 DEF Taken
    <3>12. Packs'
      BY <1>3, <3>6, <3>10, <3>11 DEF InFlight, Packs
    <3> QED BY <3>8, <3>11, <3>12
  <2> QED BY <1>5, <2>1, <2>2
<1>12. InFlight'
  BY <1>1, <1>3, <1>4, <1>5, <1>11 DEF InFlight
<1> QED BY <1>1, <1>3, <1>12 DEF AnswerUnderWay

\* ... and sends what it holds.
LEMMA SendsAnswer ==
  ASSUME MockInv, WordsWritten, AnswerUnderWay, AlignerStep, AlignerSends
  PROVE  AnswerUnderWay'
<1>1. Sent' = Sent /\ UNCHANGED <<tx_mock, settled, received, tx_aligner>>
  BY AlignerStands DEF AlignerSends
<1>2. /\ al.state = "RESIDUE" /\ al' = [al EXCEPT !.state = "IDLE"]
      /\ tcp_tx_data' = Append(tcp_tx_data, al.prevWord)
  BY DEF AlignerSends
<1>3. al \in [state : {"IDLE", "PULL_FIRST", "PULL_N", "RESIDUE"}, prevLength : 0 .. WordBytes, prevWord : Al!Word]
  BY DEF MockInv, AlignerOK
<1>4. al'.state = "IDLE"
  BY <1>2, <1>3
<1>5. tx_mock = "CONSUME_DATA" /\ InFlight
  BY <1>2, NotQuiet DEF Quiet
<1>6. Read = 1 /\ Packed(al.prevWord, 1)
  BY <1>2, <1>5 DEF InFlight, Aligning
<1>7. Read' = 1
  BY <1>1, <1>6 DEF Read
<1>8. PackedOut = 0 /\ PackedOut' = 1
  BY <1>2, <1>4, <1>6, <1>7 DEF PackedOut, One
<1>9. /\ Len(tcp_tx_data) \in Nat /\ Len(tcp_tx_data') = Len(tcp_tx_data) + 1
      /\ \A i \in 1 .. Len(tcp_tx_data') :
           \/ i \in 1 .. Len(tcp_tx_data) /\ tcp_tx_data'[i] = tcp_tx_data[i]
           \/ i = Len(tcp_tx_data) + 1 /\ tcp_tx_data'[i] = al.prevWord
  <2>1. tcp_tx_data \in Seq(Al!Word)
    BY AnswerFacts
  <2> QED BY <1>2, <2>1, Longer
<1>10. Taken' = Taken /\ Taken + (Len(tcp_tx_data) + 1) = 1
  BY <1>8, <1>9 DEF Taken
<1>11. Packs'
  BY <1>5, <1>6, <1>9, <1>10 DEF InFlight, Packs
<1>12. Aligning' /\ Pieces'
  BY <1>1, <1>4, <1>5, <1>6, <1>7 DEF Aligning, InFlight, Pieces
<1>13. InFlight'
  BY <1>1, <1>5, <1>7, <1>10, <1>11, <1>12 DEF InFlight
<1> QED BY <1>1, <1>5, <1>13 DEF AnswerUnderWay

\* So the answer stays on its way.
LEMMA AlignerAnswer ==
  ASSUME MockInv, SizesFit, WordsWritten, AnswerUnderWay, AlignerStep
  PROVE  AnswerUnderWay'
BY AlignerSteps, WakesAnswer, FirstAnswer, NextAnswer, SendsAnswer

-----------------------------------------------------------------------------
(***************************************************************************)
(* ... and into tx_mock                                                    *)
(***************************************************************************)

\* A function on the first numbers is a sequence,
LEMMA SequenceOf ==
  ASSUME NEW S, NEW n \in Nat, NEW f \in [1 .. n -> S]
  PROVE  f \in Seq(S) /\ Len(f) = n
OBVIOUS

\* ... and the same one as any with its elements.
LEMMA SameElements ==
  ASSUME NEW S, NEW s \in Seq(S), NEW t \in Seq(S), Len(s) = Len(t),
         \A i \in 1 .. Len(s) : s[i] = t[i]
  PROVE  s = t
OBVIOUS

\* Two sequences, one after the other.
LEMMA OneAfterOther ==
  ASSUME NEW S, NEW s \in Seq(S), NEW t \in Seq(S)
  PROVE  /\ s \o t \in Seq(S) /\ Len(s \o t) = Len(s) + Len(t)
         /\ \A i \in 1 .. Len(s) : (s \o t)[i] = s[i]
         /\ \A i \in 1 .. Len(t) : (s \o t)[Len(s) + i] = t[i]
OBVIOUS

\* All bytes of an answer are those before a place and those from it on.
LEMMA BytesJoined ==
  ASSUME NEW a \in Nat, NEW b \in Nat, NEW more,
         more = [i \in 1 .. b |-> a + i - 1]
  PROVE  BytesFrom0(a) \o more = BytesFrom0(a + b)
<1>1. BytesFrom0(a) \in Seq(Int) /\ Len(BytesFrom0(a)) = a
  <2>1. BytesFrom0(a) \in [1 .. a -> Int]
    BY DEF BytesFrom0
  <2> QED BY <2>1, SequenceOf
<1>2. more \in Seq(Int) /\ Len(more) = b
  <2>1. more \in [1 .. b -> Int]
    OBVIOUS
  <2> QED BY <2>1, SequenceOf
<1>3. BytesFrom0(a + b) \in Seq(Int) /\ Len(BytesFrom0(a + b)) = a + b
  <2>1. BytesFrom0(a + b) \in [1 .. a + b -> Int] /\ a + b \in Nat
    BY DEF BytesFrom0
  <2> QED BY <2>1, SequenceOf
<1> DEFINE whole == BytesFrom0(a) \o more
<1>4. /\ whole \in Seq(Int) /\ Len(whole) = a + b
      /\ \A i \in 1 .. a : whole[i] = BytesFrom0(a)[i]
      /\ \A i \in 1 .. b : whole[a + i] = more[i]
  <2> DEFINE first == BytesFrom0(a)
  <2>1. first \in Seq(Int) /\ Len(first) = a
    BY <1>1
  <2> HIDE DEF first
  <2>2. /\ first \o more \in Seq(Int) /\ Len(first \o more) = Len(first) + Len(more)
        /\ \A i \in 1 .. Len(first) : (first \o more)[i] = first[i]
        /\ \A i \in 1 .. Len(more) : (first \o more)[Len(first) + i] = more[i]
    <3>1. first \in Seq(Int) /\ more \in Seq(Int)
      BY <1>2, <2>1
    <3> QED BY ONLY SMTT(30), <3>1
  <2> QED BY <1>2, <2>1, <2>2 DEF first
<1> HIDE DEF whole
<1>5. ASSUME NEW i \in 1 .. a + b PROVE whole[i] = BytesFrom0(a + b)[i]
  <2>1. BytesFrom0(a + b)[i] = i - 1
    BY DEF BytesFrom0
  <2>2. CASE i \in 1 .. a
    BY <1>4, <2>1, <2>2 DEF BytesFrom0
  <2>3. CASE i \notin 1 .. a
    <3>1. i - a \in 1 .. b /\ i = a + (i - a) /\ a + ((i - a) - 1) = i - 1
      BY <2>3
    <3>2. whole[a + (i - a)] = more[i - a]
      BY <1>4, <3>1
    <3>3. more[i - a] = a + ((i - a) - 1)
      BY <3>1
    <3> QED BY <2>1, <3>1, <3>2, <3>3
  <2> QED BY <2>2, <2>3
<1>6. whole = BytesFrom0(a + b)
  BY <1>3, <1>4, <1>5, SameElements
<1> QED BY <1>6 DEF whole

\* ... and there are none at first.
LEMMA NoBytes == BytesFrom0(0) = <<>>
<1>1. BytesFrom0(0) \in [1 .. 0 -> Int]
  BY DEF BytesFrom0
<1>2. BytesFrom0(0) \in Seq(Int) /\ Len(BytesFrom0(0)) = 0
  BY <1>1, SequenceOf
<1> QED BY <1>2

\* The bytes of a word that holds some of the answer.
LEMMA BytesHeld ==
  ASSUME NEW word, NEW a \in Nat, NEW n \in 0 .. WordBytes, Holds(word, a, n)
  PROVE  BytesOf(word) = [i \in 1 .. n |-> a + i - 1]
<1>1. WordBytes \in Nat
  BY MockValues
<1>2. Al!keepToLen(word.keep) = n
  BY <1>1, CountedLanes DEF Holds
<1>3. \A i \in 1 .. n : word.data[i - 1].pos = a + i - 1
  <2>1. \A i \in 0 .. n - 1 : word.data[i].pos = a + i
    BY DEF Holds
  <2>2. \A i \in 1 .. n : i - 1 \in 0 .. n - 1 /\ a + (i - 1) = a + i - 1
    BY <1>1
  <2> QED BY <2>1, <2>2
<1> QED BY <1>2, <1>3 DEF BytesOf

\* tx_mock turns to an answer: nothing of it is on its way.
LEMMA MockIdleAnswer ==
  ASSUME MockInv, AnswerUnderWay, TxMockIdle
  PROVE  AnswerUnderWay'
<1>1. /\ tx_mock = "IDLE" /\ tx_mock' = "HANDSHAKE" /\ received' = <<>>
      /\ UNCHANGED <<tx_aligner, tcp_tx_data, al>>
  BY DEF TxMockIdle, TxMockOnly
<1>2. Quiet
  BY <1>1 DEF AnswerUnderWay
<1> QED BY <1>1, <1>2 DEF AnswerUnderWay, Quiet

\* It accepts it, and only then does state_machine write words of it.
LEMMA MockHandshakeAnswer ==
  ASSUME MockInv, Asked, AnswerUnderWay, TxMockHandshake
  PROVE  AnswerUnderWay'
<1>1. /\ tx_mock = "HANDSHAKE" /\ tx_mock' = "CONSUME_DATA"
      /\ tcp_tx_rsp' = Append(tcp_tx_rsp, [sessionID |-> MockSession, error |-> 0])
      /\ UNCHANGED <<tx_aligner, tcp_tx_data, al, tx_sm, received>>
  BY DEF TxMockHandshake, TxMockOnly
<1>2. tx_aligner = <<>> /\ tcp_tx_data = <<>> /\ al.state = "IDLE" /\ received = <<>>
  BY <1>1 DEF AnswerUnderWay, Quiet
<1>3. tx_sm.state = "TCP_RSP"
  BY <1>1 DEF Asked
<1>4. tcp_tx_rsp' # <<>>
  <2>1. Len(tcp_tx_rsp') = Len(tcp_tx_rsp) + 1 /\ Len(tcp_tx_rsp) \in Nat
    BY <1>1, Longer, AnswerFacts
  <2> QED BY <2>1
<1>5. Sent' = 0
  BY <1>1, <1>3, <1>4 DEF Sent, Accepted, One
<1>6. Read' = 0
  <2>1. Len(tx_aligner') = 0
    BY <1>1, <1>2
  <2> QED BY <1>5, <2>1 DEF Read
<1>7. PackedOut' = 0
  BY <1>6 DEF PackedOut, One
<1>8. Taken' = 0
  <2>1. Len(tcp_tx_data') = 0
    BY <1>1, <1>2
  <2> QED BY <1>7, <2>1 DEF Taken
<1>9. Aligning' /\ Pieces' /\ Packs'
  BY <1>1, <1>2, <1>6 DEF Aligning, Pieces, Packs
<1>10. BytesFrom0(0) = <<>>
  BY NoBytes
<1>11. InFlight'
  BY <1>1, <1>2, <1>6, <1>8, <1>9, <1>10 DEF InFlight
<1> QED BY <1>1, <1>11 DEF AnswerUnderWay

\* It takes the two words of the answer, and with the second one all is said.
LEMMA MockConsumeAnswer ==
  ASSUME MockInv, SizesFit, WordsWritten, Asked, AnswerUnderWay, TxMockConsumeData
  PROVE  /\ AnswerUnderWay'
         /\ tx_mock' = "IDLE" => Sent = 4
<1> DEFINE aux == Head(tcp_tx_data)
<1>1. /\ tx_mock = "CONSUME_DATA" /\ tcp_tx_data # <<>> /\ tcp_tx_data' = Tail(tcp_tx_data)
      /\ received' = received \o BytesOf(aux)
      /\ tx_mock' = IF aux.last THEN "IDLE" ELSE "CONSUME_DATA"
      /\ UNCHANGED <<tx_aligner, al, settled>>
  BY DEF TxMockConsumeData, TxMockOnly, CanRead
<1>2. InFlight
  BY <1>1 DEF AnswerUnderWay
<1>3. Sent' = Sent
  BY DEF TxMockConsumeData, TxMockOnly, rxVars, vars, tcpFifos, inFifos, appFifos, tcpStack, Sent, Accepted,
         HeadersTaken, answering
<1>4. Read' = Read /\ PackedOut' = PackedOut
  BY <1>1, <1>3 DEF Read, PackedOut
<1>5. /\ Len(tcp_tx_data) \in Nat /\ Len(tcp_tx_data) > 0 /\ Len(tcp_tx_data') = Len(tcp_tx_data) - 1
      /\ aux = tcp_tx_data[1]
      /\ \A i \in 1 .. Len(tcp_tx_data') : tcp_tx_data'[i] = tcp_tx_data[i + 1] /\ i + 1 \in 1 .. Len(tcp_tx_data)
  <2>1. tcp_tx_data \in Seq(Al!Word)
    BY AnswerFacts
  <2> QED BY <1>1, <2>1, Shorter
<1> HIDE DEF aux
<1>6. PackedOut \in 0 .. 2 /\ PackedOut = Taken + Len(tcp_tx_data) /\ Taken \in {0, 1}
  <2>1. PackedOut \in 0 .. 2 /\ Taken \in {0, 1}
    BY <1>2 DEF PackedOut, One, InFlight
  <2> QED BY <1>5, <2>1 DEF Taken
<1>7. Packed(aux, Taken + 1)
  BY <1>2, <1>5, <1>6 DEF InFlight, Packs
<1>8. Taken' = Taken + 1
  BY <1>4, <1>5, <1>6 DEF Taken
<1>9. ASSUME NEW i \in 1 .. Len(tcp_tx_data') PROVE Packed(tcp_tx_data'[i], Taken' + i)
  <2>1. Taken' + i = Taken + (i + 1)
    BY <1>6, <1>8
  <2> QED BY <1>2, <1>5, <2>1 DEF InFlight, Packs
<1>10. CASE Taken = 0
  <2>1. Holds(aux, 0, WordBytes) /\ ~aux.last
    BY <1>7, <1>10 DEF Packed
  <2>2. WordBytes \in Nat /\ WordBytes \in 0 .. WordBytes
    BY MockValues
  <2>3. BytesOf(aux) = [i \in 1 .. WordBytes |-> 0 + i - 1]
    BY <2>1, <2>2, BytesHeld
  <2>4. received = BytesFrom0(0)
    BY <1>2, <1>10 DEF InFlight
  <2>5. received' = BytesFrom0(0 + WordBytes)
    BY <1>1, <2>2, <2>3, <2>4, BytesJoined
  <2>6. 0 + WordBytes = WordBytes
    BY <2>2
  <2>7. tx_mock' = "CONSUME_DATA" /\ received' = BytesFrom0(WordBytes)
    BY <1>1, <2>1, <2>5, <2>6
  <2>8. Pieces' /\ Aligning' /\ Packs'
    BY <1>1, <1>2, <1>4, <1>9 DEF InFlight, Pieces, Aligning, Packs
  <2>9. InFlight'
    BY <1>2, <1>4, <1>8, <1>10, <2>7, <2>8 DEF InFlight
  <2> QED BY <2>7, <2>9 DEF AnswerUnderWay
<1>11. CASE Taken = 1
  <2>1. Holds(aux, WordBytes, AnswerBytes - WordBytes) /\ aux.last
    BY <1>7, <1>11 DEF Packed
  <2>2. WordBytes \in Nat /\ AnswerBytes - WordBytes \in 0 .. WordBytes /\ AnswerBytes \in Nat
        /\ AnswerBytes - WordBytes \in Nat
    BY SizesFacts
  <2>3. BytesOf(aux) = [i \in 1 .. AnswerBytes - WordBytes |-> WordBytes + i - 1]
    BY <2>1, <2>2, BytesHeld
  <2>4. received = BytesFrom0(WordBytes)
    BY <1>2, <1>11 DEF InFlight
  <2>5. received' = BytesFrom0(WordBytes + (AnswerBytes - WordBytes))
    BY <1>1, <2>2, <2>3, <2>4, BytesJoined
  <2>6. WordBytes + (AnswerBytes - WordBytes) = AnswerBytes
    BY <2>2
  <2>7. tx_mock' = "IDLE" /\ received' = BytesFrom0(AnswerBytes)
    BY <1>1, <2>1, <2>5, <2>6
  <2>8. Len(tcp_tx_data') = 0 /\ PackedOut = 2
    BY <1>5, <1>6, <1>11
  <2>9. Read = 4
    BY <1>2, <2>8 DEF InFlight, PackedOut, One
  <2>10. Sent = 4 /\ Len(tx_aligner) = 0
    <3>1. Sent \in 0 .. 4 /\ Len(tx_aligner) \in Nat
      BY SentIs, AnswerLens
    <3> QED BY <2>9, <3>1 DEF Read
  <2>11. tx_aligner' = <<>> /\ tcp_tx_data' = <<>>
    <3>1. tx_aligner \in Seq(PlacedWord) /\ tcp_tx_data' \in Seq(Al!Word)
      <4>1. tcp_tx_data \in Seq(Al!Word) /\ tx_aligner \in Seq(PlacedWord)
        BY AnswerFacts
      <4> QED BY <1>1, <4>1, Shorter
    <3> QED BY <1>1, <2>8, <2>10, <3>1
  <2>12. al'.state = "IDLE"
    BY <1>1, <1>2, <2>9 DEF InFlight, Aligning
  <2>13. settled' # <<>>
    BY <1>1 DEF Asked
  <2> QED BY <2>7, <2>10, <2>11, <2>12, <2>13 DEF AnswerUnderWay, Quiet
<1> QED BY <1>6, <1>10, <1>11

\* So tx_mock turns to the next answer only after the words of this one.
LEMMA MockAsked ==
  ASSUME MockInv, SizesFit, WordsWritten, Asked, AnswerUnderWay, TxMock
  PROVE  Asked'
<1>1. tx_sm' = tx_sm /\ answering' = answering
  BY TxMockLeaves DEF answering
<1>2. answering \in Int /\ Len(settled) \in Nat
  BY AnswerLens
<1>3. CASE TxMockIdle
  <2>1. /\ tx_mock = "IDLE" /\ tx_mock' = "HANDSHAKE" /\ tcp_tx_req # <<>> /\ tcp_tx_req' = Tail(tcp_tx_req)
        /\ tcp_tx_rsp' = tcp_tx_rsp
    BY <1>3 DEF TxMockIdle, CanRead
  <2>2. /\ tx_sm.state = "TCP_RSP" /\ Len(tcp_tx_req) = 1 /\ tcp_tx_rsp = <<>> /\ Len(settled) = answering - 1
    BY <2>1 DEF Asked
  <2>3. Len(settled') = Len(settled) + 1
    BY <1>3, Longer, AnswerFacts DEF TxMockIdle
  <2>4. settled' # <<>>
    BY <1>2, <2>3
  <2>5. tcp_tx_req' = <<>>
    <3>1. tcp_tx_req' \in Seq(Tx!TxRequest) /\ Len(tcp_tx_req') = 0
      BY <2>1, <2>2, Shorter, AnswerFacts
    <3> QED BY <3>1
  <2>6. Len(settled') = answering
    BY <1>2, <2>2, <2>3
  <2> QED BY <1>1, <2>1, <2>2, <2>4, <2>5, <2>6 DEF Asked
<1>4. CASE TxMockHandshake
  <2> DEFINE e == [sessionID |-> MockSession, error |-> 0]
  <2>1. /\ tx_mock = "HANDSHAKE" /\ tx_mock' = "CONSUME_DATA" /\ UNCHANGED <<tcp_tx_req, settled>>
        /\ tcp_tx_rsp' = Append(tcp_tx_rsp, e)
    BY <1>4 DEF TxMockHandshake
  <2>2. tx_sm.state = "TCP_RSP" /\ tcp_tx_req = <<>> /\ tcp_tx_rsp = <<>> /\ Len(settled) = answering
        /\ settled # <<>>
    BY <2>1 DEF Asked
  <2>3. Len(tcp_tx_rsp') = 1 /\ tcp_tx_rsp'[1] = e
    BY <2>1, <2>2
  <2>4. e.error = 0
    OBVIOUS
  <2> HIDE DEF e
  <2> QED BY <1>1, <2>1, <2>2, <2>3, <2>4 DEF Asked
<1>5. CASE TxMockConsumeData
  <2>1. tx_mock = "CONSUME_DATA" /\ tx_mock' \in {"IDLE", "CONSUME_DATA"} /\ UNCHANGED <<tcp_tx_req, tcp_tx_rsp, settled>>
    BY <1>5 DEF TxMockConsumeData
  <2>2. CASE tx_mock' = "CONSUME_DATA"
    BY <1>1, <2>1, <2>2 DEF Asked
  <2>3. CASE tx_mock' = "IDLE"
    <3>1. Sent = 4
      BY <1>5, <2>3, MockConsumeAnswer
    <3>2. tx_sm.state \in Tx!SmStates
      BY AnswerFacts
    <3>3. tx_sm.state \notin {"DATA_HTTP_STATUS", "DATA_HEADERS", "DATA_CRLF", "DATA_BODY"}
      BY <3>1, SentIs
    <3>4. tx_sm.state = "TCP_RSP" => tcp_tx_rsp = <<>>
      BY <3>1, SentIs
    <3>5. tx_sm.state \in {"IDLE", "TCP_REQ", "TCP_RSP"}
      BY <3>2, <3>3 DEF Tx!SmStates, Asked
    <3> QED BY <1>1, <2>1, <2>3, <3>4, <3>5 DEF Asked
  <2> QED BY <2>1, <2>2, <2>3
<1> QED BY <1>3, <1>4, <1>5 DEF TxMock

\* process_notify asks for nothing.
LEMMA NotifyAsked ==
  ASSUME MockInv, Asked, HttpStep(ProcessNotify)
  PROVE  Asked'
<1>1. UNCHANGED <<tx_sm, tcp_tx_req, tcp_tx_rsp, settled, tx_mock>>
  BY ProcessNotifyLeaves
<1>2. answering' = answering
  BY AnsweringSteps
<1> QED BY <1>1, <1>2 DEF Asked

-----------------------------------------------------------------------------
(***************************************************************************)
(* The rounds: all of the invariant                                        *)
(***************************************************************************)

\* Nothing is under way at first.
LEMMA RoundInitially == MockInit => RoundInv
<1> SUFFICES ASSUME MockInit PROVE RoundInv
  OBVIOUS
<1>1. /\ tcp_notification = <<>> /\ tcp_rx_req = <<>> /\ tcp_rx_rsp = <<>> /\ tcp_rx_data = <<>>
      /\ sm.state = "IDLE" /\ hp.state = "INPUT_READ" /\ pp.state = "HEADER_READ"
      /\ headline_in = <<>> /\ headline_out = <<>> /\ payload_in = <<>> /\ http_request = <<>>
      /\ http_request_headers = <<>> /\ http_request_body = <<>> /\ notified = <<>> /\ served = <<>>
      /\ app.requests = <<>> /\ app.headers = <<>> /\ app.body = <<>>
  BY DEF MockInit, ServerInit, Init
<1>2. /\ http_response = <<>> /\ http_response_headers = <<>> /\ http_response_body = <<>>
      /\ tcp_tx_req = <<>> /\ tcp_tx_rsp = <<>> /\ tx_aligner = <<>> /\ resp_status_code = <<>>
      /\ resp_status_line = <<>> /\ tx_sm.state = "IDLE" /\ tx_sc.state = "IDLE" /\ settled = <<>>
      /\ consume.headers = FALSE /\ consume.body = FALSE /\ produce.rsp = 1 /\ produce.word = 1
      /\ rx_mock = "IDLE" /\ tx_mock = "IDLE" /\ received = <<>> /\ al.state = "IDLE" /\ tcp_tx_data = <<>>
  BY DEF MockInit, ServerInit
<1>3. Exchange
  BY <1>1, <1>2 DEF Exchange, ExchangeCounted, MockNotifications, LastInFlight, Awaiting, Drawn, Delivered, One
<1>4. Headlines
  BY <1>1 DEF Headlines, HeadlinesBefore, HeadlinesAfter, HeadlineParsed, Requested, Unserved, Awaiting, One
<1>5. Payload
  <2>1. PayloadDue = 0
    BY <1>1 DEF PayloadDue, Awaiting
  <2>2. PayloadRead = 0 /\ HeadersOffered = 0 /\ BodyOffered = 0
    BY <1>1, <2>1 DEF PayloadIssued, PayloadRead, HeadersConsumed, BodyConsumed, HeadersOffered, BodyOffered
  <2> QED BY <1>1, <2>2 DEF Payload, PayloadWords
<1>6. Consumption
  BY <1>1, <1>2 DEF Consumption, HeadersConsumed, BodyConsumed, HeadersEnded, BodyEnded, One
<1>7. answering = 0
  BY <1>1, <1>2 DEF answering
<1>8. SizesMade /\ Asked /\ StatusUnderWay
  BY <1>2, <1>7 DEF SizesMade, Asked, StatusUnderWay, One
<1>9. WordsWritten
  <2>1. Len(http_response_headers) = 0 /\ Len(http_response_body) = 0
    BY <1>2
  <2>2. HeadersTaken = 0 /\ BodyTaken = 0
    <3>1. produce.rsp - 1 = 0 /\ produce.word - 1 = 0 /\ 2 * (produce.rsp - 1) = 0
      BY <1>2
    <3>2. HeadersTaken = 0 + (0 - 0) /\ BodyTaken = 0 - 0
      BY <2>1, <3>1 DEF HeadersTaken, BodyTaken
    <3> QED BY <3>2
  <2> QED BY <1>2, <1>7, <2>1, <2>2 DEF WordsWritten
<1>10. AnswerUnderWay
  <2>1. BytesFrom0(0) = <<>>
    BY NoBytes
  <2> QED BY <1>2, <2>1 DEF AnswerUnderWay, Quiet
<1> QED BY <1>3, <1>4, <1>5, <1>6, <1>8, <1>9, <1>10 DEF RoundInv

\* Every process keeps all of it.
LEMMA RoundStep ==
  ASSUME SizesFit, MockInv, RoundInv, [MockNext]_systemVars
  PROVE  RoundInv'
<1>1. /\ Exchange /\ Headlines /\ Payload /\ Consumption
      /\ SizesMade /\ Asked /\ StatusUnderWay /\ WordsWritten /\ AnswerUnderWay
  BY DEF RoundInv
<1>2. CASE HttpStep(RxStateMachine)
  <2>1. Exchange' /\ Headlines' /\ Payload'
    BY <1>1, <1>2, SmExchange, SmHeadlines, SmPayload
  <2> QED BY <1>1, <1>2, <2>1, RxStateMachineLeaves, ConsumptionFrame, AskedFrame, StatusFrame,
             WordsWrittenFrame, AnswerFrame DEF RoundInv
<1>3. CASE HttpStep(RxHeadlineParser) \/ HttpStep(RxRequestIssuer)
  <2>1. Headlines'
    BY <1>1, <1>3, PassedHeadlines
  <2> QED BY <1>1, <1>3, <2>1, HeadlineLeaves, ExchangeFrame, PayloadFrame, ConsumptionFrame, AskedFrame,
             StatusFrame, WordsWrittenFrame, AnswerFrame DEF RoundInv
<1>4. CASE HttpStep(RxPayloadParser)
  <2>1. Payload' /\ Consumption'
    BY <1>1, <1>4, PpPayload, PpConsumption
  <2> QED BY <1>1, <1>4, <2>1, RxPayloadParserLeaves, ExchangeFrame, HeadlinesFrame, AskedFrame,
             StatusFrame, WordsWrittenFrame, AnswerFrame DEF RoundInv
<1>5. CASE HttpStep(TxStateMachine)
  <2>1. SizesMade' /\ Asked' /\ StatusUnderWay' /\ WordsWritten' /\ AnswerUnderWay'
    BY <1>1, <1>5, TxSizes, TxAsked, TxStatus, TxWords, TxAnswer
  <2> QED BY <1>1, <1>5, <2>1, TxStateMachineLeaves, ExchangeFrame, HeadlinesFrame, PayloadFrame,
             ConsumptionFrame DEF RoundInv
<1>6. CASE HttpStep(TxStatusCodeParser)
  <2>1. StatusUnderWay'
    BY <1>1, <1>6, ScStatus
  <2> QED BY <1>1, <1>6, <2>1, TxStatusCodeParserLeaves, ExchangeFrame, HeadlinesFrame, PayloadFrame,
             ConsumptionFrame, AskedFrame, WordsWrittenFrame, AnswerFrame DEF RoundInv
<1>7. CASE HttpStep(ProcessNotify)
  <2>1. Headlines' /\ SizesMade' /\ Asked' /\ WordsWritten' /\ AnswerUnderWay'
    BY <1>1, <1>7, PassedHeadlines, NotifySizes, NotifyAsked, NotifyWords, ApplicationAnswer
  <2> QED BY <1>1, <1>7, <2>1, ProcessNotifyLeaves, ProcessNotifyTakes, ExchangeFrame, PayloadFrame,
             ConsumptionFrame, StatusFrame DEF RoundInv
<1>8. CASE HttpStep(ConsumeRequest)
  <2>1. Payload' /\ Consumption'
    BY <1>1, <1>8, ConsumePayload, ConsumeConsumption
  <2> QED BY <1>1, <1>8, <2>1, ConsumeRequestLeaves, ExchangeFrame, HeadlinesFrame, AskedFrame,
             StatusFrame, WordsWrittenFrame, AnswerFrame DEF RoundInv
<1>9. CASE HttpStep(ProduceResponse)
  <2>1. WordsWritten' /\ AnswerUnderWay'
    BY <1>1, <1>9, ProduceWords, ApplicationAnswer
  <2> QED BY <1>1, <1>9, <2>1, ProduceResponseLeaves, ExchangeFrame, HeadlinesFrame, PayloadFrame,
             ConsumptionFrame, AskedFrame, StatusFrame DEF RoundInv
<1>10. CASE AlignerStep
  <2>1. AnswerUnderWay'
    BY <1>1, <1>10, AlignerAnswer
  <2> QED BY <1>1, <1>10, <2>1, AlignerLeaves, ExchangeFrame, HeadlinesFrame, PayloadFrame,
             ConsumptionFrame, AskedFrame, StatusFrame, WordsWrittenFrame DEF RoundInv
<1>11. CASE RxMock
  <2>1. Exchange' /\ Headlines' /\ Payload'
    BY <1>1, <1>11, RxMockExchange, SmHeadlines, SmPayload
  <2> QED BY <1>1, <1>11, <2>1, RxMockLeaves, ConsumptionFrame, AskedFrame, StatusFrame,
             WordsWrittenFrame, AnswerFrame DEF RoundInv
<1>12. CASE TxMock
  <2>1. SizesMade' /\ Asked' /\ AnswerUnderWay'
    BY <1>1, <1>12, MockSizes, MockAsked, MockIdleAnswer, MockHandshakeAnswer, MockConsumeAnswer DEF TxMock
  <2> QED BY <1>1, <1>12, <2>1, TxMockLeaves, ExchangeFrame, HeadlinesFrame, PayloadFrame,
             ConsumptionFrame, StatusFrame, WordsWrittenFrame DEF RoundInv
<1>13. CASE Listen
  BY <1>1, <1>13, ListenLeaves, ExchangeFrame, HeadlinesFrame, PayloadFrame, ConsumptionFrame, AskedFrame,
     StatusFrame, WordsWrittenFrame, AnswerFrame DEF RoundInv
<1>14. CASE UNCHANGED systemVars
  <2>1. UNCHANGED <<exchangeVars, headlineVars, payloadVars, consumeVars, askedVars, statusVars,
                    wordsVars, answerVars>>
    BY <1>14 DEF systemVars, serverVars, mockVars, rxVars, vars, txVars, tcpFifos, inFifos, appFifos,
       tcpStack, rxMockVars, txMockVars, alVars, exchangeVars, headlineVars, payloadVars,
       consumeVars, askedVars, statusVars, wordsVars, answerVars
  <2> QED BY <1>1, <2>1, ExchangeFrame, HeadlinesFrame, PayloadFrame, ConsumptionFrame, AskedFrame,
             StatusFrame, WordsWrittenFrame, AnswerFrame DEF RoundInv
<1> QED BY <1>2, <1>3, <1>4, <1>5, <1>6, <1>7, <1>8, <1>9, <1>10, <1>11, <1>12, <1>13, <1>14, StepCases

\* The types and the rounds of every reachable state.
LEMMA Rounds == ASSUME SizesFit PROVE MockSpec => [](MockInv /\ RoundInv)
<1>1. MockInit => MockInv /\ RoundInv
  BY TypesInitially, RoundInitially
<1>2. MockInv /\ RoundInv /\ [MockNext]_systemVars => MockInv' /\ RoundInv'
  BY MockTypesStep, RoundStep
<1> QED BY <1>1, <1>2, PTL DEF MockSpec

\* The bytes so far, as a sequence.
LEMMA BytesSoFar ==
  ASSUME NEW n \in Nat
  PROVE  Len(BytesFrom0(n)) = n /\ BytesFrom0(n) = [i \in 1 .. Len(BytesFrom0(n)) |-> i - 1]
<1>1. BytesFrom0(n) \in [1 .. n -> Int]
  BY DEF BytesFrom0
<1>2. Len(BytesFrom0(n)) = n
  BY <1>1, SequenceOf
<1> QED BY <1>2 DEF BytesFrom0

\* What tx_mock has taken is the answer up to the end of a word: nothing of it
\* before the first, all that was announced after the last.
LEMMA ArrivesWhole ==
  ASSUME SizesFit, MockInv, RoundInv
  PROVE  AnswerArrivesWhole
<1>1. WordBytes \in Nat /\ AnswerBytes \in Nat /\ WordBytes < AnswerBytes /\ 0 < AnswerBytes
  BY SizesFacts
<1>2. AnswerLength = AnswerBytes
  <2>1. headers_size \in Nat /\ body_size \in Nat /\ AnswerBytes = headers_size + 2 + body_size
    BY SizesFacts DEF AnswerBytes
  <2>2. body_size + headers_size + 2 = AnswerBytes
    BY <2>1
  <2>3. AnswerBytes < LengthValues /\ LengthValues \in Nat \ {0}
    BY InnerAssumption DEF SizesFit
  <2>4. AnswerBytes % LengthValues = AnswerBytes
    <3> HIDE DEF AnswerBytes
    <3> QED BY <1>1, <2>3
  <2> QED BY <2>2, <2>4 DEF AnswerLength
<1>3. settled # <<>> => settled[Len(settled)].length = AnswerBytes
  <2> SUFFICES ASSUME settled # <<>> PROVE settled[Len(settled)].length = AnswerBytes
    OBVIOUS
  <2>1. Len(settled) \in 1 .. Len(settled)
    BY AnswerFacts
  <2> QED BY <1>2, <2>1 DEF RoundInv, SizesMade
<1>4. AnswerUnderWay /\ (tx_mock # "IDLE" => settled # <<>>)
  BY DEF RoundInv, Asked
<1>5. CASE tx_mock = "IDLE"
  <2> DEFINE n == IF settled = <<>> THEN 0 ELSE AnswerBytes
  <2>1. received = BytesFrom0(n) /\ n \in Nat
    BY <1>1, <1>4, <1>5 DEF AnswerUnderWay
  <2>2. Len(received) = n /\ received = [i \in 1 .. Len(received) |-> i - 1]
    BY <2>1, BytesSoFar
  <2> QED BY <1>3, <1>5, <2>2 DEF AnswerArrivesWhole
<1>6. CASE tx_mock # "IDLE"
  <2>1. \E n \in {0, WordBytes} : received = BytesFrom0(n)
    <3>1. tx_mock \in {"HANDSHAKE", "CONSUME_DATA"}
      BY <1>6 DEF MockInv, MockOK
    <3>2. CASE tx_mock = "HANDSHAKE"
      BY <1>4, <3>2, NoBytes DEF AnswerUnderWay
    <3>3. CASE tx_mock = "CONSUME_DATA"
      BY <1>4, <3>3 DEF AnswerUnderWay, InFlight
    <3> QED BY <3>1, <3>2, <3>3
  <2>2. PICK n \in {0, WordBytes} : received = BytesFrom0(n)
    BY <2>1
  <2>3. Len(received) = n /\ received = [i \in 1 .. Len(received) |-> i - 1]
    BY <1>1, <2>2, BytesSoFar
  <2>4. Len(received) < AnswerBytes
    BY <1>1, <2>2, <2>3
  <2> QED BY <1>3, <1>4, <1>6, <2>3, <2>4 DEF AnswerArrivesWhole
<1> QED BY <1>5, <1>6

\* tx_mock takes every answer byte for byte, in order, up to exactly the length
\* announced for it, and turns to the next one with its last byte: the two words
\* that response_aligner makes of the four of an answer
\* (response_aligner.cc:367, tcp.mock.cc:157) hold it all, wherever the
\* processes are with the answers around it.  It holds of the sizes that fit the
\* two words, as those of the application do (93 and 16 of 128 bytes).
THEOREM MockAnswersWhole ==
  ASSUME SizesFit
  PROVE  MockSpec => []AnswerArrivesWhole
BY Rounds, ArrivesWhole, PTL

-----------------------------------------------------------------------------
(***************************************************************************)
(* The path never gets stuck: what holds where no process can go on        *)
(***************************************************************************)

\* Depths are not zero, and a full FIFO is not empty.
LEMMA Depths ==
  /\ PortDepth \in Nat /\ PortDepth > 0 /\ InnerDepth \in Nat /\ InnerDepth > 0
  /\ HeadlineInDepth \in Nat /\ HeadlineInDepth > 0 /\ HeadlineOutDepth \in Nat /\ HeadlineOutDepth > 0
  /\ PayloadInDepth \in Nat /\ PayloadInDepth > 0
  /\ \A S, d : d \in Nat /\ d > 0 =>
       \A s \in Seq(S) : /\ Len(s) \in Nat /\ (s # <<>> <=> Len(s) > 0)
                         /\ ~(Len(s) < d) => Len(s) > 0 /\ s # <<>>
<1>1. /\ PortDepth \in Nat \ {0} /\ HeadlineInDepth \in Nat \ {0} /\ HeadlineOutDepth \in Nat \ {0}
      /\ PayloadInDepth \in Nat \ {0} /\ InnerDepth \in Nat \ {0}
  BY DepthAssumption, InnerAssumption
<1>2. ASSUME NEW S, NEW d, d \in Nat, d > 0, NEW s \in Seq(S)
      PROVE  /\ Len(s) \in Nat /\ (s # <<>> <=> Len(s) > 0)
             /\ ~(Len(s) < d) => Len(s) > 0 /\ s # <<>>
  BY <1>2
<1> QED BY <1>1, <1>2

\* The headlines are blocked only by an answer that is not taken.
LEMMA StuckHeadlines ==
  ASSUME MockInv, ~CanGoOn, http_response = <<>>
  PROVE  /\ headline_in = <<>> /\ hp.state = "INPUT_READ" /\ headline_out = <<>> /\ http_request = <<>>
<1>1. Len(http_response) < PortDepth
  BY Depths
<1>2. http_request = <<>>
  BY <1>1 DEF CanGoOn, ApplicationCan, CanRead, CanWrite
<1>3. Len(http_request) < PortDepth
  BY <1>2, Depths
<1>4. headline_out = <<>>
  BY <1>3 DEF CanGoOn, RequestPathCan, CanRead, CanWrite
<1>5. Len(headline_out) < HeadlineOutDepth
  BY <1>4, Depths
<1>6. hp.state \in {"INPUT_READ", "PARSE_METHOD", "EXTRACT_ENDPOINT", "OUTPUT_WRITE"}
  BY DEF MockInv, TypeInv, TypeOK, HpOK
<1>7. hp.state = "INPUT_READ"
  BY <1>5, <1>6 DEF CanGoOn, RequestPathCan, CanWrite
<1>8. headline_in = <<>>
  BY <1>7 DEF CanGoOn, RequestPathCan, CanRead
<1> QED BY <1>2, <1>4, <1>7, <1>8

\* The payload is blocked by nothing: consume_request takes the part that is
\* offered, since it never waits for one when the other is due.
LEMMA StuckPayload ==
  ASSUME MockInv, RoundInv, ~CanGoOn
  PROVE  payload_in = <<>>
<1>1. Payload /\ Consumption
  BY DEF RoundInv
<1>2. consume \in [headers : BOOLEAN, body : BOOLEAN] /\ ~(consume.headers /\ consume.body)
  BY DEF MockInv, ConsumeOK
<1>3. pp.state \in {"HEADER_READ", "HEADER_WRITE", "BODY_READ", "BODY_WRITE"}
  BY DEF MockInv, TypeInv, TypeOK, PpOK
<1>4. /\ Len(http_request_headers) \in Nat /\ Len(http_request_body) \in Nat
      /\ HeadersConsumed \in Nat /\ BodyConsumed \in Nat
      /\ HeadersOffered = Len(http_request_headers) + HeadersConsumed
      /\ BodyOffered = Len(http_request_body) + BodyConsumed
  BY PayloadFacts DEF HeadersOffered, BodyOffered
<1>5. /\ consume.headers \/ http_request_headers = <<>>
      /\ consume.body \/ http_request_body = <<>>
  BY DEF CanGoOn, ApplicationCan, CanRead
<1>6. HeadersConsumed + BodyEnded = BodyConsumed + HeadersEnded
  BY <1>1 DEF Consumption
<1>7. CASE pp.state \in {"HEADER_READ", "BODY_READ"}
  BY <1>7 DEF CanGoOn, RequestPathCan, CanRead
<1>8. CASE pp.state = "HEADER_WRITE"
  <2>1. ~(Len(http_request_headers) < PortDepth)
    BY <1>8 DEF CanGoOn, RequestPathCan, CanWrite
  <2>2. Len(http_request_headers) > 0 /\ http_request_headers # <<>>
    BY <2>1, Depths, PayloadFacts
  <2>3. consume.headers /\ ~consume.body
    BY <1>2, <1>5, <2>2
  <2>4. HeadersEnded = 1 /\ BodyEnded = 0 /\ http_request_body = <<>>
    BY <1>5, <2>3 DEF HeadersEnded, BodyEnded, One
  <2>5. Len(http_request_body) = 0
    BY <2>4
  <2>6. BodyOffered = HeadersOffered
    BY <1>1, <1>8 DEF Payload
  <2>7. FALSE
    BY <1>4, <1>6, <2>2, <2>4, <2>5, <2>6
  <2> QED BY <2>7
<1>9. CASE pp.state = "BODY_WRITE"
  <2>1. ~(Len(http_request_body) < PortDepth)
    BY <1>9 DEF CanGoOn, RequestPathCan, CanWrite
  <2>2. Len(http_request_body) > 0 /\ http_request_body # <<>>
    BY <2>1, Depths, PayloadFacts
  <2>3. consume.body /\ ~consume.headers
    BY <1>2, <1>5, <2>2
  <2>4. HeadersEnded = 0 /\ BodyEnded = 1 /\ http_request_headers = <<>>
    BY <1>5, <2>3 DEF HeadersEnded, BodyEnded, One
  <2>5. Len(http_request_headers) = 0
    BY <2>4
  <2>6. BodyOffered = HeadersOffered - 1
    BY <1>1, <1>9 DEF Payload
  <2>7. FALSE
    BY <1>4, <1>6, <2>2, <2>4, <2>5, <2>6
  <2> QED BY <2>7
<1> QED BY <1>3, <1>7, <1>8, <1>9

\* Neither is the aligner: tx_mock takes what it sends.
LEMMA StuckAligner ==
  ASSUME MockInv, RoundInv, ~CanGoOn
  PROVE  /\ tx_aligner = <<>> /\ al.state # "RESIDUE"
         /\ tx_mock = "CONSUME_DATA" => tcp_tx_data = <<>>
<1>1. tx_mock = "CONSUME_DATA" => tcp_tx_data = <<>>
  BY DEF CanGoOn, MockCan, CanRead
<1>2. al.state \in {"IDLE", "PULL_FIRST", "PULL_N", "RESIDUE"}
  BY DEF MockInv, AlignerOK
<1>3. ASSUME tx_aligner # <<>> \/ al.state = "RESIDUE" PROVE FALSE
  <2>1. tx_mock = "CONSUME_DATA"
    BY <1>3, NotQuiet DEF RoundInv, Quiet
  <2>2. Len(tcp_tx_data) < PortDepth
    BY <1>1, <2>1, Depths
  <2> QED BY <1>2, <1>3, <2>2 DEF CanGoOn, ResponsePathCan, CanRead, CanWrite
<1> QED BY <1>1, <1>3

\* tx_mock does not wait for words when all are written.
LEMMA StuckMock ==
  ASSUME MockInv, RoundInv, ~CanGoOn, Sent = 4
  PROVE  tx_mock # "CONSUME_DATA"
<1> SUFFICES ASSUME tx_mock = "CONSUME_DATA" PROVE FALSE
  OBVIOUS
<1>1. Len(tx_aligner) = 0 /\ Len(tcp_tx_data) = 0
  BY StuckAligner
<1>2. Read = 4
  BY <1>1 DEF Read
<1>3. PackedOut = 2
  BY <1>2 DEF PackedOut, One
<1>4. Taken = 2
  BY <1>1, <1>3 DEF Taken
<1>5. Taken \in {0, 1}
  BY DEF RoundInv, AnswerUnderWay, InFlight
<1> QED BY <1>4, <1>5

\* state_machine of the response path waits for an answer, and for nothing else.
LEMMA StuckAnswers ==
  ASSUME MockInv, RoundInv, ~CanGoOn
  PROVE  /\ tx_sm.state = "IDLE" /\ http_response = <<>>
         /\ tx_mock = "IDLE" /\ Len(settled) = answering
<1>1. Asked /\ StatusUnderWay /\ WordsWritten
  BY DEF RoundInv
<1>2. tx_sm.state \in Tx!SmStates
  BY AnswerFacts
<1>3. tx_mock \in {"IDLE", "HANDSHAKE", "CONSUME_DATA"}
  BY DEF MockInv, MockOK
<1>4. tx_aligner = <<>> /\ Len(tx_aligner) < InnerDepth
  BY StuckAligner, Depths
<1>5. /\ Len(http_response_headers) \in Nat /\ Len(http_response_body) \in Nat
      /\ produce.rsp \in Nat \ {0} /\ produce.word \in 1 .. 3 /\ answering \in Int
      /\ http_response_headers \in Seq(PlacedWord) /\ http_response_body \in Seq(PlacedWord)
  BY AnswerFacts, AnswerLens
<1>6. tx_sm.state # "TCP_REQ"
  <2> SUFFICES ASSUME tx_sm.state = "TCP_REQ" PROVE FALSE
    OBVIOUS
  <2>1. Len(tcp_tx_req) < PortDepth
    BY <1>1, Depths DEF Asked
  <2> QED BY <2>1 DEF CanGoOn, ResponsePathCan, CanWrite
<1>7. tx_sm.state # "TCP_RSP"
  <2> SUFFICES ASSUME tx_sm.state = "TCP_RSP" PROVE FALSE
    OBVIOUS
  <2>1. tcp_tx_rsp = <<>>
    BY DEF CanGoOn, ResponsePathCan, CanRead
  <2>2. tx_mock # "HANDSHAKE"
    <3>1. Len(tcp_tx_rsp) < PortDepth
      BY <2>1, Depths
    <3> QED BY <3>1 DEF CanGoOn, MockCan, CanWrite
  <2>3. tx_mock # "CONSUME_DATA"
    <3>1. Sent = 4
      BY <1>1, <2>1, SentIs
    <3> QED BY <3>1, StuckMock
  <2>4. Len(tcp_tx_req) = 1 /\ tx_mock = "IDLE"
    BY <1>1, <1>3, <2>1, <2>2, <2>3 DEF Asked
  <2>5. tcp_tx_req # <<>>
    BY <2>4
  <2> QED BY <2>4, <2>5 DEF CanGoOn, MockCan, CanRead
<1>8. tx_sm.state # "DATA_HTTP_STATUS"
  <2> SUFFICES ASSUME tx_sm.state = "DATA_HTTP_STATUS" PROVE FALSE
    OBVIOUS
  <2>1. resp_status_line = <<>> /\ Len(resp_status_line) < InnerDepth /\ Len(resp_status_line) = 0
    <3>1. resp_status_line = <<>>
      BY DEF CanGoOn, ResponsePathCan, CanRead
    <3> QED BY <3>1, Depths
  <2>2. tx_sc.state \in {"IDLE", "READ_INPUT", "WRITE_OUTPUT"}
    BY AnswerFacts
  <2>3. tx_sc.state # "WRITE_OUTPUT"
    BY <2>1 DEF CanGoOn, ResponsePathCan, CanWrite
  <2>4. Len(resp_status_code) = 0
    <3>1. resp_status_code = <<>>
      BY <2>2, <2>3 DEF CanGoOn, ResponsePathCan, CanRead
    <3> QED BY <3>1
  <2> QED BY <1>1, <2>1, <2>3, <2>4 DEF StatusUnderWay, One
<1>9. tx_sm.state # "DATA_CRLF"
  BY <1>4 DEF CanGoOn, ResponsePathCan, CanWrite
<1> DEFINE whole == 2 * (produce.rsp - 1)
           part  == produce.word - 1
<1>10. /\ HeadersTaken = whole + (part - Len(http_response_headers))
       /\ BodyTaken = (produce.rsp - 1) - Len(http_response_body)
  BY DEF HeadersTaken, BodyTaken
<1>11. /\ whole \in Int /\ part \in 0 .. 2
  BY <1>5
<1>12. tx_sm.state # "DATA_HEADERS"
  <2> SUFFICES ASSUME tx_sm.state = "DATA_HEADERS" PROVE FALSE
    OBVIOUS
  <2>1. http_response_headers = <<>> /\ Len(http_response_headers) = 0
    <3>1. http_response_headers = <<>>
      BY <1>4 DEF CanGoOn, ResponsePathCan, CanRead, CanWrite
    <3> QED BY <3>1
  <2>2. Len(http_response_headers) < PortDepth
    BY <2>1, Depths
  <2>3. produce.word = 3
    BY <1>5, <2>2 DEF CanGoOn, ApplicationCan, CanWrite
  <2>4. Len(http_response_body) > 0
    <3>1. ~(Len(http_response_body) < PortDepth)
      BY <2>3 DEF CanGoOn, ApplicationCan, CanWrite
    <3> QED BY <1>5, <3>1, Depths
  <2>5. HeadersTaken \in {2 * answering - 2, 2 * answering - 1} /\ BodyTaken = answering - 1
    BY <1>1 DEF WordsWritten
  <2>6. HeadersTaken = 2 * (produce.rsp - 1) + 2
    <3>1. part = 2
      BY <2>3
    <3> QED BY <1>10, <1>11, <2>1, <3>1
  <2>7. produce.rsp - 1 = (answering - 1) + Len(http_response_body)
    <3> DEFINE made == produce.rsp - 1
               left == Len(http_response_body)
               over == answering - 1
    <3>1. made \in Int /\ left \in Int /\ over \in Int
      BY <1>5
    <3>2. made - left = over
      BY <1>10, <2>5
    <3> HIDE DEF made, left, over
    <3>3. made = over + left
      BY <3>1, <3>2
    <3> QED BY <3>3 DEF made, left, over
  <2> QED BY <1>5, <2>4, <2>5, <2>6, <2>7
<1>13. tx_sm.state # "DATA_BODY"
  <2> SUFFICES ASSUME tx_sm.state = "DATA_BODY" PROVE FALSE
    OBVIOUS
  <2>1. http_response_body = <<>> /\ Len(http_response_body) = 0
    <3>1. http_response_body = <<>>
      BY <1>4 DEF CanGoOn, ResponsePathCan, CanRead, CanWrite
    <3> QED BY <3>1
  <2>2. HeadersTaken = 2 * answering /\ BodyTaken = answering - 1
    BY <1>1 DEF WordsWritten
  <2>3. produce.rsp = answering
    BY <1>5, <1>10, <2>1, <2>2
  <2>4. part - Len(http_response_headers) = 2
    <3>1. whole = 2 * answering - 2
      BY <1>5, <2>3
    <3> HIDE DEF whole, part
    <3>2. whole + 2 = HeadersTaken
      BY <1>5, <2>2, <3>1
    <3> QED BY <1>5, <1>10, <1>11, <3>2
  <2>5. produce.word = 3
    BY <1>5, <2>4
  <2>6. Len(http_response_body) < PortDepth
    BY <2>1, Depths
  <2> QED BY <2>5, <2>6 DEF CanGoOn, ApplicationCan, CanWrite
<1>14. tx_sm.state = "IDLE"
  BY <1>1, <1>2, <1>6, <1>7, <1>8, <1>9, <1>12, <1>13 DEF Tx!SmStates, Asked
<1>15. http_response = <<>>
  <2>1. /\ Len(resp_status_code) \in Nat /\ Len(resp_status_line) \in Nat
        /\ Len(resp_status_code) + One(tx_sc.state = "WRITE_OUTPUT") + Len(resp_status_line) = 0
    BY <1>1, <1>14, AnswerLens DEF StatusUnderWay, One
  <2>2. Len(resp_status_code) = 0
    <3> DEFINE made == One(tx_sc.state = "WRITE_OUTPUT")
    <3>1. made \in {0, 1}
      BY DEF One
    <3> HIDE DEF made
    <3>2. Len(resp_status_code) + made + Len(resp_status_line) = 0
      BY <2>1 DEF made
    <3> QED BY <2>1, <3>1, <3>2
  <2>3. Len(resp_status_code) < InnerDepth
    BY <2>2, Depths
  <2> QED BY <1>14, <2>3 DEF CanGoOn, ResponsePathCan, CanRead, CanWrite
<1>16. tx_mock = "IDLE" /\ Len(settled) = answering
  <2>1. Sent = 4
    BY <1>1, <1>14, SentIs
  <2> QED BY <1>1, <1>3, <1>14, <2>1, StuckMock DEF Asked
<1> QED BY <1>14, <1>15, <1>16

-----------------------------------------------------------------------------
\* rx_mock announces no more than it may.
LEMMA NotifiedWithin == MockSpec => [](Len(notified) <= MaxNotifications)
<1>1. MockInit => Len(notified) <= MaxNotifications
  BY BoundAssumption DEF MockInit, ServerInit, Init
<1>2. ASSUME MockInv, Len(notified) <= MaxNotifications, [MockNext]_systemVars
      PROVE  (Len(notified) <= MaxNotifications)'
  <2>1. CASE UNCHANGED notified
    BY <1>2, <2>1
  <2>2. CASE RxMockNotification
    <3>1. notified \in Seq(Notification) /\ Len(notified) \in Nat
      BY <1>2, ExchangeFacts
    <3>2. Len(notified') = Len(notified) + 1 /\ Len(notified) < MaxNotifications
      BY <2>2, <3>1 DEF RxMockNotification
    <3> QED BY <3>1, <3>2, BoundAssumption
  <2>3. CASE RxMock
    BY <2>1, <2>2, <2>3
       DEF RxMock, RxMockIdle, RxMockMeta, RxMockMetaHandshake, RxMockData
  <2>4. CASE ~RxMock
    <3>1. UNCHANGED notified
      BY <1>2, <2>4, StepCases, RxStateMachineLeaves, HeadlineLeaves, RxPayloadParserLeaves,
         TxStateMachineLeaves, TxStatusCodeParserLeaves, ProcessNotifyLeaves, ConsumeRequestLeaves,
         ProduceResponseLeaves, AlignerLeaves, TxMockLeaves, ListenLeaves DEF exchangeVars
    <3> QED BY <2>1, <3>1
  <2> QED BY <2>3, <2>4
<1>3. MockSpec => []MockInv
  BY MockTypes
<1> QED BY <1>1, <1>2, <1>3, PTL DEF MockSpec

\* Where neither the headlines nor the payload are blocked, state_machine and
\* rx_mock do not wait for each other: both are through with every transfer.
LEMMA StuckExchange ==
  ASSUME MockInv, RoundInv, ~CanGoOn, headline_in = <<>>, payload_in = <<>>
  PROVE  /\ sm.state = "IDLE" /\ Len(notified) = Len(served)
         /\ ~(Len(notified) < MaxNotifications)
<1> DEFINE N == Len(tcp_notification)
           R == Len(tcp_rx_req)
           A == Len(tcp_rx_rsp)
           W == Len(tcp_rx_data)
           H == One(rx_mock = "META_HANDSHAKE")
           M == One(rx_mock \in {"META", "META_HANDSHAKE"})
           S == One(sm.state = "HANDSHAKE")
<1>1. /\ N \in Nat /\ R \in Nat /\ A \in Nat /\ W \in Nat /\ Len(notified) \in Nat /\ Len(served) \in Nat
      /\ sm.state \in {"IDLE", "NOTIFICATION", "HANDSHAKE", "DATA_HEADLINE", "DATA_PAYLOAD"}
      /\ rx_mock \in {"IDLE", "NOTIFICATION", "META", "META_HANDSHAKE", "DATA_HEADLINE",
                      "DATA_PAYLOAD", "DATA_PAYLOAD2"}
  BY ExchangeFacts
<1>2. /\ N > 0 <=> tcp_notification # <<>>
      /\ R > 0 <=> tcp_rx_req # <<>>
      /\ A > 0 <=> tcp_rx_rsp # <<>>
      /\ W > 0 <=> tcp_rx_data # <<>>
  BY ExchangeFacts
<1>3. /\ PortDepth \in Nat /\ PortDepth > 0
      /\ Len(headline_in) < HeadlineInDepth /\ Len(payload_in) < PayloadInDepth
  BY Depths
<1>4. /\ H \in {0, 1} /\ M \in {0, 1} /\ S \in {0, 1}
      /\ (H = 1 <=> rx_mock = "META_HANDSHAKE") /\ (M = 1 <=> rx_mock \in {"META", "META_HANDSHAKE"})
      /\ (S = 1 <=> sm.state = "HANDSHAKE")
  BY DEF One
<1>5. /\ N + R + H + Len(served) = Len(notified)
      /\ Len(notified) = Len(served) + M
      /\ R + H + A = S
      /\ sm.state = "NOTIFICATION" => N > 0
      /\ Awaiting => Drawn = 0
      /\ sm.state = "DATA_PAYLOAD" => Drawn \in {1, 2}
      /\ ~Awaiting /\ sm.state # "DATA_PAYLOAD" => Drawn = 3
  BY DEF RoundInv, Exchange, ExchangeCounted
<1>6. /\ sm.state = "IDLE" => N = 0
      /\ sm.state = "NOTIFICATION" => N = 0 \/ ~(R < PortDepth)
      /\ sm.state = "HANDSHAKE" => A = 0
      /\ sm.state \in {"DATA_HEADLINE", "DATA_PAYLOAD"} => W = 0
  BY <1>1, <1>2, <1>3 DEF CanGoOn, RequestPathCan, CanRead, CanWrite
<1>7. /\ rx_mock # "IDLE"
      /\ rx_mock = "NOTIFICATION" => ~(Len(notified) < MaxNotifications) \/ ~(N < PortDepth)
      /\ rx_mock = "META" => R = 0
      /\ rx_mock = "META_HANDSHAKE" => ~(A < PortDepth)
      /\ rx_mock \in {"DATA_HEADLINE", "DATA_PAYLOAD", "DATA_PAYLOAD2"} => ~(W < PortDepth)
  BY <1>1, <1>2 DEF CanGoOn, MockCan, CanRead, CanWrite
<1>8. Drawn + W = Delivered /\ Delivered \in 0 .. 3 /\ Drawn \in Int
      /\ (rx_mock \in {"DATA_HEADLINE", "DATA_PAYLOAD", "DATA_PAYLOAD2"} <=> Delivered < 3)
  <2>1. Delivered \in 0 .. 3
        /\ (rx_mock \in {"DATA_HEADLINE", "DATA_PAYLOAD", "DATA_PAYLOAD2"} <=> Delivered < 3)
    BY DEF Delivered, One
  <2> QED BY <1>1, <2>1 DEF Drawn
<1>9. Awaiting => sm.state \in {"DATA_HEADLINE", "HANDSHAKE"}
  BY DEF Awaiting
<1>10. sm.state = "DATA_HEADLINE" => Awaiting
  BY DEF Awaiting
<1> HIDE DEF N, R, A, W, H, M, S
<1>11. sm.state # "NOTIFICATION"
  BY <1>1, <1>3, <1>4, <1>5, <1>6
<1>12. sm.state # "HANDSHAKE"
  BY <1>1, <1>3, <1>4, <1>5, <1>6, <1>7
<1>13. sm.state \notin {"DATA_HEADLINE", "DATA_PAYLOAD"}
  BY <1>1, <1>3, <1>5, <1>6, <1>7, <1>8, <1>10
<1>14. sm.state = "IDLE"
  BY <1>1, <1>11, <1>12, <1>13
<1>15. N = 0 /\ R = 0 /\ H = 0 /\ Len(notified) = Len(served)
  BY <1>1, <1>4, <1>5, <1>6, <1>14
<1>16. rx_mock = "NOTIFICATION"
  BY <1>1, <1>3, <1>4, <1>5, <1>7, <1>8, <1>9, <1>14, <1>15
<1> QED BY <1>3, <1>7, <1>14, <1>15, <1>16

\* Where no process can go on, every notification is answered: the payload and
\* the aligner are empty, so the answers are all taken, so the headlines are,
\* so the mock has no transfer left.
LEMMA StuckIsDone ==
  ASSUME MockInv, RoundInv, Len(notified) <= MaxNotifications, ~CanGoOn
  PROVE  AllAnswered
<1>1. tx_sm.state = "IDLE" /\ http_response = <<>> /\ tx_mock = "IDLE" /\ Len(settled) = answering
  BY StuckAnswers
<1>2. /\ headline_in = <<>> /\ hp.state = "INPUT_READ" /\ headline_out = <<>> /\ http_request = <<>>
  BY <1>1, StuckHeadlines
<1>3. /\ sm.state = "IDLE" /\ Len(notified) = Len(served) /\ ~(Len(notified) < MaxNotifications)
  BY <1>2, StuckPayload, StuckExchange
<1>4. Len(notified) = MaxNotifications
  BY <1>3, ExchangeFacts, BoundAssumption
<1>5. Requested = Len(served)
  <2>1. Unserved = 0 /\ HeadlineParsed = 0
    BY <1>2, <1>3 DEF Unserved, Awaiting, HeadlineParsed, One
  <2>2. HeadlinesBefore = 0 /\ HeadlinesAfter = Requested
    <3>1. Len(headline_in) = 0 /\ Len(headline_out) = 0 /\ Len(http_request) = 0
      BY <1>2
    <3> QED BY <2>1, <3>1, HeadlineLens DEF HeadlinesBefore, HeadlinesAfter
  <2>3. Headlines
    BY DEF RoundInv
  <2> QED BY <2>1, <2>2, <2>3, HeadlineLens DEF Headlines
<1>6. answering = Len(app.requests)
  <2>1. Len(http_response) = 0 /\ Len(app.requests) \in Nat
    BY <1>1, HeadlineFacts
  <2> QED BY <2>1 DEF answering
<1> QED BY <1>1, <1>3, <1>4, <1>5, <1>6 DEF AllAnswered, Requested

\* As long as a notification of the mock is not answered to the last byte, some
\* process of the path finds what it reads and room for what it writes: the
\* processes never wait for each other in a circle (tcp.mock.cc:197), whatever
\* the depths of the FIFOs and however many notifications are under way.
THEOREM MockNeverStuck ==
  ASSUME SizesFit
  PROVE  MockSpec => []NeverStuck
<1>1. MockInv /\ RoundInv /\ Len(notified) <= MaxNotifications => NeverStuck
  BY StuckIsDone DEF NeverStuck
<1> QED BY <1>1, Rounds, NotifiedWithin, PTL
=============================================================================
