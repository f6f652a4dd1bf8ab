------------------------------ MODULE TcpMock -------------------------------
(***************************************************************************)
(* The system of the emulation build (hw/mock/connectivity.cfg): the whole *)
(* of http_top, with response_aligner and listen_port, the health check    *)
(* application, and tcp_mock (hw/mock/tcp.mock.cc) in the place of the     *)
(* TCP stack.  Nothing is external:                                        *)
(*                                                                         *)
(*   rx_mock -> request_processor -> health_check -> response_processor    *)
(*                                -> response_aligner -> tx_mock           *)
(*   listen_port <-> listen_port_handler                                   *)
(*                                                                         *)
(* The mock announces 50 bytes, less than a word, and delivers three words *)
(* of them, so that every request brings what the application drains.      *)
(***************************************************************************)
EXTENDS HealthCheck

CONSTANT MockLength     \* bytes rx_mock announces (50 in the code)

MockSession   == 100
MOCK_HEADLINE == <<71, 69, 84, 32, 47, 32, 72>>       \* "GET / H"

ASSUME MockAssumption ==
  /\ MockLength \in 1 .. WordBytes - 1 /\ MockLength \in Lengths
  /\ MockSession \in Sessions
  /\ MOCK_HEADLINE \in Lines

VARIABLES
  rx_mock,            \* the state of rx_mock
  tx_mock,            \* the state of tx_mock
  al, tcp_tx_data,    \* response_aligner and its output, as in ResponseAligner
  damaged,
  received,           \* the bytes of the answer tx_mock takes, or has taken last
  tcp_listen_req, tcp_listen_rsp

rxMockVars == <<rx_mock>>
txMockVars == <<tx_mock, received>>
alVars     == <<al, tcp_tx_data, damaged>>
listenVars == <<tcp_listen_req, tcp_listen_rsp>>
mockVars   == <<rxMockVars, txMockVars, alVars, listenVars>>
systemVars == <<serverVars, mockVars>>

-----------------------------------------------------------------------------
(***************************************************************************)
(* The words of tx_aligner, lane by lane: a byte is named by its place in  *)
(* the response, which is the same for all.                                *)
(***************************************************************************)

FirstByte(word) ==
  CASE word.part = "headers" -> (word.pos - 1) * WordBytes
    [] word.part = "crlf"    -> headers_size
    [] word.part = "body"    -> headers_size + 2

Laned(word) ==
  [data |-> [i \in 0 .. WordBytes - 1 |-> [pkt |-> word.rsp, pos |-> FirstByte(word) + i]],
   keep |-> [i \in 0 .. WordBytes - 1 |-> i < word.bytes],
   last |-> word.last]

Al == INSTANCE ResponseAligner
        WITH BUFFER <- WordBytes, TxAlignerDepth <- InnerDepth, MaxWords <- 0,
             tx_aligner <- [k \in DOMAIN tx_aligner |-> Laned(tx_aligner[k])],
             packets <- <<>>, fed <- 0, sent <- <<>>

MockInit ==
  /\ ServerInit
  /\ rx_mock = "IDLE" /\ tx_mock = "IDLE" /\ received = <<>>
  /\ al = [state |-> "IDLE", prevLength |-> 0, prevWord |-> Al!NoWord]
  /\ tcp_tx_data = <<>> /\ damaged = {}
  /\ tcp_listen_req = <<>> /\ tcp_listen_rsp = <<>>

-----------------------------------------------------------------------------
(***************************************************************************)
(* rx_mock: one action per state that reads or writes                      *)
(***************************************************************************)

\* What rx_mock leaves alone, but for the FIFO it uses.
RxMockOnly ==
  /\ UNCHANGED <<sm, hp, pp, inFifos, appFifos, rx_left, app>>
  /\ UNCHANGED <<txVars, consume, produce, txMockVars, alVars, listenVars>>

RxMockIdle ==
  /\ rx_mock = "IDLE"
  /\ rx_mock' = "NOTIFICATION"
  /\ RxMockOnly /\ UNCHANGED <<tcpFifos, notified, served>>

RxMockNotification ==
  /\ rx_mock = "NOTIFICATION"
  /\ Len(notified) < MaxNotifications
  /\ CanWrite(tcp_notification, PortDepth)
  /\ LET notif == [sessionID |-> MockSession, length |-> MockLength] IN
       /\ tcp_notification' = Append(tcp_notification, notif)
       /\ notified' = Append(notified, notif)
  /\ rx_mock' = "META"
  /\ RxMockOnly /\ UNCHANGED <<tcp_rx_req, tcp_rx_rsp, tcp_rx_data, served>>

RxMockMeta ==
  /\ rx_mock = "META"
  /\ CanRead(tcp_rx_req)
  /\ tcp_rx_req' = Tail(tcp_rx_req)
  /\ rx_mock' = "META_HANDSHAKE"
  /\ RxMockOnly /\ UNCHANGED <<tcp_notification, tcp_rx_rsp, tcp_rx_data, notified, served>>

\* What is written is the state; state_machine does not look at it.
RxMockMetaHandshake ==
  /\ rx_mock = "META_HANDSHAKE"
  /\ CanWrite(tcp_rx_rsp, PortDepth)
  /\ tcp_rx_rsp' = Append(tcp_rx_rsp, 3)
  /\ served' = Append(served, [sessionID |-> MockSession, length |-> MockLength,
                               line |-> MOCK_HEADLINE])
  /\ rx_mock' = "DATA_HEADLINE"
  /\ RxMockOnly /\ UNCHANGED <<tcp_notification, tcp_rx_req, tcp_rx_data, notified>>

\* The three words: their state, the one after it, their position and last.
\* Mutant: no word is the last one.
MockWordsNoLast ==
  {<<"DATA_HEADLINE", "DATA_PAYLOAD", 1, FALSE>>,
   <<"DATA_PAYLOAD", "DATA_PAYLOAD2", 2, FALSE>>,
   <<"DATA_PAYLOAD2", "IDLE", 3, FALSE>>}
MockWords ==
  {<<"DATA_HEADLINE", "DATA_PAYLOAD", 1, FALSE>>,
   <<"DATA_PAYLOAD", "DATA_PAYLOAD2", 2, FALSE>>,
   <<"DATA_PAYLOAD2", "IDLE", 3, TRUE>>}

RxMockData ==
  /\ \E w \in MockWords :
       /\ rx_mock = w[1]
       /\ rx_mock' = w[2]
       /\ CanWrite(tcp_rx_data, PortDepth)
       /\ tcp_rx_data' =
            Append(tcp_rx_data,
                   [data |-> [req |-> Len(served), pos |-> w[3],
                              text |-> IF w[3] = 1 THEN MOCK_HEADLINE ELSE Blank],
                    last |-> w[4]])
  /\ RxMockOnly /\ UNCHANGED <<tcp_notification, tcp_rx_req, tcp_rx_rsp, notified, served>>

RxMock == RxMockIdle \/ RxMockNotification \/ RxMockMeta \/ RxMockMetaHandshake \/ RxMockData

-----------------------------------------------------------------------------
(***************************************************************************)
(* tx_mock                                                                 *)
(***************************************************************************)

TxMockOnly ==
  /\ UNCHANGED <<rxVars, http_response, http_response_headers, http_response_body, tx_aligner,
                 resp_status_code, resp_status_line, tx_sm, tx_sc, aligned, consume, produce>>
  /\ UNCHANGED <<rxMockVars, al, damaged, listenVars>>

TxMockIdle ==
  /\ tx_mock = "IDLE"
  /\ CanRead(tcp_tx_req)
  /\ LET req == Head(tcp_tx_req) IN
       settled' = Append(settled, [sessionID |-> req.sessionID, length |-> req.length,
                                   outcome |-> "accepted"])
  /\ tcp_tx_req' = Tail(tcp_tx_req)
  /\ tx_mock' = "HANDSHAKE" /\ received' = <<>>
  /\ TxMockOnly /\ UNCHANGED <<tcp_tx_rsp, tcp_tx_data>>

TxMockHandshake ==
  /\ tx_mock = "HANDSHAKE"
  /\ CanWrite(tcp_tx_rsp, PortDepth)
  /\ tcp_tx_rsp' = Append(tcp_tx_rsp, [sessionID |-> MockSession, error |-> 0])
  /\ tx_mock' = "CONSUME_DATA"
  /\ TxMockOnly /\ UNCHANGED <<settled, tcp_tx_req, tcp_tx_data, received>>

\* The bytes a word keeps.
BytesOf(word) == [i \in 1 .. Al!keepToLen(word.keep) |-> word.data[i - 1].pos]

TxMockConsumeData ==
  /\ tx_mock = "CONSUME_DATA"
  /\ CanRead(tcp_tx_data)
  /\ LET aux == Head(tcp_tx_data) IN
       /\ received' = received \o BytesOf(aux)
       /\ tx_mock' = IF aux.last THEN "IDLE" ELSE "CONSUME_DATA"
  /\ tcp_tx_data' = Tail(tcp_tx_data)
  /\ TxMockOnly /\ UNCHANGED <<settled, tcp_tx_req, tcp_tx_rsp>>

TxMock == TxMockIdle \/ TxMockHandshake \/ TxMockConsumeData

-----------------------------------------------------------------------------
(***************************************************************************)
(* listen_port and the listen_port_handler of the mock: neither has states *)
(***************************************************************************)

ListenRequestHandler ==
  /\ CanWrite(tcp_listen_req, PortDepth)
  /\ tcp_listen_req' = Append(tcp_listen_req, 80)
  /\ UNCHANGED <<serverVars, rxMockVars, txMockVars, alVars, tcp_listen_rsp>>

\* Mutant: the answer is looked at but stays in the FIFO.
ListenResponseKept ==
  /\ CanRead(tcp_listen_rsp)
  /\ UNCHANGED systemVars
ListenResponseHandler ==
  /\ CanRead(tcp_listen_rsp)
  /\ tcp_listen_rsp' = Tail(tcp_listen_rsp)
  /\ UNCHANGED <<serverVars, rxMockVars, txMockVars, alVars, tcp_listen_req>>

ListenPortHandler ==
  /\ CanRead(tcp_listen_req) /\ CanWrite(tcp_listen_rsp, PortDepth)
  /\ tcp_listen_rsp' = Append(tcp_listen_rsp, Head(tcp_listen_req) = 80)
  /\ tcp_listen_req' = Tail(tcp_listen_req)
  /\ UNCHANGED <<serverVars, rxMockVars, txMockVars, alVars>>

-----------------------------------------------------------------------------
(***************************************************************************)
(* http_top and the application                                            *)
(***************************************************************************)

HttpStep(A) == A /\ UNCHANGED mockVars

\* The aligner reads tx_aligner in the lanes of ResponseAligner: where its step
\* takes a word, the word leaves the FIFO.
AlignerStep ==
  /\ tx_aligner' \in {tx_aligner, SubSeq(tx_aligner, 2, Len(tx_aligner))}
  /\ Al!Aligner
  /\ UNCHANGED <<rxVars, http_response, http_response_headers, http_response_body,
                 tcp_tx_req, tcp_tx_rsp, resp_status_code, resp_status_line, tx_sm, tx_sc,
                 settled, aligned, consume, produce>>
  /\ UNCHANGED <<rxMockVars, txMockVars, listenVars>>

HttpTop ==
  \/ RxStateMachine \/ RxHeadlineParser \/ RxRequestIssuer \/ RxPayloadParser
  \/ TxStateMachine \/ TxStatusCodeParser
Application == ProcessNotify \/ ConsumeRequest \/ ProduceResponse

Path   == HttpStep(HttpTop) \/ HttpStep(Application) \/ AlignerStep \/ RxMock \/ TxMock
Listen == ListenRequestHandler \/ ListenResponseHandler \/ ListenPortHandler

MockNext == Path \/ Listen

MockSpec == MockInit /\ [][MockNext]_systemVars

\* The processes of the ring are circuits of their own; it is enough that one of
\* those that can go on does.
MockFairness == WF_systemVars(Listen)

MockFairSpec == MockSpec /\ MockFairness

-----------------------------------------------------------------------------
(***************************************************************************)
(* Properties                                                              *)
(***************************************************************************)

\* The mock, the aligner and listen_port hold values of their types beside
\* those of the server.
MockTypeOK ==
  /\ ServerTypeOK
  /\ rx_mock \in {"IDLE", "NOTIFICATION", "META", "META_HANDSHAKE", "DATA_HEADLINE",
                  "DATA_PAYLOAD", "DATA_PAYLOAD2"}
  /\ tx_mock \in {"IDLE", "HANDSHAKE", "CONSUME_DATA"}
  /\ received \in Seq(Nat)
  /\ al \in [state : {"IDLE", "PULL_FIRST", "PULL_N", "RESIDUE"},
             prevLength : 0 .. WordBytes, prevWord : Al!Word]
  /\ IsFifo(tcp_tx_data, Al!Word, PortDepth)
  /\ IsFifo(tcp_listen_req, {80}, PortDepth) /\ IsFifo(tcp_listen_rsp, {TRUE}, PortDepth)

\* tx_mock takes the headers, the CR LF and the body of each answer byte for
\* byte and in order, and goes on to the next one when it has taken exactly
\* the length that was announced for this one: the sizes of the application
\* never meet the misplaced shift of the aligner, and the last that tx_mock
\* waits for comes with the last byte.
AnswerArrivesWhole ==
  /\ received = [i \in 1 .. Len(received) |-> i - 1]
  /\ tx_mock = "IDLE" /\ settled # <<>> => Len(received) = settled[Len(settled)].length
  /\ tx_mock # "IDLE" => Len(received) < settled[Len(settled)].length

\* What each process of Path waits for, in the terms of its FIFOs; PULL_N asks
\* for room whether it sends a word or not.
RequestPathCan ==
  \/ sm.state = "IDLE" /\ CanRead(tcp_notification)
  \/ sm.state = "NOTIFICATION" /\ CanRead(tcp_notification) /\ CanWrite(tcp_rx_req, PortDepth)
  \/ sm.state = "HANDSHAKE" /\ CanRead(tcp_rx_rsp)
  \/ sm.state = "DATA_HEADLINE" /\ CanRead(tcp_rx_data) /\ CanWrite(headline_in, HeadlineInDepth)
  \/ sm.state = "DATA_PAYLOAD" /\ CanRead(tcp_rx_data) /\ CanWrite(payload_in, PayloadInDepth)
  \/ hp.state = "INPUT_READ" /\ CanRead(headline_in)
  \/ hp.state \in {"PARSE_METHOD", "EXTRACT_ENDPOINT"}
  \/ hp.state = "OUTPUT_WRITE" /\ CanWrite(headline_out, HeadlineOutDepth)
  \/ CanRead(headline_out) /\ CanWrite(http_request, PortDepth)
  \/ pp.state \in {"HEADER_READ", "BODY_READ"} /\ CanRead(payload_in)
  \/ pp.state = "HEADER_WRITE" /\ CanWrite(http_request_headers, PortDepth)
  \/ pp.state = "BODY_WRITE" /\ CanWrite(http_request_body, PortDepth)

ApplicationCan ==
  \/ CanRead(http_request) /\ CanWrite(http_response, PortDepth)
  \/ ~consume.headers /\ CanRead(http_request_headers)
  \/ ~consume.body /\ CanRead(http_request_body)
  \/ produce.word \in {1, 2} /\ CanWrite(http_response_headers, PortDepth)
  \/ produce.word = 3 /\ CanWrite(http_response_body, PortDepth)

ResponsePathCan ==
  \/ tx_sm.state = "IDLE" /\ CanRead(http_response) /\ CanWrite(resp_status_code, InnerDepth)
  \/ tx_sm.state = "TCP_REQ" /\ CanWrite(tcp_tx_req, PortDepth)
  \/ tx_sm.state = "TCP_RSP" /\ CanRead(tcp_tx_rsp)
  \/ tx_sm.state \in {"DATA_HTTP_STATUS", "FLUSH_HEADLINE"} /\ CanRead(resp_status_line)
  \/ tx_sm.state = "DATA_HEADERS" /\ CanRead(http_response_headers) /\ CanWrite(tx_aligner, InnerDepth)
  \/ tx_sm.state = "DATA_CRLF" /\ CanWrite(tx_aligner, InnerDepth)
  \/ tx_sm.state = "DATA_BODY" /\ CanRead(http_response_body) /\ CanWrite(tx_aligner, InnerDepth)
  \/ tx_sm.state = "FLUSH_HEADERS" /\ CanRead(http_response_headers)
  \/ tx_sm.state = "FLUSH_BODY" /\ CanRead(http_response_body)
  \/ tx_sc.state \in {"IDLE", "READ_INPUT"} /\ CanRead(resp_status_code)
  \/ tx_sc.state = "WRITE_OUTPUT" /\ CanWrite(resp_status_line, InnerDepth)
  \/ al.state \in {"IDLE", "PULL_FIRST"} /\ CanRead(tx_aligner)
  \/ al.state = "PULL_N" /\ CanRead(tx_aligner) /\ CanWrite(tcp_tx_data, PortDepth)
  \/ al.state = "RESIDUE" /\ CanWrite(tcp_tx_data, PortDepth)

MockCan ==
  \/ rx_mock = "IDLE"
  \/ rx_mock = "NOTIFICATION" /\ Len(notified) < MaxNotifications
                              /\ CanWrite(tcp_notification, PortDepth)
  \/ rx_mock = "META" /\ CanRead(tcp_rx_req)
  \/ rx_mock = "META_HANDSHAKE" /\ CanWrite(tcp_rx_rsp, PortDepth)
  \/ rx_mock \in {"DATA_HEADLINE", "DATA_PAYLOAD", "DATA_PAYLOAD2"} /\ CanWrite(tcp_rx_data, PortDepth)
  \/ tx_mock = "IDLE" /\ CanRead(tcp_tx_req)
  \/ tx_mock = "HANDSHAKE" /\ CanWrite(tcp_tx_rsp, PortDepth)
  \/ tx_mock = "CONSUME_DATA" /\ CanRead(tcp_tx_data)

CanGoOn == RequestPathCan \/ ApplicationCan \/ ResponsePathCan \/ MockCan

\* The path of a request comes to rest only when every notification of the mock
\* is answered to the last byte: as long as one is not, some process finds what
\* it reads and room for what it writes.  The processes never wait for each
\* other in a circle, although the flags derived from the announced length
\* promise neither headers nor body.
AllAnswered == Len(settled) = MaxNotifications /\ tx_mock = "IDLE"
NeverStuck == CanGoOn \/ AllAnswered

\* The TCP stack is asked to listen again and again, since listen_port has no
\* memory of having asked: each request is taken and its answer too, so that
\* the ring of the three processes never fills up and answers are taken for ever.
ListenKeepsTurning == []<><<Len(tcp_listen_rsp') < Len(tcp_listen_rsp)>>_listenVars
=============================================================================
