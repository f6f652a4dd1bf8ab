---------------------------- MODULE HealthCheck -----------------------------
(***************************************************************************)
(* The HTTP server with the health check application                       *)
(* (examples/health_check/kernel.cc), end to end: the request path of      *)
(* RequestProcessor, the response path of ResponseProcessor and, between   *)
(* them, the processes of the application, which share no state:           *)
(*                                                                         *)
(*   http_request               -> process_notify   -> http_response       *)
(*   http_request_headers, body -> consume_request                         *)
(*                                 produce_response -> http_response_headers,*)
(*                                                     http_response_body  *)
(*                                                                         *)
(* The processes stand in the place of the actions AppRequest, AppHeaders  *)
(* and AppBody of the request path, and of AppResponse, AppHeaders and     *)
(* AppBody of the response path, whose other actions are taken as they are.*)
(***************************************************************************)
EXTENDS RequestProcessor

CONSTANTS
  headers_size,       \* bytes of headers of every response (93 in the code)
  body_size,          \* bytes of body of every response    (16 in the code)
  InnerDepth,         \* depth of the FIFOs inside the response path
  LengthValues        \* values of an ap_uint<16>

\* produce_response writes two words of headers and one of body.
ASSUME SizesAssumption ==
  /\ headers_size \in WordBytes + 1 .. 2 * WordBytes
  /\ body_size \in 1 .. WordBytes

ASSUME InnerAssumption ==
  /\ InnerDepth \in Nat \ {0}
  /\ LengthValues \in Nat \ {0}

VARIABLES
  \* the response path, as in ResponseProcessor
  http_response, http_response_headers, http_response_body, tcp_tx_req, tcp_tx_rsp,
  tx_aligner, resp_status_code, resp_status_line, tx_sm, tx_sc, settled, aligned,
  \* consume_request: the part of the request whose last beat it has taken;
  \* its two loops are processes of their own (DATAFLOW), both of which end
  \* before either starts again
  consume,
  \* produce_response: the response it writes and the word that comes next
  produce

txVars == <<http_response, http_response_headers, http_response_body, tcp_tx_req, tcp_tx_rsp,
            tx_aligner, resp_status_code, resp_status_line, tx_sm, tx_sc, settled, aligned>>
rxVars == vars
serverVars == <<rxVars, txVars, consume, produce>>

\* The response process_notify makes for a request of this session.
\* Mutant: the body is not counted.
ResponseToNoBody(session) ==
  [sessionID |-> session, status_code |-> "OK_200",
   headers_size |-> headers_size, body_size |-> 0]
ResponseTo(session) ==
  [sessionID |-> session, status_code |-> "OK_200",
   headers_size |-> headers_size, body_size |-> body_size]

\* The responses in the terms of the response path.
planned == [i \in 1 .. MaxNotifications |->
              ResponseTo(IF i <= Len(served) THEN served[i].sessionID ELSE Unset)]
written == [responses |-> Len(app.requests),
            headers   |-> IF produce.word = 3 THEN <<produce.rsp + 1, 1>>
                                              ELSE <<produce.rsp, produce.word>>,
            body      |-> <<produce.rsp, 1>>]

Tx == INSTANCE ResponseProcessor
        WITH sm <- tx_sm, sc <- tx_sc, app <- written,
             StatusCodes <- {"OK_200"}, Sizes <- {headers_size, body_size},
             Responses <- {}, MaxResponses <- MaxNotifications

ServerInit ==
  /\ Init
  /\ http_response = <<>> /\ http_response_headers = <<>> /\ http_response_body = <<>>
  /\ tcp_tx_req = <<>> /\ tcp_tx_rsp = <<>>
  /\ tx_aligner = <<>> /\ resp_status_code = <<>> /\ resp_status_line = <<>>
  /\ tx_sm = [state |-> "IDLE", app_response |-> Unset]
  /\ tx_sc = [state |-> "IDLE", status_code |-> Unset]
  /\ settled = <<>> /\ aligned = <<>>
  /\ consume = [headers |-> FALSE, body |-> FALSE]
  /\ produce = [rsp |-> 1, word |-> 1]

-----------------------------------------------------------------------------
(***************************************************************************)
(* The application                                                         *)
(***************************************************************************)

ProcessNotify ==
  /\ AppRequest
  /\ CanWrite(http_response, PortDepth)
  /\ http_response' = Append(http_response, ResponseTo(Head(http_request).meta.sessionID))
  /\ UNCHANGED <<http_response_headers, http_response_body, tcp_tx_req, tcp_tx_rsp,
                 tx_aligner, resp_status_code, resp_status_line, tx_sm, tx_sc, settled, aligned,
                 consume, produce>>

\* A beat of the part is taken: a new invocation starts once both parts end.
\* Mutant: the invocation ends with the headers.
ConsumedHeadersOnly(part, last) == [headers |-> FALSE, body |-> FALSE]
Consumed(part, last) ==
  LET ended == [consume EXCEPT ![part] = last] IN
    IF ended.headers /\ ended.body THEN [headers |-> FALSE, body |-> FALSE] ELSE ended

ConsumeHeaders ==
  /\ ~consume.headers
  /\ AppHeaders
  /\ consume' = Consumed("headers", Head(http_request_headers).last)
  /\ UNCHANGED <<txVars, produce>>

ConsumeBody ==
  /\ ~consume.body
  /\ AppBody
  /\ consume' = Consumed("body", Head(http_request_body).last)
  /\ UNCHANGED <<txVars, produce>>

ConsumeRequest == ConsumeHeaders \/ ConsumeBody

\* The two words of headers, whatever the requests do.
\* Mutant: the second word keeps every byte.
HeadersWordFull(k) == [Tx!WordOf(produce.rsp, "headers", k, headers_size) EXCEPT !.bytes = WordBytes]
HeadersWord(k) == Tx!WordOf(produce.rsp, "headers", k, headers_size)

ProduceHeaders ==
  /\ produce.word \in {1, 2}
  /\ CanWrite(http_response_headers, PortDepth)
  /\ http_response_headers' = Append(http_response_headers, HeadersWord(produce.word))
  /\ produce' = [produce EXCEPT !.word = @ + 1]
  /\ UNCHANGED <<rxVars, http_response, http_response_body, tcp_tx_req, tcp_tx_rsp,
                 tx_aligner, resp_status_code, resp_status_line, tx_sm, tx_sc, settled, aligned,
                 consume>>

ProduceBody ==
  /\ produce.word = 3
  /\ CanWrite(http_response_body, PortDepth)
  /\ http_response_body' = Append(http_response_body, Tx!WordOf(produce.rsp, "body", 1, body_size))
  /\ produce' = [rsp |-> produce.rsp + 1, word |-> 1]
  /\ UNCHANGED <<rxVars, http_response, http_response_headers, tcp_tx_req, tcp_tx_rsp,
                 tx_aligner, resp_status_code, resp_status_line, tx_sm, tx_sc, settled, aligned,
                 consume>>

ProduceResponse == ProduceHeaders \/ ProduceBody

-----------------------------------------------------------------------------
(***************************************************************************)
(* The two paths                                                           *)
(***************************************************************************)

RxStep(A) == A /\ UNCHANGED <<txVars, consume, produce>>
TxStep(A) == UNCHANGED <<rxVars, consume, produce>> /\ A

RxStateMachine   == RxStep(StateMachine)
RxHeadlineParser == RxStep(HeadlineParser)
RxRequestIssuer  == RxStep(RequestIssuer)
RxPayloadParser  == RxStep(PayloadParser)
RxTcpNotify      == RxStep(TcpNotify)
RxTcpAccept      == RxStep(TcpAccept)
RxTcpDeliver     == RxStep(TcpDeliver)

TxStateMachine     == TxStep(Tx!StateMachine)
TxStatusCodeParser == TxStep(Tx!StatusCodeParser)
TxAlignerTake      == TxStep(Tx!AlignerTake)
TxTcpSettle        == TxStep(Tx!TcpSettle)
TxTcpRetry         == TxStep(Tx!TcpRetry)

\* Nothing to do: every request is answered and drained; the words of the next
\* response wait.
Rest ==
  /\ Poll
  /\ rx_left = 0 /\ tcp_rx_req = <<>> /\ http_request = <<>>
  /\ http_request_headers = <<>> /\ http_request_body = <<>>
  /\ consume = [headers |-> FALSE, body |-> FALSE]
  /\ Len(settled) = Len(served) /\ http_response = <<>>
  /\ tx_sm.state = "IDLE" /\ tx_aligner = <<>>
  /\ UNCHANGED <<txVars, consume, produce>>

ServerNext ==
  \/ RxStateMachine \/ RxHeadlineParser \/ RxRequestIssuer \/ RxPayloadParser
  \/ RxTcpNotify \/ RxTcpAccept \/ RxTcpDeliver
  \/ ProcessNotify \/ ConsumeRequest \/ ProduceResponse
  \/ TxStateMachine \/ TxStatusCodeParser \/ TxAlignerTake \/ TxTcpSettle \/ TxTcpRetry
  \/ Rest

\* As in the two paths: free-running circuits of which one that can go on does,
\* and a TCP stack that serves and does not put off a response for ever.
ServerWork ==
  \/ RxStateMachine \/ RxHeadlineParser \/ RxRequestIssuer \/ RxPayloadParser
  \/ RxTcpAccept \/ RxTcpDeliver
  \/ ProcessNotify \/ ConsumeRequest \/ ProduceResponse
  \/ TxStateMachine \/ TxStatusCodeParser \/ TxAlignerTake
ServerFairness == WF_serverVars(ServerWork) /\ SF_serverVars(TxTcpSettle)

(***************************************************************************)
(* The request side alone: a response path that takes every response at    *)
(* once, which is the most the application can hope for.                   *)
(***************************************************************************)

ResponseTaken ==
  /\ CanRead(http_response)
  /\ http_response' = Tail(http_response)
  /\ UNCHANGED <<rxVars, http_response_headers, http_response_body, tcp_tx_req, tcp_tx_rsp,
                 tx_aligner, resp_status_code, resp_status_line, tx_sm, tx_sc, settled, aligned,
                 consume, produce>>

RequestSideNext ==
  \/ RxStateMachine \/ RxHeadlineParser \/ RxRequestIssuer \/ RxPayloadParser
  \/ RxTcpNotify \/ RxTcpAccept \/ RxTcpDeliver
  \/ ProcessNotify \/ ConsumeRequest \/ ResponseTaken

RequestSideSpec ==
  /\ ServerInit /\ [][RequestSideNext]_serverVars
  /\ WF_serverVars(RxStateMachine) /\ WF_serverVars(RxHeadlineParser)
  /\ WF_serverVars(RxRequestIssuer) /\ WF_serverVars(RxPayloadParser)
  /\ WF_serverVars(RxTcpAccept) /\ WF_serverVars(RxTcpDeliver)
  /\ WF_serverVars(ProcessNotify) /\ WF_serverVars(ConsumeHeaders)
  /\ WF_serverVars(ConsumeBody) /\ WF_serverVars(ResponseTaken)

ServerSpec     == ServerInit /\ [][ServerNext]_serverVars
ServerFairSpec == ServerSpec /\ ServerFairness

-----------------------------------------------------------------------------
(***************************************************************************)
(* Properties                                                              *)
(***************************************************************************)

\* Both paths and the application hold values of their types, and no FIFO of
\* either path, between two processes or within one, more than its depth.
ServerTypeOK ==
  /\ TypeOK
  /\ Tx!PathTypeOK
  /\ consume \in [headers : BOOLEAN, body : BOOLEAN] /\ ~(consume.headers /\ consume.body)
  /\ produce \in [rsp : Nat \ {0}, word : 1 .. 3]

\* From end to end: the i-th answer asked of the TCP stack goes to the session
\* whose bytes were the i-th transfer, never before that transfer was parsed
\* and issued as a request, whatever was refused or retried between.
AnswersGoToTheirSessions ==
  LET asked == settled \o tcp_tx_req IN
    /\ Len(asked) <= Len(app.requests)
    /\ \A i \in 1 .. Len(asked) : asked[i].sessionID = served[i].sessionID

\* process_notify announces sizes and produce_response, which never sees a
\* request, writes the bytes: once state_machine rests, exactly the announced
\* bytes of the accepted responses have gone to the aligner, for each its four
\* words (two of headers, the CR LF, the body), last on the fourth alone.
AcceptedUpTo(s, i) == Cardinality({j \in 1 .. i : s[j].outcome = "accepted"})
stream == aligned \o tx_aligner
BytesAsAnnounced ==
  tx_sm.state = "IDLE" =>
    /\ Len(stream) = 4 * AcceptedUpTo(settled, Len(settled))
    /\ \A i \in 1 .. Len(settled) :
         settled[i].outcome = "accepted" =>
           LET k == 4 * (AcceptedUpTo(settled, i) - 1)
           IN  /\ stream[k + 1].bytes + stream[k + 2].bytes + stream[k + 3].bytes + stream[k + 4].bytes
                    = settled[i].length
               /\ \A j \in 1 .. 4 : stream[k + j].last <=> j = 4

\* The answers always catch up with the notifications that announce bytes,
\* through the whole server: no circle of full FIFOs between the two paths and
\* the application.
EveryRequestAnswered == []<>(Len(settled) = Len(SelectSeq(notified, NonEmpty)))

\* The responses say that the connection is kept alive (kernel.cc:60): a client
\* may send one request after the other, and each comes to have its response.
KeepsAlive ==
  \A i \in 1 .. MaxNotifications :
    Len(SelectSeq(notified, NonEmpty)) >= i ~> Len(app.requests) >= i
=============================================================================
