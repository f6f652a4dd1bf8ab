-------------------------- MODULE ResponseProcessor --------------------------
(***************************************************************************)
(* The response path of the HTTP server up to the aligner                  *)
(* (hw/hls/response_processor.cc and hw/hls/status_code_parser.cc):        *)
(*                                                                         *)
(*   http_response         ->               -> tcp_tx_req                  *)
(*   http_response_headers -> state_machine -> tx_aligner -> aligner       *)
(*   http_response_body    ->     |    ^    <- tcp_tx_rsp                  *)
(*                 resp_status_code    resp_status_line                    *)
(*                                v    |                                   *)
(*                         status_code_parser                              *)
(*                                                                         *)
(* As in RequestProcessor, one action is one invocation of a process, and  *)
(* a blocking read or write is a guard.  response_aligner is represented   *)
(* by its reads of tx_aligner; ResponseAligner models the rest of it.      *)
(***************************************************************************)
EXTENDS ResponseData

CONSTANTS
  Responses,          \* responses the application may offer
  MaxResponses,       \* bound on the responses of a behaviour
  InnerDepth,         \* depth of tx_aligner, resp_status_code, resp_status_line (16)
  PortDepth,          \* depth of every port FIFO of the component
  Unset               \* content of a register that has no reset value

ASSUME ResponseAssumption ==
  /\ Responses \subseteq Response
  /\ MaxResponses \in Nat
  /\ InnerDepth \in Nat \ {0}
  /\ PortDepth \in Nat \ {0}

VARIABLES
  \* FIFOs from the application
  http_response, http_response_headers, http_response_body,
  \* FIFOs to and from the TCP stack
  tcp_tx_req, tcp_tx_rsp,
  \* FIFOs inside the component
  tx_aligner, resp_status_code, resp_status_line,
  \* static variables of the processes
  sm,                 \* state_machine:      state, app_response
  sc,                 \* status_code_parser: state, status_code
  \* the application: its responses, and what it has written of each stream:
  \* responses, the headers (response, word) and the body (response, word)
  planned, app,
  \* the TCP stack: the requests it has accepted, or refused as closed
  settled,
  \* the aligner: words it has taken
  aligned

appFifos   == <<http_response, http_response_headers, http_response_body>>
tcpFifos   == <<tcp_tx_req, tcp_tx_rsp>>
innerFifos == <<tx_aligner, resp_status_code, resp_status_line>>
outside    == <<planned, app, settled, aligned>>
vars == <<appFifos, tcpFifos, innerFifos, sm, sc, outside>>

CanRead(fifo) == fifo # <<>>

\* Mutant: a FIFO takes one element more than its depth.
CanWriteOneTooMany(fifo, depth) == Len(fifo) <= depth
CanWrite(fifo, depth) == Len(fifo) < depth

Init ==
  /\ http_response = <<>> /\ http_response_headers = <<>> /\ http_response_body = <<>>
  /\ tcp_tx_req = <<>> /\ tcp_tx_rsp = <<>>
  /\ tx_aligner = <<>> /\ resp_status_code = <<>> /\ resp_status_line = <<>>
  /\ sm = [state |-> "IDLE", app_response |-> Unset]
  /\ sc = [state |-> "IDLE", status_code |-> Unset]
  /\ planned \in [1 .. MaxResponses -> Responses]
  /\ app = [responses |-> 0, headers |-> <<1, 1>>, body |-> <<1, 1>>]
  /\ settled = <<>> /\ aligned = <<>>

-----------------------------------------------------------------------------
(***************************************************************************)
(* state_machine                                                           *)
(***************************************************************************)

SmIdle ==
  /\ sm.state = "IDLE"
  /\ CanRead(http_response)
  /\ CanWrite(resp_status_code, InnerDepth)
  /\ sm' = [state |-> "TCP_REQ", app_response |-> Head(http_response)]
  /\ http_response' = Tail(http_response)
  /\ resp_status_code' = Append(resp_status_code, Head(http_response).status_code)
  /\ UNCHANGED <<http_response_headers, http_response_body, tcpFifos,
                 tx_aligner, resp_status_line, sc, outside>>

SmTcpReq ==
  /\ sm.state = "TCP_REQ"
  /\ CanWrite(tcp_tx_req, PortDepth)
  /\ tcp_tx_req' = Append(tcp_tx_req, [sessionID |-> sm.app_response.sessionID,
                                       length    |-> Announced(sm.app_response)])
  /\ sm' = [sm EXCEPT !.state = "TCP_RSP"]
  /\ UNCHANGED <<appFifos, tcp_tx_rsp, innerFifos, sc, outside>>

\* 0: accepted; 1: connection closed; 2 and 3: try again.
\* Mutant: a closed connection is not flushed.
AfterRspNoFlush(error) ==
  CASE error = 0 -> "DATA_HTTP_STATUS" [] error = 1 -> "IDLE" [] error >= 2 -> "TCP_REQ"
\* Mutant: a response that is put off is given up.
AfterRspGivesUp(error) ==
  CASE error = 0 -> "DATA_HTTP_STATUS" [] error = 1 -> "FLUSH_HEADLINE" [] error >= 2 -> "IDLE"
AfterRsp(error) ==
  CASE error = 0 -> "DATA_HTTP_STATUS" [] error = 1 -> "FLUSH_HEADLINE" [] error >= 2 -> "TCP_REQ"

SmTcpRsp ==
  /\ sm.state = "TCP_RSP"
  /\ CanRead(tcp_tx_rsp)
  /\ sm' = [sm EXCEPT !.state = AfterRsp(Head(tcp_tx_rsp).error)]
  /\ tcp_tx_rsp' = Tail(tcp_tx_rsp)
  /\ UNCHANGED <<appFifos, tcp_tx_req, innerFifos, sc, outside>>

\* The status line is taken and not sent (the write is commented out).
SmDataHttpStatus ==
  /\ sm.state = "DATA_HTTP_STATUS"
  /\ CanRead(resp_status_line)
  /\ resp_status_line' = Tail(resp_status_line)
  /\ sm' = [sm EXCEPT !.state = "DATA_HEADERS"]
  /\ UNCHANGED <<appFifos, tcpFifos, tx_aligner, resp_status_code, sc, outside>>

\* Mutant: the last of the headers is sent as the last of the packet.
SmDataHeadersKeepsLast ==
  /\ sm.state = "DATA_HEADERS"
  /\ CanRead(http_response_headers)
  /\ CanWrite(tx_aligner, InnerDepth)
  /\ LET in == Head(http_response_headers) IN
       /\ tx_aligner' = Append(tx_aligner, in)
       /\ sm' = [sm EXCEPT !.state = IF in.last THEN "DATA_CRLF" ELSE "DATA_HEADERS"]
  /\ http_response_headers' = Tail(http_response_headers)
  /\ UNCHANGED <<http_response, http_response_body, tcpFifos,
                 resp_status_code, resp_status_line, sc, outside>>

SmDataHeaders ==
  /\ sm.state = "DATA_HEADERS"
  /\ CanRead(http_response_headers)
  /\ CanWrite(tx_aligner, InnerDepth)
  /\ LET in == Head(http_response_headers) IN
       /\ tx_aligner' = Append(tx_aligner, Middle(in))
       /\ sm' = [sm EXCEPT !.state = IF in.last THEN "DATA_CRLF" ELSE "DATA_HEADERS"]
  /\ http_response_headers' = Tail(http_response_headers)
  /\ UNCHANGED <<http_response, http_response_body, tcpFifos,
                 resp_status_code, resp_status_line, sc, outside>>

SmDataCrlf ==
  /\ sm.state = "DATA_CRLF"
  /\ CanWrite(tx_aligner, InnerDepth)
  /\ tx_aligner' = Append(tx_aligner, Crlf)
  /\ sm' = [sm EXCEPT !.state = "DATA_BODY"]
  /\ UNCHANGED <<appFifos, tcpFifos, resp_status_code, resp_status_line, sc, outside>>

SmDataBody ==
  /\ sm.state = "DATA_BODY"
  /\ CanRead(http_response_body)
  /\ CanWrite(tx_aligner, InnerDepth)
  /\ LET in == Head(http_response_body) IN
       /\ tx_aligner' = Append(tx_aligner, in)
       /\ sm' = [sm EXCEPT !.state = IF in.last THEN "IDLE" ELSE "DATA_BODY"]
  /\ http_response_body' = Tail(http_response_body)
  /\ UNCHANGED <<http_response, http_response_headers, tcpFifos,
                 resp_status_code, resp_status_line, sc, outside>>

\* Mutant: the status line stays in its FIFO.
SmFlushHeadlineKept ==
  /\ sm.state = "FLUSH_HEADLINE"
  /\ sm' = [sm EXCEPT !.state = "FLUSH_HEADERS"]
  /\ UNCHANGED <<appFifos, tcpFifos, innerFifos, sc, outside>>

SmFlushHeadline ==
  /\ sm.state = "FLUSH_HEADLINE"
  /\ CanRead(resp_status_line)
  /\ resp_status_line' = Tail(resp_status_line)
  /\ sm' = [sm EXCEPT !.state = "FLUSH_HEADERS"]
  /\ UNCHANGED <<appFifos, tcpFifos, tx_aligner, resp_status_code, sc, outside>>

\* Where a flushed word of headers leads.
\* Mutant: one word of headers is flushed, not all of them.
AfterFlushedOne(last) == "FLUSH_BODY"
AfterFlushed(last) == IF last THEN "FLUSH_BODY" ELSE "FLUSH_HEADERS"

SmFlushHeaders ==
  /\ sm.state = "FLUSH_HEADERS"
  /\ CanRead(http_response_headers)
  /\ sm' = [sm EXCEPT !.state = AfterFlushed(Head(http_response_headers).last)]
  /\ http_response_headers' = Tail(http_response_headers)
  /\ UNCHANGED <<http_response, http_response_body, tcpFifos, innerFifos, sc, outside>>

SmFlushBody ==
  /\ sm.state = "FLUSH_BODY"
  /\ CanRead(http_response_body)
  /\ sm' = [sm EXCEPT !.state = IF Head(http_response_body).last THEN "IDLE" ELSE "FLUSH_BODY"]
  /\ http_response_body' = Tail(http_response_body)
  /\ UNCHANGED <<http_response, http_response_headers, tcpFifos, innerFifos, sc, outside>>

StateMachine ==
  \/ SmIdle \/ SmTcpReq \/ SmTcpRsp
  \/ SmDataHttpStatus \/ SmDataHeaders \/ SmDataCrlf \/ SmDataBody
  \/ SmFlushHeadline \/ SmFlushHeaders \/ SmFlushBody

-----------------------------------------------------------------------------
(***************************************************************************)
(* status_code_parser                                                      *)
(***************************************************************************)

ScIdle ==
  /\ sc.state = "IDLE"
  /\ CanRead(resp_status_code)
  /\ sc' = [sc EXCEPT !.state = "READ_INPUT"]
  /\ UNCHANGED <<appFifos, tcpFifos, innerFifos, sm, outside>>

ScReadInput ==
  /\ sc.state = "READ_INPUT"
  /\ CanRead(resp_status_code)
  /\ sc' = [state |-> "WRITE_OUTPUT", status_code |-> Head(resp_status_code)]
  /\ resp_status_code' = Tail(resp_status_code)
  /\ UNCHANGED <<appFifos, tcpFifos, tx_aligner, resp_status_line, sm, outside>>

ScWriteOutput ==
  /\ sc.state = "WRITE_OUTPUT"
  /\ CanWrite(resp_status_line, InnerDepth)
  /\ resp_status_line' = Append(resp_status_line, StatusLine(sc.status_code))
  /\ sc' = [sc EXCEPT !.state = "IDLE"]
  /\ UNCHANGED <<appFifos, tcpFifos, tx_aligner, resp_status_code, sm, outside>>

StatusCodeParser == ScIdle \/ ScReadInput \/ ScWriteOutput

-----------------------------------------------------------------------------
\* response_aligner takes the words of tx_aligner.
AlignerTake ==
  /\ CanRead(tx_aligner)
  /\ aligned' = Append(aligned, Head(tx_aligner))
  /\ tx_aligner' = Tail(tx_aligner)
  /\ UNCHANGED <<appFifos, tcpFifos, resp_status_code, resp_status_line, sm, sc,
                 planned, app, settled>>

(***************************************************************************)
(* The application (external): three processes that write the responses,   *)
(* their headers and their bodies, each at its own pace.                   *)
(***************************************************************************)

AppResponse ==
  /\ app.responses < MaxResponses
  /\ CanWrite(http_response, PortDepth)
  /\ http_response' = Append(http_response, planned[app.responses + 1])
  /\ app' = [app EXCEPT !.responses = @ + 1]
  /\ UNCHANGED <<http_response_headers, http_response_body, tcpFifos, innerFifos, sm, sc,
                 planned, settled, aligned>>

\* The word after the k-th of the n-th response.
NextWord(n, k, size) == IF k = WordCount(size) THEN <<n + 1, 1>> ELSE <<n, k + 1>>

AppHeaders ==
  /\ app.headers[1] <= MaxResponses
  /\ CanWrite(http_response_headers, PortDepth)
  /\ LET n == app.headers[1]
         k == app.headers[2]
         size == planned[n].headers_size
     IN  /\ http_response_headers' = Append(http_response_headers, WordOf(n, "headers", k, size))
         /\ app' = [app EXCEPT !.headers = NextWord(n, k, size)]
  /\ UNCHANGED <<http_response, http_response_body, tcpFifos, innerFifos, sm, sc,
                 planned, settled, aligned>>

AppBody ==
  /\ app.body[1] <= MaxResponses
  /\ CanWrite(http_response_body, PortDepth)
  /\ LET n == app.body[1]
         k == app.body[2]
         size == planned[n].body_size
     IN  /\ http_response_body' = Append(http_response_body, WordOf(n, "body", k, size))
         /\ app' = [app EXCEPT !.body = NextWord(n, k, size)]
  /\ UNCHANGED <<http_response, http_response_headers, tcpFifos, innerFifos, sm, sc,
                 planned, settled, aligned>>

(***************************************************************************)
(* The TCP stack (external) answers each request to send, as it likes.     *)
(***************************************************************************)

TcpSettle ==
  /\ CanRead(tcp_tx_req)
  /\ CanWrite(tcp_tx_rsp, PortDepth)
  /\ LET req == Head(tcp_tx_req) IN
       \E error \in {0, 1} :
         /\ tcp_tx_rsp' = Append(tcp_tx_rsp, [sessionID |-> req.sessionID, error |-> error])
         /\ settled' = Append(settled, [sessionID |-> req.sessionID, length |-> req.length,
                                        outcome |-> IF error = 0 THEN "accepted" ELSE "closed"])
  /\ tcp_tx_req' = Tail(tcp_tx_req)
  /\ UNCHANGED <<appFifos, innerFifos, sm, sc, planned, app, aligned>>

TcpRetry ==
  /\ CanRead(tcp_tx_req)
  /\ CanWrite(tcp_tx_rsp, PortDepth)
  /\ \E error \in {2, 3} :
       tcp_tx_rsp' = Append(tcp_tx_rsp, [sessionID |-> Head(tcp_tx_req).sessionID, error |-> error])
  /\ tcp_tx_req' = Tail(tcp_tx_req)
  /\ UNCHANGED <<appFifos, innerFifos, sm, sc, outside>>

-----------------------------------------------------------------------------
\* Nothing to do: every process polls an empty FIFO and returns.
Poll ==
  /\ app.responses = MaxResponses /\ app.headers[1] > MaxResponses /\ app.body[1] > MaxResponses
  /\ sm.state = "IDLE" /\ http_response = <<>>
  /\ sc.state = "IDLE" /\ resp_status_code = <<>>
  /\ tx_aligner = <<>>
  /\ UNCHANGED vars

Next ==
  \/ StateMachine \/ StatusCodeParser \/ AlignerTake
  \/ AppResponse \/ AppHeaders \/ AppBody
  \/ TcpSettle \/ TcpRetry
  \/ Poll

\* Every process is a circuit that never stops being invoked, the application
\* finishes what it has planned, and the TCP stack answers every request and
\* does not put off the same one for ever.
Fairness ==
  /\ WF_vars(StateMachine)
  /\ WF_vars(StatusCodeParser)
  /\ WF_vars(AlignerTake)
  /\ WF_vars(AppResponse) /\ WF_vars(AppHeaders) /\ WF_vars(AppBody)
  /\ SF_vars(TcpSettle)

Spec     == Init /\ [][Next]_vars
FairSpec == Spec /\ Fairness

-----------------------------------------------------------------------------
(***************************************************************************)
(* Properties                                                              *)
(***************************************************************************)

IsFifo(fifo, S, depth) == fifo \in Seq(S) /\ Len(fifo) <= depth

SmStates ==
  {"IDLE", "TCP_REQ", "TCP_RSP", "DATA_HTTP_STATUS", "DATA_HEADERS", "DATA_CRLF", "DATA_BODY",
   "FLUSH_HEADLINE", "FLUSH_HEADERS", "FLUSH_BODY"}

\* What the path itself holds: its FIFOs, its registers and what it has given
\* to the TCP stack and to the aligner.
PathTypeOK ==
  /\ IsFifo(http_response, Response, PortDepth)
  /\ IsFifo(http_response_headers, Word, PortDepth)
  /\ IsFifo(http_response_body, Word, PortDepth)
  /\ IsFifo(tcp_tx_req, TxRequest, PortDepth)
  /\ IsFifo(tcp_tx_rsp, TxAnswer, PortDepth)
  /\ IsFifo(tx_aligner, Word, InnerDepth)
  /\ IsFifo(resp_status_code, StatusCodes, InnerDepth)
  /\ IsFifo(resp_status_line, {StatusLine(c) : c \in StatusCodes}, InnerDepth)
  /\ sm \in [state : SmStates, app_response : Response \cup {Unset}]
  /\ sc \in [state : {"IDLE", "READ_INPUT", "WRITE_OUTPUT"}, status_code : StatusCodes \cup {Unset}]
  /\ settled \in Seq([sessionID : Sessions, length : Nat, outcome : {"accepted", "closed"}])
  /\ aligned \in Seq(Word)

\* Every register, FIFO and history variable holds a value of its type, and no
\* FIFO of the response path ever holds more than its depth.
TypeOK ==
  /\ PathTypeOK
  /\ planned \in [1 .. MaxResponses -> Response]
  /\ app \in [responses : Nat, headers : Nat \X Nat, body : Nat \X Nat]

\* The response state_machine works on: the last one it has read.
current == app.responses - Len(http_response)

\* The status line state_machine takes, to send or to flush, is the one of the
\* response it works on: the parser holds at most one code, and retries neither
\* ask for a second line nor take one early.
StatusLineOfCurrent ==
  /\ sm.state \in {"TCP_REQ", "TCP_RSP", "DATA_HTTP_STATUS", "FLUSH_HEADLINE"} =>
       LET code == planned[current].status_code IN
         \/ resp_status_code = <<code>> /\ sc.state # "WRITE_OUTPUT" /\ resp_status_line = <<>>
         \/ /\ resp_status_code = <<>> /\ sc.state = "WRITE_OUTPUT" /\ sc.status_code = code
            /\ resp_status_line = <<>>
         \/ /\ resp_status_code = <<>> /\ sc.state = "IDLE"
            /\ resp_status_line = <<StatusLine(code)>>
  /\ sm.state \in {"IDLE", "DATA_HEADERS", "DATA_CRLF", "DATA_BODY", "FLUSH_HEADERS", "FLUSH_BODY"} =>
       resp_status_code = <<>> /\ sc.state = "IDLE" /\ resp_status_line = <<>>

\* Headers and body stay with their response: whatever was sent, retried or
\* flushed before, the next word of headers (of body) is of the response in
\* work until its last one is taken, and of the response after it from then on.
PartsOfCurrent ==
  LET headersTaken == sm.state \in {"IDLE", "DATA_CRLF", "DATA_BODY", "FLUSH_BODY"}
      bodyTaken    == sm.state = "IDLE"
  IN  /\ http_response_headers # <<>> =>
           Head(http_response_headers).rsp = IF headersTaken THEN current + 1 ELSE current
      /\ http_response_body # <<>> =>
           Head(http_response_body).rsp = IF bodyTaken THEN current + 1 ELSE current

\* The next word of the packet being sent, counted in the packet: the words of
\* headers, the CR LF, the words of body; 0 when no packet is.
NextOf(fifo, written) == IF fifo = <<>> THEN written[2] ELSE Head(fifo).pos
AcceptedUnread == tcp_tx_rsp # <<>> /\ Head(tcp_tx_rsp).error = 0
NextToSend ==
  LET crlf == WordCount(planned[current].headers_size) + 1
  IN  CASE sm.state = "TCP_RSP"          -> IF AcceptedUnread THEN 1 ELSE 0
        [] sm.state = "DATA_HTTP_STATUS" -> 1
        [] sm.state = "DATA_HEADERS"     -> NextOf(http_response_headers, app.headers)
        [] sm.state = "DATA_CRLF"        -> crlf
        [] sm.state = "DATA_BODY"        -> crlf + NextOf(http_response_body, app.body)
        [] OTHER                         -> 0

\* The response path implements ResponseDelivery: each response is settled once,
\* with its own session and the length of its packet, and exactly the packets
\* of the accepted ones go to the aligner, whole and in order.  It does so for
\* responses whose length fits in the field.
LengthsFit == \A r \in Responses : r.body_size + r.headers_size + 2 < LengthValues
Delivery == INSTANCE ResponseDelivery WITH stream <- aligned \o tx_aligner, next <- NextToSend
RefinesDelivery == Delivery!DSpec

\* The tests of the response path (response_processor.spec.cc:128) and of the
\* top level (http.spec.cc:298) want the length to be the size of the body and
\* of the headers.
AnnouncedAsTested ==
  \A i \in 1 .. Len(settled) :
    settled[i].length = planned[i].body_size + planned[i].headers_size

\* Every response of the application is settled, its words are all taken, and
\* the packets of the accepted ones reach the aligner: no process waits for
\* ever, whatever the TCP stack refuses, puts off or accepts.
EveryResponseSettled ==
  <>(/\ Len(settled) = MaxResponses /\ sm.state = "IDLE"
     /\ app.headers[1] > MaxResponses /\ http_response_headers = <<>>
     /\ app.body[1] > MaxResponses /\ http_response_body = <<>>
     /\ tx_aligner = <<>>)
=============================================================================
