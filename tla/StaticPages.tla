---------------------------- MODULE StaticPages -----------------------------
(***************************************************************************)
(* The static pages application (examples/static_pages/static_pages.cc) on *)
(* the request path of RequestProcessor:                                   *)
(*                                                                         *)
(*   http_request, _headers, _body -> process_request                      *)
(*                                       -> strm_internal ->               *)
(*   mem_response -> process_response -> http_response, _headers, _body    *)
(*                                                                         *)
(* The two processes run until they have handled a DELETE.  The host       *)
(* (host.cc) writes the headers and, from byte header_length on, the body  *)
(* to mem_response once, before it starts the kernel.  The response path   *)
(* is represented by its reads of the three streams.                       *)
(***************************************************************************)
EXTENDS RequestProcessor

CONSTANTS
  header_length, body_length,     \* sizes of the two files, in bytes
  LengthValues,                   \* values of an ap_uint<16> (65536 in the code)
  InternalDepth                   \* depth of strm_internal (2, the default)

ASSUME PagesAssumption ==
  /\ header_length \in Nat \ {0} /\ body_length \in Nat \ {0}
  /\ LengthValues \in Nat \ {0}
  /\ InternalDepth \in Nat \ {0}

VARIABLES
  strm_internal,
  http_response, http_response_headers, http_response_body,
  \* process_request: where it is, the register service_running
  preq,
  \* process_response: where it is, internal, mem_pointer, bytes_sent
  pres,
  \* what the response path has taken of each stream
  taken_by_tx

pagesFifos == <<strm_internal, http_response, http_response_headers, http_response_body>>
allVars    == <<vars, pagesFifos, preq, pres, taken_by_tx>>

\* Byte b of the memory of the kernel, as the host has filled it: the file of
\* the headers, that of the body right after it, and what lies beyond.
mem_response(b) ==
  CASE b < header_length -> <<"headers", b>>
    [] b \in header_length .. header_length + body_length - 1 -> <<"body", b - header_length>>
    [] OTHER -> <<"beyond", b>>

PagesInit ==
  /\ Init
  /\ strm_internal = <<>>
  /\ http_response = <<>> /\ http_response_headers = <<>> /\ http_response_body = <<>>
  /\ preq = [at |-> "POLL", service_running |-> TRUE]
  /\ pres = [at |-> "POLL", internal |-> Unset, mem_pointer |-> 0, bytes_sent |-> 0]
  /\ taken_by_tx = [responses |-> <<>>, headers |-> <<>>, body |-> <<>>]

-----------------------------------------------------------------------------
(***************************************************************************)
(* process_request                                                         *)
(***************************************************************************)

\* Mutant: no request stops the service.
AlwaysKeepsRunning(request) == TRUE
KeepsRunning(request) == request.method # "DELETE"

PreqRequest ==
  /\ preq.at = "POLL"
  /\ CanWrite(strm_internal, InternalDepth)
  /\ AppRequest
  /\ LET request == Head(http_request) IN
       /\ strm_internal' = Append(strm_internal, [meta            |-> request.meta,
                                                  service_running |-> KeepsRunning(request)])
       /\ preq' = [at |-> "HEADERS", service_running |-> KeepsRunning(request)]
  /\ UNCHANGED <<http_response, http_response_headers, http_response_body, pres, taken_by_tx>>

\* Headers, then the body, are read until last, whatever the request announces.
\* Mutant: one beat of headers and one of body are read.
AfterDrainedOne(last, loop, next) == next
AfterDrained(last, loop, next) == IF last THEN next ELSE loop

PreqHeaders ==
  /\ preq.at = "HEADERS"
  /\ AppHeaders
  /\ preq' = [preq EXCEPT !.at = AfterDrained(Head(http_request_headers).last, "HEADERS", "BODY")]
  /\ UNCHANGED <<pagesFifos, pres, taken_by_tx>>

PreqBody ==
  /\ preq.at = "BODY"
  /\ AppBody
  /\ LET next == IF preq.service_running THEN "POLL" ELSE "STOPPED" IN
       preq' = [preq EXCEPT !.at = AfterDrained(Head(http_request_body).last, "BODY", next)]
  /\ UNCHANGED <<pagesFifos, pres, taken_by_tx>>

ProcessRequest == PreqRequest \/ PreqHeaders \/ PreqBody

-----------------------------------------------------------------------------
(***************************************************************************)
(* process_response                                                        *)
(***************************************************************************)

\* An unsigned int put into a size of http_response_spt, an ap_uint<16>.
SizeField(length) == length % LengthValues

PresNotify ==
  /\ pres.at = "POLL"
  /\ CanRead(strm_internal)
  /\ CanWrite(http_response, PortDepth)
  /\ http_response' = Append(http_response,
                             [meta         |-> Head(strm_internal).meta,
                              status_code  |-> "OK_200",
                              headers_size |-> SizeField(header_length),
                              body_size    |-> SizeField(body_length)])
  /\ strm_internal' = Tail(strm_internal)
  /\ pres' = [at |-> "HEADERS", internal |-> Head(strm_internal), mem_pointer |-> 0, bytes_sent |-> 0]
  /\ UNCHANGED <<vars, http_response_headers, http_response_body, preq, taken_by_tx>>

\* A word of memory: which one, the bytes it keeps, last.
PageWord(bytes_sent, length) ==
  [word |-> pres.mem_pointer, keep |-> WordBytes, last |-> bytes_sent >= length]

\* The word after the one just written: the next of its loop while bytes_sent
\* is short of the length, else the first of the part (or state) that follows.
\* Mutant: the loop ends a word early.
AfterWordEarly(bytes_sent, length, loop, next) ==
  IF bytes_sent + WordBytes < length
  THEN [pres EXCEPT !.mem_pointer = @ + 1, !.bytes_sent = bytes_sent]
  ELSE [pres EXCEPT !.mem_pointer = @ + 1, !.bytes_sent = 0, !.at = next]
AfterWord(bytes_sent, length, loop, next) ==
  [pres EXCEPT !.mem_pointer = @ + 1,
               !.bytes_sent  = IF bytes_sent < length THEN bytes_sent ELSE 0,
               !.at          = IF bytes_sent < length THEN loop ELSE next]

PresHeaders ==
  /\ pres.at = "HEADERS"
  /\ CanWrite(http_response_headers, PortDepth)
  /\ LET bytes_sent == pres.bytes_sent + WordBytes IN
       /\ http_response_headers' = Append(http_response_headers, PageWord(bytes_sent, header_length))
       /\ pres' = AfterWord(bytes_sent, header_length, "HEADERS", "BODY")
  /\ UNCHANGED <<vars, strm_internal, http_response, http_response_body, preq, taken_by_tx>>

PresBody ==
  /\ pres.at = "BODY"
  /\ CanWrite(http_response_body, PortDepth)
  /\ LET bytes_sent == pres.bytes_sent + WordBytes
         next == IF pres.internal.service_running THEN "POLL" ELSE "STOPPED"
     IN  /\ http_response_body' = Append(http_response_body, PageWord(bytes_sent, body_length))
         /\ pres' = AfterWord(bytes_sent, body_length, "BODY", next)
  /\ UNCHANGED <<vars, strm_internal, http_response, http_response_headers, preq, taken_by_tx>>

ProcessResponse == PresNotify \/ PresHeaders \/ PresBody

-----------------------------------------------------------------------------
(***************************************************************************)
(* The response path (external) takes from the three streams, each at its  *)
(* own pace.                                                               *)
(***************************************************************************)

TxResponse ==
  /\ CanRead(http_response)
  /\ taken_by_tx' = [taken_by_tx EXCEPT !.responses = Append(@, Head(http_response))]
  /\ http_response' = Tail(http_response)
  /\ UNCHANGED <<vars, strm_internal, http_response_headers, http_response_body, preq, pres>>

TxHeaders ==
  /\ CanRead(http_response_headers)
  /\ taken_by_tx' = [taken_by_tx EXCEPT !.headers = Append(@, Head(http_response_headers))]
  /\ http_response_headers' = Tail(http_response_headers)
  /\ UNCHANGED <<vars, strm_internal, http_response, http_response_body, preq, pres>>

TxBody ==
  /\ CanRead(http_response_body)
  /\ taken_by_tx' = [taken_by_tx EXCEPT !.body = Append(@, Head(http_response_body))]
  /\ http_response_body' = Tail(http_response_body)
  /\ UNCHANGED <<vars, strm_internal, http_response, http_response_headers, preq, pres>>

RxStep(A) == A /\ UNCHANGED <<pagesFifos, preq, pres, taken_by_tx>>

RxStateMachine   == RxStep(StateMachine)
RxHeadlineParser == RxStep(HeadlineParser)
RxRequestIssuer  == RxStep(RequestIssuer)
RxPayloadParser  == RxStep(PayloadParser)
RxTcpNotify      == RxStep(TcpNotify)
RxTcpAccept      == RxStep(TcpAccept)
RxTcpDeliver     == RxStep(TcpDeliver)

PagesNext ==
  \/ RxStateMachine \/ RxHeadlineParser \/ RxRequestIssuer \/ RxPayloadParser
  \/ RxTcpNotify \/ RxTcpAccept \/ RxTcpDeliver
  \/ ProcessRequest \/ ProcessResponse
  \/ TxResponse \/ TxHeaders \/ TxBody

PagesFairness ==
  /\ WF_allVars(RxStateMachine) /\ WF_allVars(RxHeadlineParser)
  /\ WF_allVars(RxRequestIssuer) /\ WF_allVars(RxPayloadParser)
  /\ WF_allVars(RxTcpAccept) /\ WF_allVars(RxTcpDeliver)
  /\ WF_allVars(ProcessRequest) /\ WF_allVars(ProcessResponse)
  /\ WF_allVars(TxResponse) /\ WF_allVars(TxHeaders) /\ WF_allVars(TxBody)

PagesSpec     == PagesInit /\ [][PagesNext]_allVars
PagesFairSpec == PagesSpec /\ PagesFairness

-----------------------------------------------------------------------------
(***************************************************************************)
(* Properties                                                              *)
(***************************************************************************)

Internal     == [meta : [method : HttpMethods, sessionID : Sessions], service_running : BOOLEAN]
PageResponse == [meta : [method : HttpMethods, sessionID : Sessions], status_code : {"OK_200"},
                 headers_size : {SizeField(header_length)}, body_size : {SizeField(body_length)}]
Page         == [word : Nat, keep : {WordBytes}, last : BOOLEAN]

\* The request path and the two processes hold values of their types, and no
\* FIFO more than its depth.
PagesTypeOK ==
  /\ TypeOK
  /\ IsFifo(strm_internal, Internal, InternalDepth)
  /\ IsFifo(http_response, PageResponse, PortDepth)
  /\ IsFifo(http_response_headers, Page, PortDepth)
  /\ IsFifo(http_response_body, Page, PortDepth)
  /\ preq \in [at : {"POLL", "HEADERS", "BODY", "STOPPED"}, service_running : BOOLEAN]
  /\ pres \in [at : {"POLL", "HEADERS", "BODY", "STOPPED"}, internal : Internal \cup {Unset},
               mem_pointer : Nat, bytes_sent : Nat]

\* The three streams as they are offered to the response path.
responses == taken_by_tx.responses \o http_response
pages     == [headers |-> taken_by_tx.headers \o http_response_headers,
              body    |-> taken_by_tx.body \o http_response_body]

\* The i-th response answers the i-th request, and no request that follows a
\* DELETE is taken from its stream, let alone answered: process_response goes
\* on with what is queued while process_request already drains the next one.
AnswersUpToDelete ==
  /\ Len(responses) + Len(strm_internal) = Len(app.requests)
  /\ \A i \in 1 .. Len(responses) : responses[i].meta = app.requests[i].meta
  /\ \A i \in 1 .. Len(app.requests) - 1 : app.requests[i].method # "DELETE"

\* Every response is followed by its headers and its body, whole: the words the
\* sizes take, last on the final one only, and the next response not before.
\* It is what the response path relies on to tell the responses apart.
WordCount(size) == (size + WordBytes - 1) \div WordBytes
PagesStayInStep ==
  LET h == WordCount(header_length)
      b == WordCount(body_length)
      r == Len(responses)
  IN  /\ Len(pages.headers) \in h * (r - 1) .. h * r /\ Len(pages.body) \in b * (r - 1) .. b * r
      /\ pres.at \in {"POLL", "STOPPED"} => Len(pages.headers) = h * r /\ Len(pages.body) = b * r
      /\ \A j \in DOMAIN pages.headers : pages.headers[j].last <=> j % h = 0
      /\ \A j \in DOMAIN pages.body : pages.body[j].last <=> j % b = 0

\* Where every request has a body, the beats process_request drains while it
\* handles the i-th request are those of the i-th transfer, all of them.
DrainsItsOwnRequest ==
  /\ \A j \in DOMAIN app.headers : app.headers[j].data.req <= Len(app.requests)
  /\ \A j \in DOMAIN app.body : app.body[j].data.req <= Len(app.requests)
  /\ preq.at \in {"POLL", "STOPPED"} =>
       \A i \in 1 .. Len(app.requests) :
         /\ \E j \in DOMAIN app.headers : app.headers[j].data.req = i
         /\ \E j \in DOMAIN app.body : app.body[j].data.req = i /\ app.body[j].last

\* A DELETE ends both processes, and not before every request up to it has its
\* whole response: static_pages returns, which the host waits for.
Stops == \E i \in 1 .. Len(served) : method_parser(served[i].line) = "DELETE"
StopsOnDelete ==
  Stops ~> /\ preq.at = "STOPPED" /\ pres.at = "STOPPED"
           /\ Len(taken_by_tx.responses) = Len(app.requests)
           /\ Len(taken_by_tx.body) = WordCount(body_length) * Len(app.requests)

\* The host writes the body at byte header_length of mem_response ("buffer
\* offset in bytes", host.cc:184): the k-th word sent of it starts with its byte
\* k * WordBytes.
BodyFromItsOffset ==
  \A j \in DOMAIN pages.body :
    LET k == (j - 1) % WordCount(body_length) IN
      mem_response(pages.body[j].word * WordBytes) = <<"body", k * WordBytes>>
=============================================================================
