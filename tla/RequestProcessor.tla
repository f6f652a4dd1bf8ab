-------------------------- MODULE RequestProcessor --------------------------
(***************************************************************************)
(* The request path of the HTTP server (hw/hls/request_processor.cc and    *)
(* the processes it composes).  Four dataflow processes run concurrently   *)
(* and communicate through bounded FIFOs:                                  *)
(*                                                                         *)
(*   tcp_notification ->  state_machine -> headline_in -> headline_parser  *)
(*   tcp_rx_data      ->        |             -> headline_out ->           *)
(*                              |         request_issuer -> http_request   *)
(*                              +-> payload_in -> req_payload_parser       *)
(*                                   -> http_request_headers / _body       *)
(*                                                                         *)
(* One action is one invocation of a process: the case of its switch that  *)
(* its state selects.  A read of an empty FIFO or a write to a full one    *)
(* blocks the process, so both are guards; an invocation that finds        *)
(* .empty() true changes nothing and is a stuttering step (see Poll).      *)
(* The TCP stack and the application are outside of this component.        *)
(***************************************************************************)
EXTENDS RequestData, FiniteSets

CONSTANTS
  HeadlineInDepth,    \* depth of headline_in   (16 in the code)
  HeadlineOutDepth,   \* depth of headline_out  (1 in the code)
  PayloadInDepth,     \* depth of payload_in    (16 in the code)
  PortDepth,          \* depth of every port FIFO of the component
  MaxNotifications,   \* bound on the notifications of a behaviour
  Unset               \* content of a register that has no reset value

ASSUME DepthAssumption ==
  /\ HeadlineInDepth \in Nat \ {0}
  /\ HeadlineOutDepth \in Nat \ {0}
  /\ PayloadInDepth \in Nat \ {0}
  /\ PortDepth \in Nat \ {0}

ASSUME BoundAssumption == MaxNotifications \in Nat

VARIABLES
  \* FIFOs between the TCP stack and state_machine
  tcp_notification, tcp_rx_req, tcp_rx_rsp, tcp_rx_data,
  \* static variables of the processes
  sm,                 \* state_machine:      state, sessionID, hasHeaders, hasBody
  hp,                 \* headline_parser:    state and the registers of a headline
  pp,                 \* req_payload_parser: state, line
  \* FIFOs inside the component
  headline_in, headline_out, payload_in,
  \* FIFOs to the application
  http_request, http_request_headers, http_request_body,
  \* the TCP stack: notifications sent, transfers accepted, beats still to send
  notified, served, rx_left,
  \* the application: everything it has taken from the three FIFOs
  app

tcpFifos == <<tcp_notification, tcp_rx_req, tcp_rx_rsp, tcp_rx_data>>
inFifos  == <<headline_in, headline_out, payload_in>>
appFifos == <<http_request, http_request_headers, http_request_body>>
tcpStack == <<notified, served, rx_left>>
vars     == <<tcpFifos, sm, hp, pp, inFifos, appFifos, tcpStack, app>>

-----------------------------------------------------------------------------
CanRead(fifo) == fifo # <<>>

\* Mutant: a FIFO takes one element more than its depth.
CanWriteOneTooMany(fifo, depth) == Len(fifo) <= depth
CanWrite(fifo, depth) == Len(fifo) < depth

-----------------------------------------------------------------------------
(***************************************************************************)
(* The initial state: registers without a reset value hold Unset.          *)
(***************************************************************************)

Init ==
  /\ tcp_notification = <<>> /\ tcp_rx_req = <<>>
  /\ tcp_rx_rsp = <<>> /\ tcp_rx_data = <<>>
  /\ sm = [state |-> "IDLE", sessionID |-> Unset, hasHeaders |-> Unset, hasBody |-> Unset]
  /\ hp = [state |-> "INPUT_READ", line |-> Unset, method |-> Unset,
           sessionID |-> Unset, hasHeaders |-> Unset, hasBody |-> Unset]
  /\ pp = [state |-> "HEADER_READ", line |-> Unset]
  /\ headline_in = <<>> /\ headline_out = <<>> /\ payload_in = <<>>
  /\ http_request = <<>> /\ http_request_headers = <<>> /\ http_request_body = <<>>
  /\ notified = <<>> /\ served = <<>> /\ rx_left = 0
  /\ app = [requests |-> <<>>, headers |-> <<>>, body |-> <<>>]

-----------------------------------------------------------------------------
(***************************************************************************)
(* state_machine                                                           *)
(***************************************************************************)

SmIdle ==
  /\ sm.state = "IDLE"
  /\ CanRead(tcp_notification)
  /\ sm' = [sm EXCEPT !.state = "NOTIFICATION"]
  /\ UNCHANGED <<tcpFifos, hp, pp, inFifos, appFifos, tcpStack, app>>

\* A notification of bytes to read: ask the TCP stack for them.
SmNotificationData ==
  /\ sm.state = "NOTIFICATION"
  /\ CanRead(tcp_notification)
  /\ CanWrite(tcp_rx_req, PortDepth)
  /\ LET notif == Head(tcp_notification) IN
       /\ notif.length # 0
       /\ tcp_rx_req' = Append(tcp_rx_req, notif)
       /\ sm' = [state      |-> "HANDSHAKE",
                 sessionID  |-> notif.sessionID,
                 hasHeaders |-> AnnouncesHeaders(notif.length),
                 hasBody    |-> AnnouncesBody(notif.length)]
  /\ tcp_notification' = Tail(tcp_notification)
  /\ UNCHANGED <<tcp_rx_rsp, tcp_rx_data, hp, pp, inFifos, appFifos, tcpStack, app>>

\* A notification of length zero (a closed connection) is dropped.
\* Mutant: the length is not tested.
SmNotificationDropsAny ==
  /\ sm.state = "NOTIFICATION"
  /\ CanRead(tcp_notification)
  /\ tcp_notification' = Tail(tcp_notification)
  /\ sm' = [sm EXCEPT !.state = "IDLE"]
  /\ UNCHANGED <<tcp_rx_req, tcp_rx_rsp, tcp_rx_data, hp, pp, inFifos, appFifos, tcpStack, app>>

\* Mutant: the notification is looked at but stays in the FIFO.
SmNotificationKept ==
  /\ sm.state = "NOTIFICATION"
  /\ CanRead(tcp_notification)
  /\ Head(tcp_notification).length = 0
  /\ sm' = [sm EXCEPT !.state = "IDLE"]
  /\ UNCHANGED <<tcpFifos, hp, pp, inFifos, appFifos, tcpStack, app>>

SmNotificationEmpty ==
  /\ sm.state = "NOTIFICATION"
  /\ CanRead(tcp_notification)
  /\ Head(tcp_notification).length = 0
  /\ tcp_notification' = Tail(tcp_notification)
  /\ sm' = [sm EXCEPT !.state = "IDLE"]
  /\ UNCHANGED <<tcp_rx_req, tcp_rx_rsp, tcp_rx_data, hp, pp, inFifos, appFifos, tcpStack, app>>

\* The answer of the TCP stack is awaited, its value ignored.
\* Mutant: the first beat is taken for payload.
SmHandshakeSkipsHeadline ==
  /\ sm.state = "HANDSHAKE"
  /\ CanRead(tcp_rx_rsp)
  /\ tcp_rx_rsp' = Tail(tcp_rx_rsp)
  /\ sm' = [sm EXCEPT !.state = "DATA_PAYLOAD"]
  /\ UNCHANGED <<tcp_notification, tcp_rx_req, tcp_rx_data, hp, pp, inFifos, appFifos, tcpStack, app>>

SmHandshake ==
  /\ sm.state = "HANDSHAKE"
  /\ CanRead(tcp_rx_rsp)
  /\ tcp_rx_rsp' = Tail(tcp_rx_rsp)
  /\ sm' = [sm EXCEPT !.state = "DATA_HEADLINE"]
  /\ UNCHANGED <<tcp_notification, tcp_rx_req, tcp_rx_data, hp, pp, inFifos, appFifos, tcpStack, app>>

\* Where a beat of data leaves state_machine.
\* Mutant: the headline is taken for the whole request.
AfterBeatAlwaysIdle(last) == "IDLE"
AfterBeat(last) == IF last THEN "IDLE" ELSE "DATA_PAYLOAD"

SmDataHeadline ==
  /\ sm.state = "DATA_HEADLINE"
  /\ CanRead(tcp_rx_data)
  /\ CanWrite(headline_in, HeadlineInDepth)
  /\ LET raw == Head(tcp_rx_data) IN
       /\ headline_in' = Append(headline_in,
                                [line       |-> raw.data,
                                 sessionID  |-> sm.sessionID,
                                 hasHeaders |-> sm.hasHeaders,
                                 hasBody    |-> sm.hasBody])
       /\ sm' = [sm EXCEPT !.state = AfterBeat(raw.last)]
  /\ tcp_rx_data' = Tail(tcp_rx_data)
  /\ UNCHANGED <<tcp_notification, tcp_rx_req, tcp_rx_rsp, hp, pp,
                 headline_out, payload_in, appFifos, tcpStack, app>>

SmDataPayload ==
  /\ sm.state = "DATA_PAYLOAD"
  /\ CanRead(tcp_rx_data)
  /\ CanWrite(payload_in, PayloadInDepth)
  /\ LET raw == Head(tcp_rx_data) IN
       /\ payload_in' = Append(payload_in, raw)
       /\ sm' = [sm EXCEPT !.state = AfterBeat(raw.last)]
  /\ tcp_rx_data' = Tail(tcp_rx_data)
  /\ UNCHANGED <<tcp_notification, tcp_rx_req, tcp_rx_rsp, hp, pp,
                 headline_in, headline_out, appFifos, tcpStack, app>>

StateMachine ==
  \/ SmIdle \/ SmNotificationData \/ SmNotificationEmpty
  \/ SmHandshake \/ SmDataHeadline \/ SmDataPayload

-----------------------------------------------------------------------------
(***************************************************************************)
(* headline_parser                                                         *)
(***************************************************************************)

\* The registers once a headline is read.
\* Mutant: the session register keeps its value.
HeadlineLoadedStaleSession(raw) ==
  [hp EXCEPT !.state = "PARSE_METHOD", !.line = raw.line,
             !.hasHeaders = raw.hasHeaders, !.hasBody = raw.hasBody]
HeadlineLoaded(raw) ==
  [hp EXCEPT !.state = "PARSE_METHOD", !.line = raw.line, !.sessionID = raw.sessionID,
             !.hasHeaders = raw.hasHeaders, !.hasBody = raw.hasBody]

HpInputRead ==
  /\ hp.state = "INPUT_READ"
  /\ CanRead(headline_in)
  /\ hp' = HeadlineLoaded(Head(headline_in))
  /\ headline_in' = Tail(headline_in)
  /\ UNCHANGED <<tcpFifos, sm, pp, headline_out, payload_in, appFifos, tcpStack, app>>

HpParseMethod ==
  /\ hp.state = "PARSE_METHOD"
  /\ hp' = [hp EXCEPT !.state = "EXTRACT_ENDPOINT", !.method = method_parser(hp.line.text)]
  /\ UNCHANGED <<tcpFifos, sm, pp, inFifos, appFifos, tcpStack, app>>

\* The endpoint is not extracted yet: the state only takes its turn.
HpExtractEndpoint ==
  /\ hp.state = "EXTRACT_ENDPOINT"
  /\ hp' = [hp EXCEPT !.state = "OUTPUT_WRITE"]
  /\ UNCHANGED <<tcpFifos, sm, pp, inFifos, appFifos, tcpStack, app>>

HpOutputWrite ==
  /\ hp.state = "OUTPUT_WRITE"
  /\ CanWrite(headline_out, HeadlineOutDepth)
  /\ headline_out' = Append(headline_out,
                            [method |-> hp.method, sessionID |-> hp.sessionID,
                             hasHeaders |-> hp.hasHeaders, hasBody |-> hp.hasBody])
  /\ hp' = [hp EXCEPT !.state = "INPUT_READ"]
  /\ UNCHANGED <<tcpFifos, sm, pp, headline_in, payload_in, appFifos, tcpStack, app>>

HeadlineParser == HpInputRead \/ HpParseMethod \/ HpExtractEndpoint \/ HpOutputWrite

-----------------------------------------------------------------------------
(***************************************************************************)
(* request_issuer                                                          *)
(***************************************************************************)

RequestIssuer ==
  /\ CanRead(headline_out)
  /\ CanWrite(http_request, PortDepth)
  /\ LET headline == Head(headline_out) IN
       http_request' = Append(http_request,
                              [meta       |-> [method    |-> headline.method,
                                               sessionID |-> headline.sessionID],
                               method     |-> headline.method,
                               hasHeaders |-> headline.hasHeaders,
                               hasBody    |-> headline.hasBody])
  /\ headline_out' = Tail(headline_out)
  /\ UNCHANGED <<tcpFifos, sm, hp, pp, headline_in, payload_in,
                 http_request_headers, http_request_body, tcpStack, app>>

-----------------------------------------------------------------------------
(***************************************************************************)
(* req_payload_parser: the first beat after the headline is the headers,   *)
(* marked last; the beats after it are the body.                           *)
(***************************************************************************)

PpHeaderRead ==
  /\ pp.state = "HEADER_READ"
  /\ CanRead(payload_in)
  /\ pp' = [state |-> "HEADER_WRITE", line |-> Head(payload_in)]
  /\ payload_in' = Tail(payload_in)
  /\ UNCHANGED <<tcpFifos, sm, hp, headline_in, headline_out, appFifos, tcpStack, app>>

\* The beat of headers as the application gets it.
\* Mutant: last is passed on as it came.
HeaderBeatAsRead(line) == line
HeaderBeat(line) == [line EXCEPT !.last = TRUE]

PpHeaderWrite ==
  /\ pp.state = "HEADER_WRITE"
  /\ CanWrite(http_request_headers, PortDepth)
  /\ LET currLast == pp.line.last
         line     == HeaderBeat(pp.line)
     IN  /\ http_request_headers' = Append(http_request_headers, line)
         /\ pp' = [state |-> IF currLast THEN "HEADER_READ" ELSE "BODY_READ", line |-> line]
  /\ UNCHANGED <<tcpFifos, sm, hp, inFifos, http_request, http_request_body, tcpStack, app>>

PpBodyRead ==
  /\ pp.state = "BODY_READ"
  /\ CanRead(payload_in)
  /\ pp' = [state |-> "BODY_WRITE", line |-> Head(payload_in)]
  /\ payload_in' = Tail(payload_in)
  /\ UNCHANGED <<tcpFifos, sm, hp, headline_in, headline_out, appFifos, tcpStack, app>>

PpBodyWrite ==
  /\ pp.state = "BODY_WRITE"
  /\ CanWrite(http_request_body, PortDepth)
  /\ http_request_body' = Append(http_request_body, pp.line)
  /\ pp' = [pp EXCEPT !.state = IF pp.line.last THEN "HEADER_READ" ELSE "BODY_READ"]
  /\ UNCHANGED <<tcpFifos, sm, hp, inFifos, http_request, http_request_headers, tcpStack, app>>

PayloadParser == PpHeaderRead \/ PpHeaderWrite \/ PpBodyRead \/ PpBodyWrite

-----------------------------------------------------------------------------
(***************************************************************************)
(* The TCP stack (external), as state_machine uses it: notifications       *)
(* arrive at any time; each read request is answered and then delivered,   *)
(* one at a time, as ceil(length / WordBytes) beats, last on the final one.*)
(***************************************************************************)

TcpNotify ==
  /\ Len(notified) < MaxNotifications
  /\ CanWrite(tcp_notification, PortDepth)
  /\ \E n \in Notification :
       /\ notified' = Append(notified, n)
       /\ tcp_notification' = Append(tcp_notification, n)
  /\ UNCHANGED <<tcp_rx_req, tcp_rx_rsp, tcp_rx_data, sm, hp, pp, inFifos, appFifos,
                 served, rx_left, app>>

TcpAccept ==
  /\ rx_left = 0
  /\ CanRead(tcp_rx_req)
  /\ CanWrite(tcp_rx_rsp, PortDepth)
  /\ LET req == Head(tcp_rx_req) IN
       /\ \E line \in Lines :
            served' = Append(served, [sessionID |-> req.sessionID,
                                      length |-> req.length, line |-> line])
       /\ rx_left' = BeatCount(req.length)
       /\ tcp_rx_rsp' = Append(tcp_rx_rsp, req.length)
  /\ tcp_rx_req' = Tail(tcp_rx_req)
  /\ UNCHANGED <<tcp_notification, tcp_rx_data, sm, hp, pp, inFifos, appFifos, notified, app>>

TcpDeliver ==
  /\ rx_left > 0
  /\ CanWrite(tcp_rx_data, PortDepth)
  /\ LET m == served[Len(served)] IN
       tcp_rx_data' = Append(tcp_rx_data,
                             BeatOf(m, Len(served), BeatCount(m.length) - rx_left + 1))
  /\ rx_left' = rx_left - 1
  /\ UNCHANGED <<tcp_notification, tcp_rx_req, tcp_rx_rsp, sm, hp, pp, inFifos, appFifos,
                 notified, served, app>>

-----------------------------------------------------------------------------
(***************************************************************************)
(* The application (external): takes from its three FIFOs in any order.    *)
(***************************************************************************)

AppRequest ==
  /\ CanRead(http_request)
  /\ app' = [app EXCEPT !.requests = Append(@, Head(http_request))]
  /\ http_request' = Tail(http_request)
  /\ UNCHANGED <<tcpFifos, sm, hp, pp, inFifos, http_request_headers, http_request_body, tcpStack>>

AppHeaders ==
  /\ CanRead(http_request_headers)
  /\ app' = [app EXCEPT !.headers = Append(@, Head(http_request_headers))]
  /\ http_request_headers' = Tail(http_request_headers)
  /\ UNCHANGED <<tcpFifos, sm, hp, pp, inFifos, http_request, http_request_body, tcpStack>>

AppBody ==
  /\ CanRead(http_request_body)
  /\ app' = [app EXCEPT !.body = Append(@, Head(http_request_body))]
  /\ http_request_body' = Tail(http_request_body)
  /\ UNCHANGED <<tcpFifos, sm, hp, pp, inFifos, http_request, http_request_headers, tcpStack>>

-----------------------------------------------------------------------------
\* Nothing to do: every process polls an empty FIFO and returns.
Poll ==
  /\ Len(notified) = MaxNotifications
  /\ sm.state = "IDLE" /\ tcp_notification = <<>>
  /\ hp.state = "INPUT_READ" /\ headline_in = <<>>
  /\ pp.state = "HEADER_READ" /\ payload_in = <<>>
  /\ headline_out = <<>>
  /\ UNCHANGED vars

Next ==
  \/ StateMachine \/ HeadlineParser \/ RequestIssuer \/ PayloadParser
  \/ TcpNotify \/ TcpAccept \/ TcpDeliver
  \/ AppRequest \/ AppHeaders \/ AppBody
  \/ Poll

\* Every process is a circuit of its own that never stops being invoked, and
\* the TCP stack and the application keep serving; notifications may cease.  It
\* is enough that one of those that can go on does: each step moves something
\* towards the application, so none goes on without end while others wait.
Work ==
  \/ StateMachine \/ HeadlineParser \/ RequestIssuer \/ PayloadParser
  \/ TcpAccept \/ TcpDeliver \/ AppRequest \/ AppHeaders \/ AppBody
Fairness == WF_vars(Work)

Spec     == Init /\ [][Next]_vars
FairSpec == Spec /\ Fairness

-----------------------------------------------------------------------------
(***************************************************************************)
(* Properties                                                              *)
(***************************************************************************)

\* A FIFO of this depth with elements of S.
IsFifo(fifo, S, depth) == fifo \in Seq(S) /\ Len(fifo) <= depth

TcpFifosOK ==
  /\ IsFifo(tcp_notification, Notification, PortDepth)
  /\ IsFifo(tcp_rx_req, ReadRequest, PortDepth)
  /\ IsFifo(tcp_rx_rsp, Nat, PortDepth)
  /\ IsFifo(tcp_rx_data, Beat, PortDepth)
InFifosOK ==
  /\ IsFifo(headline_in, HeadlineIn, HeadlineInDepth)
  /\ IsFifo(headline_out, HeadlineOut, HeadlineOutDepth)
  /\ IsFifo(payload_in, Beat, PayloadInDepth)
AppFifosOK ==
  /\ IsFifo(http_request, Request, PortDepth)
  /\ IsFifo(http_request_headers, Beat, PortDepth)
  /\ IsFifo(http_request_body, Beat, PortDepth)
SmOK ==
  sm \in [state : {"IDLE", "NOTIFICATION", "HANDSHAKE", "DATA_HEADLINE", "DATA_PAYLOAD"},
          sessionID : Sessions \cup {Unset},
          hasHeaders : BOOLEAN \cup {Unset}, hasBody : BOOLEAN \cup {Unset}]
HpOK ==
  hp \in [state : {"INPUT_READ", "PARSE_METHOD", "EXTRACT_ENDPOINT", "OUTPUT_WRITE"},
          line : Data \cup {Unset}, method : HttpMethods \cup {Unset},
          sessionID : Sessions \cup {Unset},
          hasHeaders : BOOLEAN \cup {Unset}, hasBody : BOOLEAN \cup {Unset}]
PpOK ==
  pp \in [state : {"HEADER_READ", "HEADER_WRITE", "BODY_READ", "BODY_WRITE"},
          line : Beat \cup {Unset}]
EnvironmentOK ==
  /\ notified \in Seq(Notification)
  /\ served \in Seq(Transfer)
  /\ rx_left \in Nat
  /\ app \in [requests : Seq(Request), headers : Seq(Beat), body : Seq(Beat)]

\* Every register, FIFO and history variable holds a value of its type, and no
\* FIFO of the request path ever holds more than its depth.
TypeOK ==
  TcpFifosOK /\ InFifosOK /\ AppFifosOK /\ SmOK /\ HpOK /\ PpOK /\ EnvironmentOK

\* The three streams as they are offered: what the application took, then what
\* waits for it.
offeredRequests == app.requests \o http_request
offeredHeaders  == app.headers \o http_request_headers
offeredBody     == app.body \o http_request_body

\* state_machine has at most one transfer in flight with the TCP stack: it asks
\* for bytes only when every beat of the transfer before has been taken, and
\* the beats it waits for are those of the latest transfer it asked for.  Were
\* it to ask early, a payload beat would be parsed as the next request line.
OneTransferAtATime ==
  /\ sm.state \in {"IDLE", "NOTIFICATION"} =>
       tcp_rx_req = <<>> /\ tcp_rx_rsp = <<>> /\ tcp_rx_data = <<>> /\ rx_left = 0
  /\ sm.state = "HANDSHAKE" =>
       \/ Len(tcp_rx_req) = 1 /\ tcp_rx_rsp = <<>> /\ tcp_rx_data = <<>> /\ rx_left = 0
       \/ tcp_rx_req = <<>> /\ Len(tcp_rx_rsp) = 1
  /\ sm.state \in {"DATA_HEADLINE", "DATA_PAYLOAD"} =>
       /\ tcp_rx_req = <<>> /\ tcp_rx_rsp = <<>>
       /\ Len(tcp_rx_data) + rx_left > 0
  /\ \A i \in 1 .. Len(tcp_rx_data) : tcp_rx_data[i].data.req = Len(served)

\* The TCP stack is asked for the bytes of every notification that announces
\* some, in the order of the notifications, and for nothing else: dropping the
\* zero-length ones neither loses nor reorders the others.  The i-th notification
\* is, if it announces bytes, the request with the number of those up to it.
NonEmpty(n) == n.length # 0
AnnouncedUpTo(s, i) == Cardinality({j \in 1 .. i : NonEmpty(s[j])})
readRequests ==
  [i \in 1 .. Len(served) |-> [sessionID |-> served[i].sessionID, length |-> served[i].length]]
    \o tcp_rx_req
ServedAsNotified ==
  \E noticed \in 0 .. Len(notified) :
    /\ Len(notified) = noticed + Len(tcp_notification)
    /\ \A i \in 1 .. Len(tcp_notification) : tcp_notification[i] = notified[noticed + i]
    /\ Len(readRequests) = AnnouncedUpTo(notified, noticed)
    /\ \A i \in 1 .. noticed :
         NonEmpty(notified[i]) => readRequests[AnnouncedUpTo(notified, i)] = notified[i]

\* The i-th request offered to the application is the one of the i-th transfer:
\* the method of its own request line, the session and the flags of its own
\* notification, although the registers that carry them are overwritten by the
\* next notification while earlier headlines are still queued.
RequestsMatchServed ==
  /\ Len(offeredRequests) <= Len(served)
  /\ \A i \in 1 .. Len(offeredRequests) : offeredRequests[i] = RequestFor(served[i])

(***************************************************************************)
(* The stages of the request pipeline, each holding the transfers next to  *)
(* those of the stage after it: the strengthening of RequestsMatchServed   *)
(* that every step preserves.                                              *)
(***************************************************************************)

\* Transfers that have reached the application, left headline_out, left
\* headline_parser, left headline_in.
taken  == Len(app.requests)
issued == taken + Len(http_request)
parsed == issued + Len(headline_out)
read   == parsed + (IF hp.state = "INPUT_READ" THEN 0 ELSE 1)
queued == read + Len(headline_in)

\* The TCP stack has accepted a transfer whose headline has not been read.
Awaited ==
  \/ sm.state = "HANDSHAKE" /\ tcp_rx_rsp # <<>>
  \/ sm.state = "DATA_HEADLINE"

\* The registers r hold the session and the flags of the transfer m.
MetaOf(r, m) ==
  /\ r.sessionID = m.sessionID
  /\ r.hasHeaders = AnnouncesHeaders(m.length)
  /\ r.hasBody = AnnouncesBody(m.length)

\* Every accepted transfer is in exactly one stage.
EveryTransferInOneStage == Len(served) = queued + (IF Awaited THEN 1 ELSE 0)

RequestsTaken  == \A i \in 1 .. taken : app.requests[i] = RequestFor(served[i])
RequestsIssued == \A i \in 1 .. Len(http_request) :
                    http_request[i] = RequestFor(served[taken + i])
HeadlinesOut   == \A i \in 1 .. Len(headline_out) :
                    /\ MetaOf(headline_out[i], served[issued + i])
                    /\ headline_out[i].method = method_parser(served[issued + i].line)
HeadlineHeld   ==
  hp.state # "INPUT_READ" =>
    /\ MetaOf(hp, served[parsed + 1])
    /\ IF hp.state = "PARSE_METHOD"
       THEN hp.line \in Data /\ hp.line.text = served[parsed + 1].line
       ELSE hp.method = method_parser(served[parsed + 1].line)
HeadlinesIn    == \A i \in 1 .. Len(headline_in) :
                    /\ MetaOf(headline_in[i], served[read + i])
                    /\ headline_in[i].line.text = served[read + i].line
RequestAwaited ==
  /\ Awaited => MetaOf(sm, served[Len(served)])
  /\ sm.state = "HANDSHAKE" /\ tcp_rx_req # <<>> => MetaOf(sm, tcp_rx_req[1])

\* The beats between the TCP stack and state_machine are the consecutive ones
\* just before those still to send, the first of them for the headline.
BeatsInFlight  ==
  /\ \A i \in 1 .. Len(tcp_rx_data) :
       tcp_rx_data[i] = LET m == served[Len(served)] IN
         BeatOf(m, Len(served), BeatCount(m.length) - rx_left - Len(tcp_rx_data) + i)
  /\ Awaited => Len(tcp_rx_data) + rx_left = BeatCount(served[Len(served)].length)
  /\ sm.state = "DATA_PAYLOAD" => served # <<>>

\* Every request stage holds its own consecutive run of transfers, with their
\* session, flags and method, and no transfer is in two stages or in none.
RequestPipeline ==
  /\ EveryTransferInOneStage
  /\ RequestsTaken /\ RequestsIssued /\ HeadlinesOut
  /\ HeadlineHeld /\ HeadlinesIn /\ RequestAwaited /\ BeatsInFlight

\* The component implements RequestDelivery: the three offered streams follow
\* the transfers, nothing lost, duplicated, reordered or moved between streams.
Delivery == INSTANCE RequestDelivery
              WITH requests <- offeredRequests, headers <- offeredHeaders, body <- offeredBody
RefinesDelivery == Delivery!DSpec

\* A request that announces headers (a body) is followed by the beat of headers
\* (the last beat of body) of its own transfer: an application that waits for
\* what hasHeaders and hasBody announce is never left waiting.
PromisedPayloadArrives ==
  []<>\A i \in DOMAIN app.requests :
        /\ app.requests[i].hasHeaders => \E j \in DOMAIN app.headers : app.headers[j].data.req = i
        /\ app.requests[i].hasBody =>
             \E j \in DOMAIN app.body : app.body[j].data.req = i /\ app.body[j].last

\* The requests of the application always catch up with the notifications that
\* announce bytes, whatever the application and the other streams do meanwhile.
EveryNotificationAnswered == []<>(Len(app.requests) = Len(SelectSeq(notified, NonEmpty)))
=============================================================================
