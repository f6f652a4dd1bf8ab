------------------------- MODULE HealthCheckProofs --------------------------
(***************************************************************************)
(* Theorems about HealthCheck, the whole server with an application, for   *)
(* every word size, every set of sessions, lengths and lines, every FIFO   *)
(* depth and any number of notifications.  The request path is that of     *)
(* RequestProcessorProofs, whose inductive invariant the server keeps.     *)
(***************************************************************************)
EXTENDS HealthCheck, RequestPayloadProofs

(***************************************************************************)
(* The inductive invariant: the types of the application and of what it    *)
(* writes ...                                                              *)
(***************************************************************************)

ServerFifosOK ==
  /\ IsFifo(http_response, Tx!Response, PortDepth)
  /\ IsFifo(http_response_headers, Tx!Word, PortDepth)
  /\ IsFifo(http_response_body, Tx!Word, PortDepth)
ConsumeOK == consume \in [headers : BOOLEAN, body : BOOLEAN] /\ ~(consume.headers /\ consume.body)
ProduceOK == produce \in [rsp : Nat \ {0}, word : 1 .. 3]
TxOK ==
  /\ tx_sm \in [state : Tx!SmStates, app_response : Tx!Response \cup {Unset}]
  /\ tcp_tx_req \in Seq(Tx!TxRequest)
  /\ tcp_tx_rsp \in Seq(Tx!TxAnswer)
  /\ settled \in Seq([sessionID : Sessions, length : Nat, outcome : {"accepted", "closed"}])

(***************************************************************************)
(* ... and the answers, each with the session of the request it answers,   *)
(* from process_notify to the TCP stack.                                   *)
(***************************************************************************)

\* The answer the response path works on, the last it has read.
answering == Len(app.requests) - Len(http_response)

AnswersWaiting ==
  /\ Len(http_response) <= Len(app.requests)
  /\ \A i \in 1 .. Len(http_response) :
       http_response[i].sessionID = served[answering + i].sessionID

AnswerInWork ==
  tx_sm.state # "IDLE" =>
    /\ answering > 0
    /\ tx_sm.app_response \in Tx!Response
    /\ tx_sm.app_response.sessionID = served[answering].sessionID

\* At most one answer is asked for, or answered and not yet looked at.
OneAnswerAsked ==
  /\ tx_sm.state = "TCP_REQ" =>
       tcp_tx_req = <<>> /\ tcp_tx_rsp = <<>> /\ Len(settled) = answering - 1
  /\ tx_sm.state = "TCP_RSP" =>
       \/ /\ Len(tcp_tx_req) = 1 /\ tcp_tx_rsp = <<>> /\ Len(settled) = answering - 1
          /\ tcp_tx_req[1].sessionID = served[answering].sessionID
       \/ /\ tcp_tx_req = <<>> /\ Len(tcp_tx_rsp) = 1
          /\ Len(settled) = IF tcp_tx_rsp[1].error < 2 THEN answering ELSE answering - 1
  /\ tx_sm.state \notin {"TCP_REQ", "TCP_RSP"} =>
       tcp_tx_req = <<>> /\ tcp_tx_rsp = <<>> /\ Len(settled) = answering

AnswersSettled ==
  \A i \in 1 .. Len(settled) : settled[i].sessionID = served[i].sessionID

AnswerInv == AnswersWaiting /\ AnswerInWork /\ OneAnswerAsked /\ AnswersSettled

ServerInv ==
  /\ IInv
  /\ ServerFifosOK /\ ConsumeOK /\ ProduceOK /\ TxOK
  /\ AnswerInv

-----------------------------------------------------------------------------
(***************************************************************************)
(* Words and records                                                       *)
(***************************************************************************)

\* The response process_notify makes is one of the response path.
LEMMA ResponseToType ==
  ASSUME NEW session \in Sessions
  PROVE  ResponseTo(session) \in Tx!Response /\ ResponseTo(session).sessionID = session
BY DEF ResponseTo, Tx!Response

\* The two words of headers and the word of body are words of the response path.
LEMMA WordCountNat == ASSUME NEW size \in Nat PROVE Tx!WordCount(size) \in Nat
<1> DEFINE sum == size + WordBytes - 1
<1>1. sum \in Nat
  BY WordBytesAssumption
<1> HIDE DEF sum
<1>2. sum \div WordBytes \in Nat
  BY <1>1, WordBytesAssumption
<1> QED BY <1>2 DEF Tx!WordCount, sum

\* A word of either part is a word of the response path.
LEMMA WrittenWordType ==
  ASSUME NEW n \in Nat, NEW part \in {"headers", "body"}, NEW size \in Nat, NEW k \in {1, 2},
         size >= (k - 1) * WordBytes
  PROVE  Tx!WordOf(n, part, k, size) \in Tx!Word
<1> DEFINE full == (k - 1) * WordBytes
<1>1. full \in Nat
  BY WordBytesAssumption
<1> HIDE DEF full
<1>2. (IF k < Tx!WordCount(size) THEN WordBytes ELSE size - full) \in Nat
  BY <1>1, WordBytesAssumption DEF full
<1>3. k \in Nat
  OBVIOUS
<1> QED BY <1>2, <1>3 DEF Tx!WordOf, Tx!Word, Tx!Parts, full

\* The length that is announced is a natural number.
LEMMA AnnouncedNat == ASSUME NEW r \in Tx!Response PROVE Tx!Announced(r) \in Nat
<1> DEFINE sum == r.body_size + r.headers_size + 2
<1>1. sum \in Nat
  <2>1. r.body_size \in Nat /\ r.headers_size \in Nat
    BY SizesAssumption, WordBytesAssumption DEF Tx!Response
  <2> QED BY <2>1
<1> HIDE DEF sum
<1>2. sum % LengthValues \in Nat
  BY <1>1, InnerAssumption
<1> QED BY <1>2 DEF Tx!Announced, sum

-----------------------------------------------------------------------------
(***************************************************************************)
(* What every step starts from                                             *)
(***************************************************************************)

\* The parts of the invariant, and the order of the counts that follows from them.
LEMMA ServerFacts ==
  ASSUME ServerInv
  PROVE  /\ IInv /\ ServerFifosOK /\ ConsumeOK /\ ProduceOK /\ TxOK
         /\ AnswersWaiting /\ AnswerInWork /\ OneAnswerAsked /\ AnswersSettled
         /\ http_response \in Seq(Tx!Response) /\ Len(http_response) \in Nat
         /\ app.requests \in Seq(Request) /\ Len(app.requests) \in Nat
         /\ served \in Seq(Transfer) /\ Len(served) \in Nat
         /\ Len(app.requests) <= Len(served)
         /\ answering \in 0 .. Len(app.requests) /\ Len(settled) \in 0 .. answering
<1>1. /\ IInv /\ ServerFifosOK /\ ConsumeOK /\ ProduceOK /\ TxOK
      /\ AnswersWaiting /\ AnswerInWork /\ OneAnswerAsked /\ AnswersSettled
  BY DEF ServerInv, AnswerInv
<1>2. /\ http_response \in Seq(Tx!Response) /\ Len(http_response) \in Nat
      /\ app.requests \in Seq(Request) /\ Len(app.requests) \in Nat
      /\ served \in Seq(Transfer) /\ Len(served) \in Nat
  BY <1>1, IInvFacts DEF ServerFifosOK, IsFifo, EnvironmentOK
<1>3. Len(app.requests) <= Len(served)
  <2>1. Len(offeredRequests) <= Len(served)
    BY <1>1, OfferedRequests DEF RequestsMatchServed
  <2>2. http_request \in Seq(Request)
    BY <1>1, IInvFacts DEF AppFifosOK, IsFifo
  <2>3. Len(offeredRequests) = Len(app.requests) + Len(http_request) /\ Len(http_request) \in Nat
    BY <1>2, <2>2 DEF offeredRequests
  <2> QED BY <1>2, <2>1, <2>3
<1>4. answering \in 0 .. Len(app.requests)
  BY <1>1, <1>2 DEF answering, AnswersWaiting
<1>5. Len(settled) \in Nat
  BY <1>1 DEF TxOK
<1>6. Len(settled) <= answering
  <2>1. CASE tx_sm.state = "TCP_REQ"
    BY <1>1, <1>4, <1>5, <2>1 DEF OneAnswerAsked
  <2>2. CASE tx_sm.state = "TCP_RSP"
    BY <1>1, <1>4, <1>5, <2>2 DEF OneAnswerAsked
  <2>3. CASE tx_sm.state \notin {"TCP_REQ", "TCP_RSP"}
    BY <1>1, <1>4, <1>5, <2>3 DEF OneAnswerAsked
  <2> QED BY <2>1, <2>2, <2>3
<1> QED BY <1>1, <1>2, <1>3, <1>4, <1>5, <1>6

\* A step that neither takes a request nor moves an answer leaves the answers
\* right: the transfers they were made for stay what they are.
LEMMA AnswersFrame ==
  ASSUME ServerInv,
         app'.requests = app.requests,
         \A i \in 1 .. Len(served) : served'[i] = served[i],
         http_response' = http_response, tx_sm' = tx_sm, settled' = settled,
         tcp_tx_req' = tcp_tx_req, tcp_tx_rsp' = tcp_tx_rsp
  PROVE  AnswerInv'
<1>1. answering' = answering
  BY DEF answering
<1>2. \A i \in 1 .. Len(app.requests) : served'[i] = served[i]
  BY ServerFacts
<1>3. AnswersWaiting'
  <2>1. \A i \in 1 .. Len(http_response) : answering + i \in 1 .. Len(app.requests)
    BY ServerFacts DEF answering
  <2> QED BY <1>1, <1>2, <2>1, ServerFacts DEF AnswersWaiting
<1>4. AnswerInWork'
  <2>1. answering > 0 => answering \in 1 .. Len(app.requests)
    BY ServerFacts
  <2> QED BY <1>1, <1>2, <2>1, ServerFacts DEF AnswerInWork
<1>5. OneAnswerAsked'
  <2>1. tx_sm.state = "TCP_RSP" => answering \in 1 .. Len(app.requests)
    BY ServerFacts DEF AnswerInWork
  <2> QED BY <1>1, <1>2, <2>1, ServerFacts DEF OneAnswerAsked
<1>6. AnswersSettled'
  <2>1. \A i \in 1 .. Len(settled) : i \in 1 .. Len(app.requests)
    BY ServerFacts
  <2> QED BY <1>2, <2>1, ServerFacts DEF AnswersSettled
<1> QED BY <1>3, <1>4, <1>5, <1>6 DEF AnswerInv

-----------------------------------------------------------------------------
(***************************************************************************)
(* Each step preserves the invariant.                                      *)
(***************************************************************************)

\* The server starts with every FIFO empty and nothing asked.
LEMMA ServerInitially == ServerInit => ServerInv
<1> SUFFICES ASSUME ServerInit PROVE ServerInv
  OBVIOUS
<1>1. IInv
  BY TypeInit, OrderInit DEF ServerInit, IInv
<1>2. ServerFifosOK /\ ConsumeOK /\ ProduceOK /\ TxOK
  <2>1. <<>> \in Seq(Tx!Response) /\ <<>> \in Seq(Tx!Word) /\ Len(<<>>) <= PortDepth
    BY DepthAssumption
  <2>2. ServerFifosOK
    BY <2>1 DEF ServerInit, ServerFifosOK, IsFifo
  <2>3. ConsumeOK /\ ProduceOK
    BY DEF ServerInit, ConsumeOK, ProduceOK
  <2>4. TxOK
    BY DEF ServerInit, TxOK, Tx!SmStates
  <2> QED BY <2>2, <2>3, <2>4
<1>3. AnswerInv
  <2>1. /\ app.requests = <<>> /\ http_response = <<>> /\ settled = <<>>
        /\ tcp_tx_req = <<>> /\ tcp_tx_rsp = <<>> /\ tx_sm.state = "IDLE"
    BY DEF ServerInit, Init
  <2> QED BY <2>1
      DEF AnswerInv, AnswersWaiting, AnswerInWork, OneAnswerAsked, AnswersSettled, answering
<1> QED BY <1>1, <1>2, <1>3 DEF ServerInv

\* The steps of the request path, the consumption of headers and bodies.
LEMMA RxServerStep ==
  ASSUME ServerInv, RxOther, UNCHANGED <<txVars, produce>>, ConsumeOK'
  PROVE  ServerInv'
<1>1. IInv
  BY ServerFacts
<1>2. /\ [Next]_vars /\ app'.requests = app.requests
      /\ \A i \in 1 .. Len(served) : served'[i] = served[i]
  BY <1>1, RxFrame
<1>3. /\ http_response' = http_response /\ http_response_headers' = http_response_headers
      /\ http_response_body' = http_response_body /\ produce' = produce
      /\ tx_sm' = tx_sm /\ settled' = settled
      /\ tcp_tx_req' = tcp_tx_req /\ tcp_tx_rsp' = tcp_tx_rsp
  BY DEF txVars
<1>4. IInv'
  BY <1>1, <1>2, RxKept
<1>5. ServerFifosOK' /\ ProduceOK' /\ TxOK'
  BY <1>3, ServerFacts DEF ServerFifosOK, ProduceOK, TxOK
<1>6. AnswerInv'
  BY <1>2, <1>3, AnswersFrame
<1> QED BY <1>4, <1>5, <1>6 DEF ServerInv

\* The two loops of consume_request do not end together without starting again.
LEMMA ConsumedType ==
  ASSUME ConsumeOK, NEW part \in {"headers", "body"}, NEW last \in BOOLEAN
  PROVE  /\ Consumed(part, last) \in [headers : BOOLEAN, body : BOOLEAN]
         /\ ~(Consumed(part, last).headers /\ Consumed(part, last).body)
BY DEF ConsumeOK, Consumed

\* consume_request takes a beat of headers, or one of body.
LEMMA ConsumeHeadersKeeps == ASSUME ServerInv, ConsumeHeaders PROVE ServerInv'
<1>1. Head(http_request_headers).last \in BOOLEAN
  <2>1. http_request_headers \in Seq(Beat) /\ http_request_headers # <<>>
    BY ServerFacts, IInvFacts DEF AppFifosOK, IsFifo, ConsumeHeaders, AppHeaders, CanRead
  <2>2. Head(http_request_headers) \in Beat
    BY <2>1
  <2> QED BY <2>2 DEF Beat
<1>2. ConsumeOK'
  BY <1>1, ConsumedType, ServerFacts DEF ConsumeHeaders, ConsumeOK
<1> QED BY <1>2, RxServerStep DEF ConsumeHeaders, RxOther

\* ... or one of body.
LEMMA ConsumeBodyKeeps == ASSUME ServerInv, ConsumeBody PROVE ServerInv'
<1>1. Head(http_request_body).last \in BOOLEAN
  <2>1. http_request_body \in Seq(Beat) /\ http_request_body # <<>>
    BY ServerFacts, IInvFacts DEF AppFifosOK, IsFifo, ConsumeBody, AppBody, CanRead
  <2>2. Head(http_request_body) \in Beat
    BY <2>1
  <2> QED BY <2>2 DEF Beat
<1>2. ConsumeOK'
  BY <1>1, ConsumedType, ServerFacts DEF ConsumeBody, ConsumeOK
<1> QED BY <1>2, RxServerStep DEF ConsumeBody, RxOther

\* process_notify takes a request and makes the response for its session.
LEMMA ProcessNotifyKeeps == ASSUME ServerInv, ProcessNotify PROVE ServerInv'
<1> DEFINE session == Head(http_request).meta.sessionID
<1>1. IInv /\ AppRequest
  BY ServerFacts DEF ProcessNotify
<1>2. /\ [Next]_vars /\ served' = served
      /\ app'.requests = Append(app.requests, Head(http_request))
      /\ Len(app.requests) + 1 \in 1 .. Len(served)
      /\ session = served[Len(app.requests) + 1].sessionID /\ session \in Sessions
  BY <1>1, RequestTaken
<1>3. /\ http_response' = Append(http_response, ResponseTo(session))
      /\ CanWrite(http_response, PortDepth)
      /\ http_response_headers' = http_response_headers
      /\ http_response_body' = http_response_body /\ consume' = consume /\ produce' = produce
      /\ tx_sm' = tx_sm /\ settled' = settled
      /\ tcp_tx_req' = tcp_tx_req /\ tcp_tx_rsp' = tcp_tx_rsp
  BY DEF ProcessNotify
<1> HIDE DEF session
<1>4. ResponseTo(session) \in Tx!Response /\ ResponseTo(session).sessionID = session
  BY <1>2, ResponseToType
<1>5. IInv'
  BY <1>1, <1>2, RxKept
<1>6. ServerFifosOK' /\ ConsumeOK' /\ ProduceOK' /\ TxOK'
  <2>1. IsFifo(http_response', Tx!Response, PortDepth)
    BY <1>3, <1>4, FifoAppend, DepthAssumption, ServerFacts DEF ServerFifosOK
  <2> QED BY <1>3, <2>1, ServerFacts DEF ServerFifosOK, ConsumeOK, ProduceOK, TxOK
<1>7. /\ Len(app'.requests) = Len(app.requests) + 1
      /\ Len(http_response') = Len(http_response) + 1
      /\ \A i \in 1 .. Len(http_response) : http_response'[i] = http_response[i]
      /\ http_response'[Len(http_response) + 1] = ResponseTo(session)
  BY <1>2, <1>3, AppendFacts, ServerFacts
<1>8. answering' = answering
  BY <1>7, ServerFacts DEF answering
<1>9. AnswersWaiting'
  <2>1. answering + (Len(http_response) + 1) = Len(app.requests) + 1
    <3>1. \A a, b \in Nat : (a - b) + (b + 1) = a + 1
      OBVIOUS
    <3> QED BY <3>1, ServerFacts DEF answering
  <2>2. ASSUME NEW i \in 1 .. Len(http_response) + 1
        PROVE  http_response'[i].sessionID = served[answering + i].sessionID
    <3>1. CASE i \in 1 .. Len(http_response)
      BY <1>7, <3>1, ServerFacts DEF AnswersWaiting
    <3>2. CASE i = Len(http_response) + 1
      BY <1>2, <1>4, <1>7, <2>1, <3>2
    <3> QED BY <2>2, <3>1, <3>2, ServerFacts
  <2> QED BY <1>2, <1>7, <1>8, <2>2, ServerFacts DEF AnswersWaiting
<1>10. AnswerInWork' /\ OneAnswerAsked' /\ AnswersSettled'
  BY <1>2, <1>3, <1>8, ServerFacts DEF AnswerInWork, OneAnswerAsked, AnswersSettled
<1> QED BY <1>5, <1>6, <1>9, <1>10 DEF ServerInv, AnswerInv

\* A step that leaves the request path alone keeps its invariant.
LEMMA RxIdle == ASSUME ServerInv, UNCHANGED rxVars
                PROVE  /\ IInv' /\ app' = app /\ served' = served
<1>1. UNCHANGED vars
  BY DEF rxVars
<1>2. app' = app /\ served' = served
  BY <1>1 DEF vars, tcpStack
<1> QED BY <1>1, <1>2, RxKept, ServerFacts

\* produce_response writes its words, whatever the requests do.
LEMMA ProduceKeeps == ASSUME ServerInv, ProduceResponse PROVE ServerInv'
<1>1. /\ IInv' /\ app' = app /\ served' = served
      /\ http_response' = http_response /\ consume' = consume /\ tx_sm' = tx_sm
      /\ settled' = settled /\ tcp_tx_req' = tcp_tx_req /\ tcp_tx_rsp' = tcp_tx_rsp
  BY RxIdle DEF ProduceResponse, ProduceHeaders, ProduceBody
<1>2. ConsumeOK' /\ TxOK'
  BY <1>1, ServerFacts DEF ConsumeOK, TxOK
<1>3. ServerFifosOK' /\ ProduceOK'
  <2> USE DepthAssumption
  <2>1. produce.rsp \in Nat \ {0} /\ produce.word \in 1 .. 3
    BY ServerFacts DEF ProduceOK
  <2>2. CASE ProduceHeaders
    <3>1. HeadersWord(produce.word) \in Tx!Word
      <4>1. headers_size \in Nat /\ headers_size >= (produce.word - 1) * WordBytes
        BY <2>2, SizesAssumption, WordBytesAssumption DEF ProduceHeaders
      <4> QED BY <2>1, <2>2, <4>1, WrittenWordType DEF HeadersWord, ProduceHeaders
    <3>2. IsFifo(http_response_headers', Tx!Word, PortDepth)
      BY <2>2, <3>1, FifoAppend, ServerFacts DEF ProduceHeaders, ServerFifosOK
    <3>3. http_response_body' = http_response_body
      BY <2>2 DEF ProduceHeaders
    <3>4. ProduceOK'
      BY SMTT(30), <2>1, <2>2, ServerFacts DEF ProduceHeaders, ProduceOK
    <3> QED BY <1>1, <3>2, <3>3, <3>4, ServerFacts DEF ServerFifosOK
  <2>3. CASE ProduceBody
    <3>1. Tx!WordOf(produce.rsp, "body", 1, body_size) \in Tx!Word
      <4>1. body_size \in Nat /\ body_size >= (1 - 1) * WordBytes
        BY SizesAssumption, WordBytesAssumption
      <4> QED BY <2>1, <4>1, WrittenWordType
    <3>2. IsFifo(http_response_body', Tx!Word, PortDepth)
      BY <2>3, <3>1, FifoAppend, ServerFacts DEF ProduceBody, ServerFifosOK
    <3>3. http_response_headers' = http_response_headers
      BY <2>3 DEF ProduceBody
    <3>4. ProduceOK'
      BY <2>1, <2>3, ServerFacts DEF ProduceBody, ProduceOK
    <3> QED BY <1>1, <3>2, <3>3, <3>4, ServerFacts DEF ServerFifosOK
  <2> QED BY <2>2, <2>3 DEF ProduceResponse
<1>4. AnswerInv'
  BY <1>1, AnswersFrame
<1> QED BY <1>1, <1>2, <1>3, <1>4 DEF ServerInv

-----------------------------------------------------------------------------
(***************************************************************************)
(* The response path                                                       *)
(***************************************************************************)

\* What the steps of the response path leave alone.
TxOther == /\ UNCHANGED <<rxVars, consume, produce>>
           /\ IsFifo(http_response_headers', Tx!Word, PortDepth)
           /\ IsFifo(http_response_body', Tx!Word, PortDepth)

\* What such a step leaves as it is.
LEMMA TxFrame ==
  ASSUME ServerInv, TxOther
  PROVE  /\ IInv' /\ ConsumeOK' /\ ProduceOK'
         /\ app' = app /\ served' = served
         /\ (IsFifo(http_response', Tx!Response, PortDepth) => ServerFifosOK')
         /\ (http_response' = http_response => answering' = answering /\ AnswersWaiting' /\ ServerFifosOK')
<1>1. IInv' /\ app' = app /\ served' = served /\ consume' = consume /\ produce' = produce
  BY RxIdle DEF TxOther
<1>2. IsFifo(http_response', Tx!Response, PortDepth) => ServerFifosOK'
  BY DEF TxOther, ServerFifosOK
<1>3. http_response' = http_response => answering' = answering /\ AnswersWaiting' /\ ServerFifosOK'
  BY <1>1, <1>2, ServerFacts DEF answering, AnswersWaiting, ServerFifosOK
<1> QED BY <1>1, <1>2, <1>3, ServerFacts DEF ConsumeOK, ProduceOK

\* The steps that touch neither the answer in work nor the exchange with the
\* TCP stack, or only pass from one part of a packet to another.
PacketStates == Tx!SmStates \ {"TCP_REQ", "TCP_RSP"}

\* Such a step keeps the invariant.
LEMMA TxPacketStep ==
  ASSUME ServerInv, TxOther,
         http_response' = http_response, settled' = settled,
         tcp_tx_req' = tcp_tx_req, tcp_tx_rsp' = tcp_tx_rsp,
         \/ tx_sm' = tx_sm
         \/ \E state \in PacketStates :
              /\ tx_sm' = [tx_sm EXCEPT !.state = state]
              /\ tx_sm.state \in PacketStates \ {"IDLE"}
  PROVE  ServerInv'
<1>1. /\ IInv' /\ ConsumeOK' /\ ProduceOK' /\ ServerFifosOK' /\ AnswersWaiting'
      /\ app' = app /\ served' = served /\ answering' = answering
  BY TxFrame
<1>2. CASE tx_sm' = tx_sm
  <2>1. TxOK'
    BY <1>2, ServerFacts DEF TxOK
  <2>2. AnswerInv'
    BY <1>1, <1>2, AnswersFrame
  <2> QED BY <1>1, <2>1, <2>2 DEF ServerInv
<1>3. ASSUME NEW state \in PacketStates,
             tx_sm' = [tx_sm EXCEPT !.state = state], tx_sm.state \in PacketStates \ {"IDLE"}
      PROVE  ServerInv'
  <2>1. /\ tx_sm'.state = state /\ tx_sm'.app_response = tx_sm.app_response
        /\ tx_sm' \in [state : Tx!SmStates, app_response : Tx!Response \cup {Unset}]
    BY <1>3, ServerFacts DEF TxOK, PacketStates
  <2>2. TxOK'
    BY <2>1, ServerFacts DEF TxOK
  <2>3. AnswerInWork'
    BY <1>1, <1>3, <2>1, ServerFacts DEF AnswerInWork, PacketStates
  <2>4. OneAnswerAsked' /\ AnswersSettled'
    BY <1>1, <1>3, <2>1, ServerFacts DEF OneAnswerAsked, AnswersSettled, PacketStates
  <2> QED BY <1>1, <2>2, <2>3, <2>4 DEF ServerInv, AnswerInv
<1> QED BY <1>2, <1>3

\* The FIFOs of words are left alone or lose their head.
LEMMA WordFifos ==
  ASSUME ServerInv, UNCHANGED <<rxVars, consume, produce>>,
         \/ http_response_headers' = http_response_headers
         \/ CanRead(http_response_headers) /\ http_response_headers' = Tail(http_response_headers),
         \/ http_response_body' = http_response_body
         \/ CanRead(http_response_body) /\ http_response_body' = Tail(http_response_body)
  PROVE  TxOther
<1> USE DepthAssumption
<1>1. IsFifo(http_response_headers', Tx!Word, PortDepth)
  BY FifoTail, ServerFacts DEF ServerFifosOK
<1>2. IsFifo(http_response_body', Tx!Word, PortDepth)
  BY FifoTail, ServerFacts DEF ServerFifosOK
<1> QED BY <1>1, <1>2 DEF TxOther

\* state_machine reads the next answer.
LEMMA TxSmIdleKeeps == ASSUME ServerInv, TxStep(Tx!SmIdle) PROVE ServerInv'
<1>1. /\ tx_sm.state = "IDLE" /\ http_response # <<>>
      /\ tx_sm' = [state |-> "TCP_REQ", app_response |-> Head(http_response)]
      /\ http_response' = Tail(http_response)
      /\ settled' = settled /\ tcp_tx_req' = tcp_tx_req /\ tcp_tx_rsp' = tcp_tx_rsp
  BY DEF TxStep, Tx!SmIdle, Tx!CanRead, Tx!tcpFifos, Tx!outside
<1>2. TxOther
  BY WordFifos DEF TxStep, Tx!SmIdle
<1>3. IInv' /\ ConsumeOK' /\ ProduceOK' /\ app' = app /\ served' = served
  BY <1>2, TxFrame
<1>4. /\ Len(http_response) \in Nat \ {0} /\ Head(http_response) = http_response[1]
      /\ http_response[1] \in Tx!Response
      /\ Len(http_response') = Len(http_response) - 1
      /\ \A i \in 1 .. Len(http_response) - 1 : http_response'[i] = http_response[i + 1]
  BY <1>1, TailFacts, ServerFacts
<1>5. ServerFifosOK'
  <2>1. IsFifo(http_response', Tx!Response, PortDepth)
    BY <1>1, FifoTail, ServerFacts, DepthAssumption DEF ServerFifosOK, CanRead
  <2> QED BY <1>2, <2>1, TxFrame
<1>6. answering' = answering + 1
  <2>1. Len(app.requests) \in Nat
    BY ServerFacts
  <2> QED BY <1>3, <1>4, <2>1 DEF answering
<1>7. answering \in Nat /\ Len(settled) = answering /\ tcp_tx_req = <<>> /\ tcp_tx_rsp = <<>>
  BY <1>1, ServerFacts DEF OneAnswerAsked
<1>8. TxOK'
  <2>1. tx_sm' \in [state : Tx!SmStates, app_response : Tx!Response \cup {Unset}]
    BY <1>1, <1>4 DEF Tx!SmStates
  <2> QED BY <1>1, <2>1, ServerFacts DEF TxOK
<1>9. AnswersWaiting'
  <2>1. Len(http_response') <= Len(app'.requests)
    BY <1>3, <1>4, ServerFacts DEF AnswersWaiting
  <2>2. ASSUME NEW i \in 1 .. Len(http_response) - 1
        PROVE  http_response'[i].sessionID = served'[answering' + i].sessionID
    <3>1. http_response[i + 1].sessionID = served[answering + (i + 1)].sessionID
      BY <1>4, ServerFacts DEF AnswersWaiting
    <3>2. answering' + i = answering + (i + 1)
      BY <1>4, <1>6, <1>7
    <3> QED BY <1>3, <1>4, <3>1, <3>2
  <2> QED BY <1>4, <2>1, <2>2 DEF AnswersWaiting
<1>10. AnswerInWork'
  <2>1. http_response[1].sessionID = served[answering + 1].sessionID
    BY <1>4, ServerFacts DEF AnswersWaiting
  <2> QED BY <1>1, <1>3, <1>4, <1>6, <1>7, <2>1 DEF AnswerInWork
<1>11. OneAnswerAsked' /\ AnswersSettled'
  BY <1>1, <1>3, <1>6, <1>7, ServerFacts DEF OneAnswerAsked, AnswersSettled
<1> QED BY <1>3, <1>5, <1>8, <1>9, <1>10, <1>11 DEF ServerInv, AnswerInv

\* state_machine asks for the answer in work.
LEMMA TxSmTcpReqKeeps == ASSUME ServerInv, TxStep(Tx!SmTcpReq) PROVE ServerInv'
<1> DEFINE asked == [sessionID |-> tx_sm.app_response.sessionID,
                     length    |-> Tx!Announced(tx_sm.app_response)]
<1>1. /\ tx_sm.state = "TCP_REQ" /\ tx_sm' = [tx_sm EXCEPT !.state = "TCP_RSP"]
      /\ tcp_tx_req' = Append(tcp_tx_req, asked)
      /\ http_response' = http_response /\ settled' = settled /\ tcp_tx_rsp' = tcp_tx_rsp
  BY DEF TxStep, Tx!SmTcpReq, Tx!appFifos, Tx!outside
<1>2. TxOther
  BY WordFifos DEF TxStep, Tx!SmTcpReq, Tx!appFifos
<1>3. /\ IInv' /\ ConsumeOK' /\ ProduceOK' /\ ServerFifosOK' /\ AnswersWaiting'
      /\ app' = app /\ served' = served /\ answering' = answering
  BY <1>1, <1>2, TxFrame
<1>4. /\ answering > 0 /\ tx_sm.app_response \in Tx!Response
      /\ tx_sm.app_response.sessionID = served[answering].sessionID
      /\ tcp_tx_req = <<>> /\ tcp_tx_rsp = <<>> /\ Len(settled) = answering - 1
  BY <1>1, ServerFacts DEF AnswerInWork, OneAnswerAsked
<1>5. asked \in Tx!TxRequest /\ asked.sessionID = served[answering].sessionID
  BY <1>4, AnnouncedNat DEF Tx!TxRequest, Tx!Response
<1> HIDE DEF asked
<1>6. /\ tx_sm'.state = "TCP_RSP" /\ tx_sm'.app_response = tx_sm.app_response
      /\ tx_sm' \in [state : Tx!SmStates, app_response : Tx!Response \cup {Unset}]
  BY <1>1, ServerFacts DEF TxOK, Tx!SmStates
<1>7. tcp_tx_req' = <<asked>> /\ tcp_tx_req' \in Seq(Tx!TxRequest)
  BY <1>1, <1>4, <1>5
<1>8. TxOK'
  BY <1>1, <1>6, <1>7, ServerFacts DEF TxOK
<1>9. AnswerInWork'
  BY <1>3, <1>4, <1>6 DEF AnswerInWork
<1>10. OneAnswerAsked' /\ AnswersSettled'
  <2>1. Len(tcp_tx_req') = 1 /\ tcp_tx_req'[1] = asked
    BY <1>7
  <2> QED BY <1>1, <1>3, <1>4, <1>5, <1>6, <2>1, ServerFacts DEF OneAnswerAsked, AnswersSettled
<1> QED BY <1>3, <1>8, <1>9, <1>10 DEF ServerInv, AnswerInv

\* The TCP stack accepts or refuses the answer, or puts it off.
LEMMA TxTcpSettleKeeps == ASSUME ServerInv, TxTcpSettle PROVE ServerInv'
<1>1. /\ tcp_tx_req # <<>> /\ tcp_tx_req' = Tail(tcp_tx_req) /\ tx_sm' = tx_sm
      /\ http_response' = http_response
      /\ \E error \in {0, 1} :
           /\ tcp_tx_rsp' = Append(tcp_tx_rsp, [sessionID |-> Head(tcp_tx_req).sessionID, error |-> error])
           /\ settled' = Append(settled, [sessionID |-> Head(tcp_tx_req).sessionID,
                                          length |-> Head(tcp_tx_req).length,
                                          outcome |-> IF error = 0 THEN "accepted" ELSE "closed"])
  BY DEF TxTcpSettle, TxStep, Tx!TcpSettle, Tx!CanRead, Tx!appFifos
<1>2. TxOther
  BY WordFifos DEF TxTcpSettle, TxStep, Tx!TcpSettle, Tx!appFifos
<1>3. /\ IInv' /\ ConsumeOK' /\ ProduceOK' /\ ServerFifosOK' /\ AnswersWaiting'
      /\ app' = app /\ served' = served /\ answering' = answering
  BY <1>1, <1>2, TxFrame
<1>4. /\ tx_sm.state = "TCP_RSP" /\ Len(tcp_tx_req) = 1 /\ tcp_tx_rsp = <<>>
      /\ Len(settled) = answering - 1 /\ tcp_tx_req[1].sessionID = served[answering].sessionID
  BY <1>1, ServerFacts DEF OneAnswerAsked
<1>5. /\ Head(tcp_tx_req) = tcp_tx_req[1] /\ tcp_tx_req[1] \in Tx!TxRequest
      /\ tcp_tx_req' = <<>> /\ settled \in Seq([sessionID : Sessions, length : Nat, outcome : {"accepted", "closed"}])
  BY <1>1, <1>4, TailFacts, ServerFacts DEF TxOK
<1> DEFINE req == tcp_tx_req[1]
<1>6. PICK error \in {0, 1} :
        /\ tcp_tx_rsp' = <<[sessionID |-> req.sessionID, error |-> error]>>
        /\ settled' = Append(settled, [sessionID |-> req.sessionID, length |-> req.length,
                                       outcome |-> IF error = 0 THEN "accepted" ELSE "closed"])
  BY <1>1, <1>4, <1>5
<1>7. req.sessionID \in Sessions /\ req.length \in Nat /\ req.sessionID = served[answering].sessionID
  BY <1>4, <1>5 DEF Tx!TxRequest
<1> HIDE DEF req
<1>8. Len(settled') = answering /\ \A i \in 1 .. answering : settled'[i].sessionID = served[i].sessionID
  <2>1. /\ Len(settled') = Len(settled) + 1
        /\ \A i \in 1 .. Len(settled) : settled'[i] = settled[i]
        /\ settled'[Len(settled) + 1].sessionID = req.sessionID
    BY <1>5, <1>6, AppendFacts
  <2>2. Len(settled) + 1 = answering
    BY <1>4, ServerFacts
  <2>3. ASSUME NEW i \in 1 .. answering PROVE settled'[i].sessionID = served[i].sessionID
    <3>1. CASE i \in 1 .. Len(settled)
      BY <2>1, <3>1, ServerFacts DEF AnswersSettled
    <3>2. CASE i = answering
      BY <1>7, <2>1, <2>2, <3>2
    <3> QED BY <1>4, <3>1, <3>2, ServerFacts
  <2> QED BY <2>1, <2>2, <2>3
<1>9. TxOK'
  <2>1. tcp_tx_rsp' \in Seq(Tx!TxAnswer)
    <3>1. [sessionID |-> req.sessionID, error |-> error] \in Tx!TxAnswer
      BY <1>7 DEF Tx!TxAnswer
    <3> QED BY <1>6, <3>1
  <2>2. settled' \in Seq([sessionID : Sessions, length : Nat, outcome : {"accepted", "closed"}])
    BY <1>5, <1>6, <1>7
  <2>3. tcp_tx_req' \in Seq(Tx!TxRequest)
    BY <1>5
  <2> QED BY <1>1, <2>1, <2>2, <2>3, ServerFacts DEF TxOK
<1>10. AnswerInWork'
  BY <1>1, <1>3, ServerFacts DEF AnswerInWork
<1>11. OneAnswerAsked'
  <2>1. Len(tcp_tx_rsp') = 1 /\ tcp_tx_rsp'[1].error = error /\ error < 2
    BY <1>6
  <2> QED BY <1>1, <1>3, <1>4, <1>5, <1>8, <2>1 DEF OneAnswerAsked
<1>12. AnswersSettled'
  BY <1>3, <1>8 DEF AnswersSettled
<1> QED BY <1>3, <1>9, <1>10, <1>11, <1>12 DEF ServerInv, AnswerInv

\* The TCP stack puts the answer off: nothing is settled.
LEMMA TxTcpRetryKeeps == ASSUME ServerInv, TxTcpRetry PROVE ServerInv'
<1>1. /\ tcp_tx_req # <<>> /\ tcp_tx_req' = Tail(tcp_tx_req) /\ tx_sm' = tx_sm
      /\ http_response' = http_response /\ settled' = settled
      /\ \E error \in {2, 3} :
           tcp_tx_rsp' = Append(tcp_tx_rsp, [sessionID |-> Head(tcp_tx_req).sessionID, error |-> error])
  BY DEF TxTcpRetry, TxStep, Tx!TcpRetry, Tx!CanRead, Tx!appFifos, Tx!outside
<1>2. TxOther
  BY WordFifos DEF TxTcpRetry, TxStep, Tx!TcpRetry, Tx!appFifos
<1>3. /\ IInv' /\ ConsumeOK' /\ ProduceOK' /\ ServerFifosOK' /\ AnswersWaiting'
      /\ app' = app /\ served' = served /\ answering' = answering
  BY <1>1, <1>2, TxFrame
<1>4. /\ tx_sm.state = "TCP_RSP" /\ Len(tcp_tx_req) = 1 /\ tcp_tx_rsp = <<>>
      /\ Len(settled) = answering - 1
  BY <1>1, ServerFacts DEF OneAnswerAsked
<1>5. /\ Head(tcp_tx_req) = tcp_tx_req[1] /\ tcp_tx_req[1] \in Tx!TxRequest /\ tcp_tx_req' = <<>>
  BY <1>1, <1>4, TailFacts, ServerFacts DEF TxOK
<1>6. PICK error \in {2, 3} :
        tcp_tx_rsp' = <<[sessionID |-> tcp_tx_req[1].sessionID, error |-> error]>>
  BY <1>1, <1>4, <1>5
<1>7. TxOK'
  <2>1. tcp_tx_rsp' \in Seq(Tx!TxAnswer)
    <3>1. [sessionID |-> tcp_tx_req[1].sessionID, error |-> error] \in Tx!TxAnswer
      BY <1>5 DEF Tx!TxAnswer, Tx!TxRequest
    <3> QED BY <1>6, <3>1
  <2>2. tcp_tx_req' \in Seq(Tx!TxRequest)
    BY <1>5
  <2> QED BY <1>1, <2>1, <2>2, ServerFacts DEF TxOK
<1>8. AnswerInWork' /\ AnswersSettled'
  BY <1>1, <1>3, ServerFacts DEF AnswerInWork, AnswersSettled
<1>9. OneAnswerAsked'
  <2>1. Len(tcp_tx_rsp') = 1 /\ tcp_tx_rsp'[1].error = error /\ ~(error < 2)
    BY <1>6
  <2> QED BY <1>1, <1>3, <1>4, <1>5, <2>1 DEF OneAnswerAsked
<1> QED BY <1>3, <1>7, <1>8, <1>9 DEF ServerInv, AnswerInv

\* state_machine takes the answer of the TCP stack: to send, to flush or to ask
\* again.
LEMMA TxSmTcpRspKeeps == ASSUME ServerInv, TxStep(Tx!SmTcpRsp) PROVE ServerInv'
<1> DEFINE error == Head(tcp_tx_rsp).error
<1>1. /\ tx_sm.state = "TCP_RSP" /\ tcp_tx_rsp # <<>> /\ tcp_tx_rsp' = Tail(tcp_tx_rsp)
      /\ tx_sm' = [tx_sm EXCEPT !.state = Tx!AfterRsp(error)]
      /\ http_response' = http_response /\ settled' = settled /\ tcp_tx_req' = tcp_tx_req
  BY DEF TxStep, Tx!SmTcpRsp, Tx!CanRead, Tx!appFifos, Tx!outside
<1>2. TxOther
  BY WordFifos DEF TxStep, Tx!SmTcpRsp, Tx!appFifos
<1>3. /\ IInv' /\ ConsumeOK' /\ ProduceOK' /\ ServerFifosOK' /\ AnswersWaiting'
      /\ app' = app /\ served' = served /\ answering' = answering
  BY <1>1, <1>2, TxFrame
<1>4. /\ tcp_tx_req = <<>> /\ Len(tcp_tx_rsp) = 1
      /\ Len(settled) = IF tcp_tx_rsp[1].error < 2 THEN answering ELSE answering - 1
  BY <1>1, ServerFacts DEF OneAnswerAsked
<1>5. Head(tcp_tx_rsp) = tcp_tx_rsp[1] /\ tcp_tx_rsp[1] \in Tx!TxAnswer /\ tcp_tx_rsp' = <<>>
  BY <1>1, <1>4, TailFacts, ServerFacts DEF TxOK
<1>6. error \in 0 .. 3 /\ Len(settled) = IF error < 2 THEN answering ELSE answering - 1
  BY <1>4, <1>5 DEF Tx!TxAnswer
<1> HIDE DEF error
<1>7. /\ error = 0 => Tx!AfterRsp(error) = "DATA_HTTP_STATUS"
      /\ error = 1 => Tx!AfterRsp(error) = "FLUSH_HEADLINE"
      /\ error >= 2 => Tx!AfterRsp(error) = "TCP_REQ"
  BY <1>6 DEF Tx!AfterRsp
<1>8. /\ tx_sm'.state = Tx!AfterRsp(error) /\ tx_sm'.app_response = tx_sm.app_response
      /\ tx_sm' \in [state : Tx!SmStates, app_response : Tx!Response \cup {Unset}]
  <2>1. Tx!AfterRsp(error) \in Tx!SmStates
    BY <1>6, <1>7 DEF Tx!SmStates
  <2> QED BY <1>1, <2>1, ServerFacts DEF TxOK
<1>9. TxOK'
  <2>1. tcp_tx_rsp' \in Seq(Tx!TxAnswer)
    BY <1>5
  <2> QED BY <1>1, <1>8, <2>1, ServerFacts DEF TxOK
<1>10. AnswerInWork' /\ AnswersSettled'
  BY <1>1, <1>3, <1>8, ServerFacts DEF AnswerInWork, AnswersSettled
<1>11. OneAnswerAsked'
  BY <1>1, <1>3, <1>4, <1>5, <1>6, <1>7, <1>8 DEF OneAnswerAsked
<1> QED BY <1>3, <1>9, <1>10, <1>11 DEF ServerInv, AnswerInv

\* The parts of a packet, sent or flushed, the status line parser and the aligner.
LEMMA TxPartsKeep ==
  ASSUME ServerInv,
         \/ TxStep(Tx!SmDataHttpStatus) \/ TxStep(Tx!SmDataHeaders) \/ TxStep(Tx!SmDataCrlf)
         \/ TxStep(Tx!SmDataBody) \/ TxStep(Tx!SmFlushHeadline) \/ TxStep(Tx!SmFlushHeaders)
         \/ TxStep(Tx!SmFlushBody) \/ TxStatusCodeParser \/ TxAlignerTake
  PROVE  ServerInv'
<1> USE DEF TxStep, Tx!CanRead, CanRead, Tx!appFifos, Tx!tcpFifos, Tx!outside, PacketStates, Tx!SmStates
<1>1. TxOther
  BY WordFifos
  DEF TxStatusCodeParser, TxAlignerTake, Tx!SmDataHttpStatus, Tx!SmDataHeaders, Tx!SmDataCrlf,
      Tx!SmDataBody, Tx!SmFlushHeadline, Tx!SmFlushHeaders, Tx!SmFlushBody,
      Tx!StatusCodeParser, Tx!ScIdle, Tx!ScReadInput, Tx!ScWriteOutput, Tx!AlignerTake
<1>2. /\ http_response' = http_response /\ settled' = settled
      /\ tcp_tx_req' = tcp_tx_req /\ tcp_tx_rsp' = tcp_tx_rsp
  BY DEF TxStatusCodeParser, TxAlignerTake, Tx!SmDataHttpStatus, Tx!SmDataHeaders, Tx!SmDataCrlf,
      Tx!SmDataBody, Tx!SmFlushHeadline, Tx!SmFlushHeaders, Tx!SmFlushBody,
      Tx!StatusCodeParser, Tx!ScIdle, Tx!ScReadInput, Tx!ScWriteOutput, Tx!AlignerTake
<1>3. CASE TxStatusCodeParser \/ TxAlignerTake
  <2>1. tx_sm' = tx_sm
    BY <1>3 DEF TxStatusCodeParser, TxAlignerTake, Tx!StatusCodeParser, Tx!ScIdle,
       Tx!ScReadInput, Tx!ScWriteOutput, Tx!AlignerTake
  <2> QED BY <1>1, <1>2, <2>1, TxPacketStep
<1>4. CASE TxStep(Tx!SmDataHttpStatus) \/ TxStep(Tx!SmDataCrlf) \/ TxStep(Tx!SmFlushHeadline)
  <2>1. \E state \in PacketStates : /\ tx_sm' = [tx_sm EXCEPT !.state = state]
                                    /\ tx_sm.state \in PacketStates \ {"IDLE"}
    BY <1>4 DEF Tx!SmDataHttpStatus, Tx!SmDataCrlf, Tx!SmFlushHeadline
  <2> QED BY <1>1, <1>2, <2>1, TxPacketStep
<1>5. CASE TxStep(Tx!SmDataHeaders) \/ TxStep(Tx!SmFlushHeaders)
  <2>1. \E state \in PacketStates : /\ tx_sm' = [tx_sm EXCEPT !.state = state]
                                    /\ tx_sm.state \in PacketStates \ {"IDLE"}
    BY <1>5 DEF Tx!SmDataHeaders, Tx!SmFlushHeaders, Tx!AfterFlushed
  <2> QED BY <1>1, <1>2, <2>1, TxPacketStep
<1>6. CASE TxStep(Tx!SmDataBody) \/ TxStep(Tx!SmFlushBody)
  <2>1. \E state \in PacketStates : /\ tx_sm' = [tx_sm EXCEPT !.state = state]
                                    /\ tx_sm.state \in PacketStates \ {"IDLE"}
    BY <1>6 DEF Tx!SmDataBody, Tx!SmFlushBody
  <2> QED BY <1>1, <1>2, <2>1, TxPacketStep
<1> QED BY <1>3, <1>4, <1>5, <1>6

\* Every step of the server is one of the above.
LEMMA ServerStep == ServerInv /\ [ServerNext]_serverVars => ServerInv'
<1> SUFFICES ASSUME ServerInv, [ServerNext]_serverVars PROVE ServerInv'
  OBVIOUS
<1>1. CASE UNCHANGED serverVars
  <2>1. UNCHANGED vars /\ UNCHANGED <<txVars, produce>> /\ consume' = consume
    BY <1>1 DEF serverVars, rxVars
  <2>2. ConsumeOK'
    BY <2>1, ServerFacts DEF ConsumeOK
  <2> QED BY <2>1, <2>2, RxServerStep DEF RxOther
<1>2. CASE \/ RxStateMachine \/ RxHeadlineParser \/ RxRequestIssuer \/ RxPayloadParser
           \/ RxTcpNotify \/ RxTcpAccept \/ RxTcpDeliver \/ Rest
  <2>1. RxOther /\ UNCHANGED <<txVars, produce>> /\ consume' = consume
    BY <1>2 DEF RxStateMachine, RxHeadlineParser, RxRequestIssuer, RxPayloadParser, RxTcpNotify,
                RxTcpAccept, RxTcpDeliver, Rest, RxStep, RxOther
  <2>2. ConsumeOK'
    BY <2>1, ServerFacts DEF ConsumeOK
  <2> QED BY <2>1, <2>2, RxServerStep
<1>3. CASE TxStateMachine
  BY <1>3, TxSmIdleKeeps, TxSmTcpReqKeeps, TxSmTcpRspKeeps, TxPartsKeep
  DEF TxStateMachine, Tx!StateMachine, TxStep
<1>4. CASE ConsumeRequest
  BY <1>4, ConsumeHeadersKeeps, ConsumeBodyKeeps DEF ConsumeRequest
<1> QED
  BY <1>1, <1>2, <1>3, <1>4, ProcessNotifyKeeps, ProduceKeeps, TxPartsKeep, TxTcpSettleKeeps,
     TxTcpRetryKeeps DEF ServerNext

\* The invariant holds in every reachable state.
LEMMA ServerInvariant == ServerSpec => []ServerInv
<1>1. ServerInit => ServerInv
  BY ServerInitially
<1>2. ServerInv /\ [ServerNext]_serverVars => ServerInv'
  BY ServerStep
<1> QED BY <1>1, <1>2, PTL DEF ServerSpec

-----------------------------------------------------------------------------
(***************************************************************************)
(* The types of the response path, which the steps of either system keep:  *)
(* the FIFOs to the TCP stack and to the aligner, and the status lines.    *)
(***************************************************************************)

TxPathOK ==
  /\ Len(tcp_tx_req) <= PortDepth /\ Len(tcp_tx_rsp) <= PortDepth
  /\ IsFifo(tx_aligner, Tx!Word, InnerDepth)
  /\ IsFifo(resp_status_code, {"OK_200"}, InnerDepth)
  /\ IsFifo(resp_status_line, {Tx!StatusLine("OK_200")}, InnerDepth)
  /\ tx_sc \in [state : {"IDLE", "READ_INPUT", "WRITE_OUTPUT"}, status_code : {"OK_200", Unset}]
  /\ tx_sc.state = "WRITE_OUTPUT" => tx_sc.status_code = "OK_200"
  /\ aligned \in Seq(Tx!Word)

txPathVars == <<tcp_tx_req, tcp_tx_rsp, tx_aligner, resp_status_code, resp_status_line, tx_sc, aligned>>

\* The FIFOs start empty.
LEMMA TxPathInit == ASSUME ServerInit PROVE TxPathOK
BY DepthAssumption, InnerAssumption DEF ServerInit, TxPathOK, IsFifo

\* A step that uses none of them.
LEMMA TxPathFrame == ASSUME TxPathOK, UNCHANGED txPathVars PROVE TxPathOK'
BY DEF TxPathOK, txPathVars

\* state_machine reads the next response and passes on its code.
LEMMA TxPathSmIdle == ASSUME TxPathOK, ServerFifosOK, Tx!SmIdle PROVE TxPathOK'
<1>1. /\ http_response # <<>> /\ http_response \in Seq(Tx!Response)
      /\ Len(resp_status_code) < InnerDepth
      /\ resp_status_code' = Append(resp_status_code, Head(http_response).status_code)
      /\ UNCHANGED <<tcp_tx_req, tcp_tx_rsp, tx_aligner, resp_status_line, tx_sc, aligned>>
  BY DEF Tx!SmIdle, Tx!CanRead, Tx!CanWrite, Tx!tcpFifos, Tx!outside, ServerFifosOK, IsFifo
<1>2. Head(http_response).status_code = "OK_200"
  <2>1. Head(http_response) \in Tx!Response
    BY <1>1
  <2> QED BY <2>1 DEF Tx!Response
<1>3. IsFifo(resp_status_code', {"OK_200"}, InnerDepth)
  BY <1>1, <1>2, FifoAppend, InnerAssumption DEF TxPathOK, CanWrite
<1> QED BY <1>1, <1>3 DEF TxPathOK

\* It asks the TCP stack, and takes its answer.
LEMMA TxPathTcp == ASSUME TxPathOK, TxOK, Tx!SmTcpReq \/ Tx!SmTcpRsp PROVE TxPathOK'
<1>1. UNCHANGED <<tx_aligner, resp_status_code, resp_status_line, tx_sc, aligned>>
  BY DEF Tx!SmTcpReq, Tx!SmTcpRsp, Tx!innerFifos, Tx!outside
<1>2. tcp_tx_req \in Seq(Tx!TxRequest) /\ tcp_tx_rsp \in Seq(Tx!TxAnswer)
  BY DEF TxOK
<1>3. CASE Tx!SmTcpReq
  <2>1. /\ Len(tcp_tx_req) < PortDepth /\ tcp_tx_rsp' = tcp_tx_rsp
        /\ \E asked : tcp_tx_req' = Append(tcp_tx_req, asked)
    BY <1>3 DEF Tx!SmTcpReq, Tx!CanWrite
  <2>2. Len(tcp_tx_req') = Len(tcp_tx_req) + 1
    BY <1>2, <2>1
  <2> QED BY <1>1, <1>2, <2>1, <2>2, DepthAssumption DEF TxPathOK
<1>4. CASE Tx!SmTcpRsp
  <2>1. tcp_tx_rsp # <<>> /\ tcp_tx_rsp' = Tail(tcp_tx_rsp) /\ tcp_tx_req' = tcp_tx_req
    BY <1>4 DEF Tx!SmTcpRsp, Tx!CanRead
  <2>2. Len(tcp_tx_rsp') <= PortDepth
    <3>1. Len(tcp_tx_rsp') = Len(tcp_tx_rsp) - 1 /\ Len(tcp_tx_rsp) \in Nat
      BY <1>2, <2>1
    <3>2. Len(tcp_tx_rsp) <= PortDepth
      BY DEF TxPathOK
    <3> QED BY <3>1, <3>2, DepthAssumption
  <2> QED BY <1>1, <2>1, <2>2 DEF TxPathOK
<1> QED BY <1>3, <1>4

\* The TCP stack takes a request and answers it.
LEMMA TxPathStack == ASSUME TxPathOK, TxOK, Tx!TcpSettle \/ Tx!TcpRetry PROVE TxPathOK'
<1>1. UNCHANGED <<tx_aligner, resp_status_code, resp_status_line, tx_sc, aligned>>
  BY DEF Tx!TcpSettle, Tx!TcpRetry, Tx!innerFifos, Tx!outside
<1>2. tcp_tx_req \in Seq(Tx!TxRequest) /\ tcp_tx_rsp \in Seq(Tx!TxAnswer)
  BY DEF TxOK
<1>3. /\ tcp_tx_req # <<>> /\ tcp_tx_req' = Tail(tcp_tx_req) /\ Len(tcp_tx_rsp) < PortDepth
      /\ \E answer : tcp_tx_rsp' = Append(tcp_tx_rsp, answer)
  BY DEF Tx!TcpSettle, Tx!TcpRetry, Tx!CanRead, Tx!CanWrite
<1>4. Len(tcp_tx_req') = Len(tcp_tx_req) - 1 /\ Len(tcp_tx_req) \in Nat
  BY <1>2, <1>3
<1>5. Len(tcp_tx_rsp') = Len(tcp_tx_rsp) + 1 /\ Len(tcp_tx_rsp) \in Nat
  BY <1>2, <1>3
<1>6. Len(tcp_tx_req') <= PortDepth /\ Len(tcp_tx_rsp') <= PortDepth
  <2>1. Len(tcp_tx_req) <= PortDepth
    BY DEF TxPathOK
  <2> QED BY <1>3, <1>4, <1>5, <2>1, DepthAssumption
<1> QED BY <1>1, <1>6 DEF TxPathOK

\* state_machine takes the status line, or drops words.
LEMMA TxPathTakes ==
  ASSUME TxPathOK, Tx!SmDataHttpStatus \/ Tx!SmFlushHeadline \/ Tx!SmFlushHeaders \/ Tx!SmFlushBody
  PROVE  TxPathOK'
<1>1. UNCHANGED <<tcp_tx_req, tcp_tx_rsp, tx_aligner, resp_status_code, tx_sc, aligned>>
  BY DEF Tx!SmDataHttpStatus, Tx!SmFlushHeadline, Tx!SmFlushHeaders, Tx!SmFlushBody, Tx!tcpFifos,
         Tx!innerFifos, Tx!outside
<1>2. \/ resp_status_line' = resp_status_line
      \/ CanRead(resp_status_line) /\ resp_status_line' = Tail(resp_status_line)
  BY DEF Tx!SmDataHttpStatus, Tx!SmFlushHeadline, Tx!SmFlushHeaders, Tx!SmFlushBody, Tx!innerFifos,
         Tx!CanRead, CanRead
<1>3. IsFifo(resp_status_line', {Tx!StatusLine("OK_200")}, InnerDepth)
  <2>1. IsFifo(resp_status_line, {Tx!StatusLine("OK_200")}, InnerDepth)
    BY DEF TxPathOK
  <2> DEFINE line == Tx!StatusLine("OK_200")
  <2> HIDE DEF line
  <2>2. IsFifo(resp_status_line, {line}, InnerDepth)
    BY <2>1 DEF line
  <2>3. IsFifo(resp_status_line', {line}, InnerDepth)
    BY <1>2, <2>2, FifoTail, InnerAssumption
  <2> QED BY <2>3 DEF line
<1> QED BY <1>1, <1>3 DEF TxPathOK

\* It writes a word to the aligner.
LEMMA TxPathWrites ==
  ASSUME TxPathOK, ServerFifosOK, Tx!SmDataHeaders \/ Tx!SmDataCrlf \/ Tx!SmDataBody
  PROVE  TxPathOK'
<1>1. UNCHANGED <<tcp_tx_req, tcp_tx_rsp, resp_status_code, resp_status_line, tx_sc, aligned>>
  BY DEF Tx!SmDataHeaders, Tx!SmDataCrlf, Tx!SmDataBody, Tx!tcpFifos, Tx!outside
<1>2. \E word \in Tx!Word : tx_aligner' = Append(tx_aligner, word)
  <2>1. CASE Tx!SmDataHeaders
    <3>1. /\ http_response_headers # <<>> /\ http_response_headers \in Seq(Tx!Word)
          /\ tx_aligner' = Append(tx_aligner, Tx!Middle(Head(http_response_headers)))
      BY <2>1 DEF Tx!SmDataHeaders, Tx!CanRead, ServerFifosOK, IsFifo
    <3>2. Head(http_response_headers) \in Tx!Word
      BY <3>1
    <3>3. Tx!Middle(Head(http_response_headers)) \in Tx!Word
      BY <3>2 DEF Tx!Word, Tx!Middle
    <3> QED BY <3>1, <3>3
  <2>2. CASE Tx!SmDataCrlf
    <3>1. Tx!Crlf \in Tx!Word
      BY DEF Tx!Word, Tx!Crlf, Tx!Parts
    <3> QED BY <2>2, <3>1 DEF Tx!SmDataCrlf
  <2>3. CASE Tx!SmDataBody
    <3>1. /\ http_response_body # <<>> /\ http_response_body \in Seq(Tx!Word)
          /\ tx_aligner' = Append(tx_aligner, Head(http_response_body))
      BY <2>3 DEF Tx!SmDataBody, Tx!CanRead, ServerFifosOK, IsFifo
    <3>2. Head(http_response_body) \in Tx!Word
      BY <3>1
    <3> QED BY <3>1, <3>2
  <2> QED BY <2>1, <2>2, <2>3
<1>3. CanWrite(tx_aligner, InnerDepth)
  BY DEF Tx!SmDataHeaders, Tx!SmDataCrlf, Tx!SmDataBody, Tx!CanWrite, CanWrite
<1>4. IsFifo(tx_aligner', Tx!Word, InnerDepth)
  BY <1>2, <1>3, FifoAppend, InnerAssumption DEF TxPathOK
<1> QED BY <1>1, <1>4 DEF TxPathOK

\* status_code_parser makes a line of a code.
LEMMA TxPathStatus == ASSUME TxPathOK, Tx!StatusCodeParser PROVE TxPathOK'
<1> DEFINE line == Tx!StatusLine("OK_200")
           ScOK == [state : {"IDLE", "READ_INPUT", "WRITE_OUTPUT"}, status_code : {"OK_200", Unset}]
<1> USE InnerAssumption
<1>1. UNCHANGED <<tcp_tx_req, tcp_tx_rsp, tx_aligner, aligned>>
  BY DEF Tx!StatusCodeParser, Tx!ScIdle, Tx!ScReadInput, Tx!ScWriteOutput, Tx!tcpFifos,
         Tx!innerFifos, Tx!outside
<1>2. /\ IsFifo(resp_status_code, {"OK_200"}, InnerDepth) /\ IsFifo(resp_status_line, {line}, InnerDepth)
      /\ tx_sc \in ScOK /\ (tx_sc.state = "WRITE_OUTPUT" => tx_sc.status_code = "OK_200")
  BY DEF TxPathOK
<1> HIDE DEF line
<1>3. /\ IsFifo(resp_status_code', {"OK_200"}, InnerDepth) /\ IsFifo(resp_status_line', {line}, InnerDepth)
      /\ tx_sc' \in ScOK /\ (tx_sc'.state = "WRITE_OUTPUT" => tx_sc'.status_code = "OK_200")
  <2>1. CASE Tx!ScIdle
    <3>1. tx_sc' = [tx_sc EXCEPT !.state = "READ_INPUT"]
          /\ UNCHANGED <<resp_status_code, resp_status_line>>
      BY <2>1 DEF Tx!ScIdle, Tx!innerFifos
    <3> QED BY <1>2, <3>1
  <2>2. CASE Tx!ScReadInput
    <3>1. /\ tx_sc' = [state |-> "WRITE_OUTPUT", status_code |-> Head(resp_status_code)]
          /\ CanRead(resp_status_code) /\ resp_status_code' = Tail(resp_status_code)
          /\ resp_status_line' = resp_status_line
      BY <2>2 DEF Tx!ScReadInput, Tx!CanRead, CanRead
    <3>2. Head(resp_status_code) \in {"OK_200"} /\ IsFifo(resp_status_code', {"OK_200"}, InnerDepth)
      BY <1>2, <3>1, FifoTail
    <3> QED BY <1>2, <3>1, <3>2
  <2>3. CASE Tx!ScWriteOutput
    <3>1. /\ tx_sc.state = "WRITE_OUTPUT" /\ tx_sc' = [tx_sc EXCEPT !.state = "IDLE"]
          /\ CanWrite(resp_status_line, InnerDepth)
          /\ resp_status_line' = Append(resp_status_line, Tx!StatusLine(tx_sc.status_code))
          /\ resp_status_code' = resp_status_code
      BY <2>3 DEF Tx!ScWriteOutput, Tx!CanWrite, CanWrite
    <3>2. resp_status_line' = Append(resp_status_line, line)
      BY <1>2, <3>1 DEF line
    <3>3. IsFifo(resp_status_line', {line}, InnerDepth)
      BY <1>2, <3>1, <3>2, FifoAppend
    <3> QED BY <1>2, <3>1, <3>3
  <2> QED BY <2>1, <2>2, <2>3 DEF Tx!StatusCodeParser
<1> QED BY <1>1, <1>3 DEF TxPathOK, line

\* The aligner takes a word.
LEMMA TxPathAligner == ASSUME TxPathOK, Tx!AlignerTake PROVE TxPathOK'
<1>1. /\ UNCHANGED <<tcp_tx_req, tcp_tx_rsp, resp_status_code, resp_status_line, tx_sc>>
      /\ CanRead(tx_aligner) /\ tx_aligner' = Tail(tx_aligner)
      /\ aligned' = Append(aligned, Head(tx_aligner))
  BY DEF Tx!AlignerTake, Tx!CanRead, CanRead, Tx!tcpFifos
<1>2. Head(tx_aligner) \in Tx!Word /\ IsFifo(tx_aligner', Tx!Word, InnerDepth)
  BY <1>1, FifoTail, InnerAssumption DEF TxPathOK
<1>3. aligned' \in Seq(Tx!Word)
  BY <1>1, <1>2 DEF TxPathOK
<1> QED BY <1>1, <1>2, <1>3 DEF TxPathOK

\* Every step of the response path.
LEMMA TxPathStep ==
  ASSUME TxPathOK, ServerFifosOK, TxOK,
         \/ Tx!StateMachine \/ Tx!StatusCodeParser \/ Tx!AlignerTake \/ Tx!TcpSettle \/ Tx!TcpRetry
  PROVE  TxPathOK'
<1>1. CASE Tx!StateMachine
  BY <1>1, TxPathSmIdle, TxPathTcp, TxPathTakes, TxPathWrites DEF Tx!StateMachine
<1> QED BY <1>1, TxPathStatus, TxPathAligner, TxPathStack

\* Every step of the server.
LEMMA ServerTxPath == ServerInv /\ TxPathOK /\ [ServerNext]_serverVars => TxPathOK'
<1> SUFFICES ASSUME ServerInv, TxPathOK, [ServerNext]_serverVars PROVE TxPathOK'
  OBVIOUS
<1>1. CASE TxStateMachine \/ TxStatusCodeParser \/ TxAlignerTake \/ TxTcpSettle \/ TxTcpRetry
  BY <1>1, TxPathStep, ServerFacts
  DEF TxStateMachine, TxStatusCodeParser, TxAlignerTake, TxTcpSettle, TxTcpRetry, TxStep
<1>2. CASE ProcessNotify \/ ProduceResponse
  BY <1>2, TxPathFrame DEF ProcessNotify, ProduceResponse, ProduceHeaders, ProduceBody, txPathVars
<1>3. CASE \/ RxStateMachine \/ RxHeadlineParser \/ RxRequestIssuer \/ RxPayloadParser
           \/ RxTcpNotify \/ RxTcpAccept \/ RxTcpDeliver \/ Rest \/ ConsumeRequest
           \/ UNCHANGED serverVars
  <2>1. UNCHANGED txVars
    BY <1>3 DEF RxStateMachine, RxHeadlineParser, RxRequestIssuer, RxPayloadParser, RxTcpNotify,
                RxTcpAccept, RxTcpDeliver, Rest, RxStep, ConsumeRequest, ConsumeHeaders,
                ConsumeBody, serverVars
  <2> QED BY <2>1, TxPathFrame DEF txVars, txPathVars
<1> QED BY <1>1, <1>2, <1>3 DEF ServerNext

\* The types of the response path, from the parts.
LEMMA TxPathTyped == ASSUME ServerFifosOK, TxOK, TxPathOK PROVE Tx!PathTypeOK
<1>1. {Tx!StatusLine(c) : c \in {"OK_200"}} = {Tx!StatusLine("OK_200")}
  BY Zenon
<1>2. {"OK_200"} \cup {Unset} = {"OK_200", Unset}
  OBVIOUS
<1>3. /\ Tx!IsFifo(http_response, Tx!Response, PortDepth)
      /\ Tx!IsFifo(http_response_headers, Tx!Word, PortDepth)
      /\ Tx!IsFifo(http_response_body, Tx!Word, PortDepth)
  BY Zenon DEF ServerFifosOK, IsFifo, Tx!IsFifo
<1>4. /\ Tx!IsFifo(tcp_tx_req, Tx!TxRequest, PortDepth)
      /\ Tx!IsFifo(tcp_tx_rsp, Tx!TxAnswer, PortDepth)
      /\ Tx!IsFifo(tx_aligner, Tx!Word, InnerDepth)
      /\ Tx!IsFifo(resp_status_code, {"OK_200"}, InnerDepth)
  BY Zenon DEF TxOK, TxPathOK, IsFifo, Tx!IsFifo
<1>5. Tx!IsFifo(resp_status_line, {Tx!StatusLine(c) : c \in {"OK_200"}}, InnerDepth)
  BY Zenon, <1>1 DEF TxPathOK, IsFifo, Tx!IsFifo
<1>6. tx_sc \in [state : {"IDLE", "READ_INPUT", "WRITE_OUTPUT"}, status_code : {"OK_200"} \cup {Unset}]
  BY Zenon, <1>2 DEF TxPathOK
<1> QED BY Zenon, <1>3, <1>4, <1>5, <1>6 DEF Tx!PathTypeOK, TxOK, TxPathOK

\* Every reachable state of the whole server is well typed: the request path,
\* the application and the response path up to what it gives to the TCP stack
\* and to the aligner, and no FIFO of them overflows.
THEOREM ServerTypeCorrect == ServerSpec => []ServerTypeOK
<1>1. ServerInv /\ TxPathOK => ServerTypeOK
  <2> SUFFICES ASSUME ServerInv, TxPathOK PROVE ServerTypeOK
    OBVIOUS
  <2>1. Tx!PathTypeOK
    BY TxPathTyped, ServerFacts
  <2> QED BY <2>1 DEF ServerInv, IInv, TypeInv, ConsumeOK, ProduceOK, ServerTypeOK
<1>2. ServerInit => TxPathOK
  BY TxPathInit
<1> QED BY <1>1, <1>2, ServerTxPath, ServerInvariant, PTL DEF ServerSpec

\* The request path of the composed server keeps all it keeps alone: every
\* transfer is in one stage, and the requests offered are those of their
\* transfers, although their taker now waits for a slower response path.
THEOREM ServerRequestsInOrder == ServerSpec => [](RequestPipeline /\ RequestsMatchServed)
<1>1. ServerInv => RequestPipeline /\ RequestsMatchServed
  BY OfferedRequests DEF ServerInv, IInv
<1> QED BY <1>1, ServerInvariant, PTL

\* From end to end: the i-th answer asked of the TCP stack goes to the session of
\* the i-th transfer, and never before its request was taken.
THEOREM AnswersGoHome == ServerSpec => []AnswersGoToTheirSessions
<1>1. ASSUME ServerInv PROVE AnswersGoToTheirSessions
  <2> DEFINE asked == settled \o tcp_tx_req
  <2>1. settled \in Seq([sessionID : Sessions, length : Nat, outcome : {"accepted", "closed"}])
        /\ tcp_tx_req \in Seq(Tx!TxRequest)
    BY <1>1, ServerFacts DEF TxOK
  <2>2. /\ Len(asked) = Len(settled) + Len(tcp_tx_req)
        /\ Len(settled) \in Nat /\ Len(tcp_tx_req) \in Nat
        /\ \A i \in 1 .. Len(settled) : asked[i] = settled[i]
        /\ \A i \in 1 .. Len(tcp_tx_req) : asked[Len(settled) + i] = tcp_tx_req[i]
    BY <2>1
  <2> HIDE DEF asked
  <2>3. \/ tcp_tx_req = <<>>
        \/ /\ Len(tcp_tx_req) = 1 /\ Len(settled) = answering - 1
           /\ tcp_tx_req[1].sessionID = served[answering].sessionID
    BY <1>1, ServerFacts DEF OneAnswerAsked
  <2>4. CASE tcp_tx_req = <<>>
    BY <1>1, <2>2, <2>4, ServerFacts DEF AnswersSettled, AnswersGoToTheirSessions, asked
  <2>5. CASE tcp_tx_req # <<>>
    <3>1. Len(asked) = answering /\ answering \in Nat /\ answering <= Len(app.requests)
      <4>1. answering \in Nat /\ answering <= Len(app.requests)
        BY <1>1, ServerFacts
      <4>2. Len(asked) = Len(settled) + 1 /\ Len(settled) = answering - 1
        BY <2>2, <2>3, <2>5
      <4> QED BY <4>1, <4>2
    <3>2. ASSUME NEW i \in 1 .. answering PROVE asked[i].sessionID = served[i].sessionID
      <4>1. CASE i \in 1 .. Len(settled)
        BY <1>1, <2>2, <4>1, ServerFacts DEF AnswersSettled
      <4>2. CASE i = answering
        BY <2>2, <2>3, <2>5, <4>2
      <4> QED BY <2>2, <2>3, <2>5, <3>1, <4>1, <4>2
    <3> QED BY <3>1, <3>2 DEF AnswersGoToTheirSessions, asked
  <2> QED BY <2>4, <2>5
<1> QED BY <1>1, ServerInvariant, PTL

-----------------------------------------------------------------------------
(***************************************************************************)
(* The bytes: what process_notify announces and what produce_response      *)
(* writes for it, from their two FIFOs to the aligner.                     *)
(***************************************************************************)

\* The sizes and lengths are those of the application, all along.
AnswerLength == (body_size + headers_size + 2) % LengthValues
Made(r) == r.headers_size = headers_size /\ r.body_size = body_size
SizesMade ==
  /\ \A i \in 1 .. Len(http_response) : Made(http_response[i])
  /\ tx_sm.state # "IDLE" => Made(tx_sm.app_response)
  /\ \A i \in 1 .. Len(tcp_tx_req) : tcp_tx_req[i].length = AnswerLength
  /\ \A i \in 1 .. Len(settled) : settled[i].length = AnswerLength

\* The words of headers come in pairs, of which produce_response knows the next.
HeadersWordOK(w) ==
  \/ w.pos = 1 /\ w.bytes = WordBytes /\ ~w.last
  \/ w.pos = 2 /\ w.bytes = headers_size - WordBytes /\ w.last
BodyWordOK(w) == w.bytes = body_size /\ w.last
Paired(fifo, word) ==
  /\ fifo \in Seq(Tx!Word)
  /\ \A i \in 1 .. Len(fifo) : HeadersWordOK(fifo[i])
  /\ \A i \in 1 .. Len(fifo) - 1 : fifo[i + 1].pos # fifo[i].pos
  /\ fifo # <<>> => (fifo[Len(fifo)].pos = 1 <=> word = 2)
NextHeaders(fifo, word) == IF fifo = <<>> THEN IF word = 2 THEN 2 ELSE 1 ELSE fifo[1].pos

\* A packet of four words, at this place of the stream; whole packets, then the
\* first words of one more.
Word1(w) == w.bytes = WordBytes /\ ~w.last
Word2(w) == w.bytes = headers_size - WordBytes /\ ~w.last
Word3(w) == w.bytes = 2 /\ ~w.last
Word4(w) == w.bytes = body_size /\ w.last
PacketAt(s, o) == Word1(s[o + 1]) /\ Word2(s[o + 2]) /\ Word3(s[o + 3]) /\ Word4(s[o + 4])
Packets(s, n, words) ==
  /\ s \in Seq(Tx!Word)
  /\ Len(s) = 4 * n + words
  /\ \A k \in 0 .. n - 1 : PacketAt(s, 4 * k)
  /\ words >= 1 => Word1(s[4 * n + 1])
  /\ words >= 2 => Word2(s[4 * n + 2])
  /\ words >= 3 => Word3(s[4 * n + 3])

\* What has been written to the aligner, by the state of state_machine.
AllAccepted == AcceptedUpTo(settled, Len(settled))
AllSent == Packets(stream, AllAccepted, 0)
Sending(words) == AllAccepted # 0 /\ Packets(stream, AllAccepted - 1, words)
PacketsSent ==
  /\ tx_sm.state = "TCP_RSP" => IF Tx!AcceptedUnread THEN Sending(0) ELSE AllSent
  /\ tx_sm.state = "DATA_HTTP_STATUS" => Sending(0)
  /\ tx_sm.state = "DATA_HEADERS" =>
       Sending(NextHeaders(http_response_headers, produce.word) - 1)
  /\ tx_sm.state = "DATA_CRLF" => Sending(2)
  /\ tx_sm.state = "DATA_BODY" => Sending(3)
  /\ tx_sm.state \notin {"TCP_RSP", "DATA_HTTP_STATUS", "DATA_HEADERS", "DATA_CRLF", "DATA_BODY"}
       => AllSent

WordsInv ==
  /\ SizesMade
  /\ Paired(http_response_headers, produce.word)
  /\ tx_sm.state \notin {"DATA_HEADERS", "FLUSH_HEADERS"} =>
       NextHeaders(http_response_headers, produce.word) = 1
  /\ \A i \in 1 .. Len(http_response_body) : BodyWordOK(http_response_body[i])
  /\ aligned \in Seq(Tx!Word) /\ tx_aligner \in Seq(Tx!Word)
  /\ PacketsSent

\* Headers take two words and the body one.
LEMMA AnswerWords ==
  ASSUME NEW n
  PROVE  /\ \A k \in {1, 2} : /\ HeadersWordOK(Tx!WordOf(n, "headers", k, headers_size))
                              /\ Tx!WordOf(n, "headers", k, headers_size).pos = k
         /\ BodyWordOK(Tx!WordOf(n, "body", 1, body_size))
<1>1. ASSUME NEW w \in Nat \ {0}, NEW q \in Nat \ {0}, NEW size \in Nat,
             size > (q - 1) * w, size <= q * w
      PROVE  (size + w - 1) \div w = q
  <2> DEFINE sum == size + w - 1
             d   == sum \div w
             r   == sum % w
  <2>1. sum \in Nat
    OBVIOUS
  <2>2. d \in Nat /\ r \in 0 .. w - 1 /\ sum = w * d + r
    <3> HIDE DEF sum
    <3> QED BY <2>1
  <2> HIDE DEF d, r
  <2>3. w * q <= sum /\ sum < w * q + w
    <3>1. (q - 1) * w = w * q - w /\ q * w = w * q /\ w * q \in Nat
      OBVIOUS
    <3>2. ASSUME NEW a \in Nat, size > a - w, size <= a PROVE a <= sum /\ sum < a + w
      BY <3>2
    <3> QED BY <1>1, <3>1, <3>2
  <2>4. d = q
    <3>1. CASE d <= q - 1
      <4>1. w * d <= w * (q - 1)
        BY <2>2, <3>1
      <4>2. w * (q - 1) = w * q - w
        OBVIOUS
      <4> HIDE DEF sum
      <4> QED BY <2>1, <2>2, <2>3, <4>1, <4>2
    <3>2. CASE d >= q + 1
      <4>1. w * d >= w * (q + 1)
        BY <2>2, <3>2
      <4>2. w * (q + 1) = w * q + w
        OBVIOUS
      <4> HIDE DEF sum
      <4> QED BY <2>1, <2>2, <2>3, <4>1, <4>2
    <3> QED BY <2>2, <3>1, <3>2
  <2> QED BY <2>4 DEF d
<1>2. Tx!WordCount(headers_size) = 2
  <2>1. /\ headers_size \in Nat /\ headers_size > (2 - 1) * WordBytes
        /\ headers_size <= 2 * WordBytes /\ WordBytes \in Nat \ {0}
    BY SizesAssumption, WordBytesAssumption
  <2> QED BY <1>1, <2>1 DEF Tx!WordCount
<1>3. Tx!WordCount(body_size) = 1
  <2>1. /\ body_size \in Nat /\ body_size > (1 - 1) * WordBytes
        /\ body_size <= 1 * WordBytes /\ WordBytes \in Nat \ {0}
    BY SizesAssumption, WordBytesAssumption
  <2> QED BY <1>1, <2>1 DEF Tx!WordCount
<1>4. (2 - 1) * WordBytes = WordBytes /\ body_size - (1 - 1) * WordBytes = body_size
  BY SizesAssumption, WordBytesAssumption
<1>5. ASSUME NEW part, NEW k, NEW size
      PROVE  /\ Tx!WordOf(n, part, k, size).pos = k
             /\ Tx!WordOf(n, part, k, size).bytes = (IF k < Tx!WordCount(size) THEN WordBytes
                                                     ELSE size - (k - 1) * WordBytes)
             /\ Tx!WordOf(n, part, k, size).last <=> k = Tx!WordCount(size)
  BY DEF Tx!WordOf
<1>6. /\ Tx!WordOf(n, "headers", 1, headers_size).bytes = WordBytes
      /\ ~Tx!WordOf(n, "headers", 1, headers_size).last
      /\ Tx!WordOf(n, "headers", 2, headers_size).bytes = headers_size - WordBytes
      /\ Tx!WordOf(n, "headers", 2, headers_size).last
  BY <1>2, <1>4, <1>5
<1>7. /\ Tx!WordOf(n, "body", 1, body_size).bytes = body_size
      /\ Tx!WordOf(n, "body", 1, body_size).last
  BY <1>3, <1>4, <1>5
<1>8. ASSUME NEW k \in {1, 2}
      PROVE  /\ HeadersWordOK(Tx!WordOf(n, "headers", k, headers_size))
             /\ Tx!WordOf(n, "headers", k, headers_size).pos = k
  BY <1>5, <1>6 DEF HeadersWordOK
<1>9. BodyWordOK(Tx!WordOf(n, "body", 1, body_size))
  BY <1>7 DEF BodyWordOK
<1> QED BY <1>8, <1>9

\* Writing the next word of headers, or the body after the second, keeps the
\* pairs; what is read next stays the same.
LEMMA PairedAppend ==
  ASSUME NEW fifo, NEW word \in {1, 2}, NEW w \in Tx!Word, Paired(fifo, word),
         HeadersWordOK(w), w.pos = word
  PROVE  /\ Paired(Append(fifo, w), word + 1)
         /\ NextHeaders(Append(fifo, w), word + 1) = NextHeaders(fifo, word)
<1>1. fifo \in Seq(Tx!Word)
  BY DEF Paired
<1>2. PICK n \in Nat : n = Len(fifo)
  BY <1>1
<1> DEFINE more == Append(fifo, w)
<1>3. /\ more \in Seq(Tx!Word) /\ Len(more) = n + 1 /\ more # <<>>
      /\ \A i \in 1 .. n : more[i] = fifo[i]
      /\ more[n + 1] = w
  BY <1>1, <1>2, AppendFacts
<1> HIDE DEF more
<1>4. \A i \in 1 .. n + 1 : HeadersWordOK(more[i])
  <2>1. \A i \in 1 .. n + 1 : i \in 1 .. n \/ i = n + 1
    OBVIOUS
  <2> QED BY <1>2, <1>3, <2>1 DEF Paired
<1>5. fifo = <<>> <=> n = 0
  BY <1>1, <1>2
<1>6. n # 0 => (fifo[n].pos = 1 <=> word = 2)
  BY <1>2, <1>5 DEF Paired
<1>7. ASSUME NEW i \in 1 .. n PROVE more[i + 1].pos # more[i].pos
  <2>1. CASE i = n
    <3>1. n # 0 /\ more[i + 1] = w /\ more[i] = fifo[n]
      BY <1>3, <2>1
    <3>2. fifo[n].pos \in {1, 2}
      BY <1>2, <2>1 DEF Paired, HeadersWordOK
    <3> QED BY <1>6, <3>1, <3>2
  <2>2. CASE i # n
    <3>1. i \in 1 .. n - 1 /\ i + 1 \in 1 .. n
      BY <2>2
    <3> QED BY <1>2, <1>3, <3>1 DEF Paired
  <2> QED BY <2>1, <2>2
<1>8. more[n + 1].pos = 1 <=> word + 1 = 2
  BY <1>3
<1>9. Paired(more, word + 1)
  BY <1>3, <1>4, <1>7, <1>8 DEF Paired
<1>10. NextHeaders(more, word + 1) = NextHeaders(fifo, word)
  <2>1. CASE n = 0
    BY <1>3, <1>5, <2>1 DEF NextHeaders
  <2>2. CASE n # 0
    <3>1. 1 \in 1 .. n
      BY <2>2
    <3> QED BY <1>3, <1>5, <2>2, <3>1 DEF NextHeaders
  <2> QED BY <2>1, <2>2
<1> QED BY <1>9, <1>10 DEF more

\* Writing the body leaves the words of headers, and what is read next, as they
\* are.
LEMMA PairedBody ==
  ASSUME NEW fifo, Paired(fifo, 3)
  PROVE  Paired(fifo, 1) /\ NextHeaders(fifo, 1) = NextHeaders(fifo, 3)
BY DEF Paired, NextHeaders

\* Taking a word of headers: the other one of its pair is next, or a new pair.
LEMMA PairedTail ==
  ASSUME NEW fifo, NEW word \in 1 .. 3, Paired(fifo, word), fifo # <<>>
  PROVE  /\ Paired(Tail(fifo), word)
         /\ Head(fifo) \in Tx!Word /\ HeadersWordOK(Head(fifo))
         /\ Head(fifo).pos = NextHeaders(fifo, word)
         /\ NextHeaders(Tail(fifo), word) = IF Head(fifo).last THEN 1 ELSE 2
<1>1. fifo \in Seq(Tx!Word)
  BY DEF Paired
<1>2. PICK n \in Nat \ {0} : n = Len(fifo)
  BY <1>1, TailFacts
<1> DEFINE rest == Tail(fifo)
<1>3. /\ Head(fifo) = fifo[1] /\ rest \in Seq(Tx!Word) /\ Len(rest) = n - 1
      /\ \A i \in 1 .. n - 1 : rest[i] = fifo[i + 1]
  BY <1>1, <1>2, TailFacts
<1> HIDE DEF rest
<1>4. /\ \A i \in 1 .. n : HeadersWordOK(fifo[i])
      /\ \A i \in 1 .. n - 1 : fifo[i + 1].pos # fifo[i].pos
      /\ fifo[n].pos = 1 <=> word = 2
  BY <1>2 DEF Paired
<1>5. rest = <<>> <=> n = 1
  BY <1>3
<1>6. /\ \A i \in 1 .. n - 1 : i + 1 \in 1 .. n
      /\ \A i \in 1 .. n - 2 : i \in 1 .. n - 1 /\ i + 1 \in 1 .. n - 1
      /\ 1 \in 1 .. n
      /\ n # 1 => n - 1 \in 1 .. n - 1 /\ (n - 1) + 1 = n /\ 1 \in 1 .. n - 1
  OBVIOUS
<1>7. Paired(rest, word)
  <2>1. \A i \in 1 .. n - 1 : HeadersWordOK(rest[i])
    BY <1>3, <1>4, <1>6
  <2>2. \A i \in 1 .. (n - 1) - 1 : rest[i + 1].pos # rest[i].pos
    BY SMTT(30), <1>3, <1>4, <1>6
  <2>3. n # 1 => rest[n - 1] = fifo[n]
    BY <1>3, <1>6
  <2> QED BY <1>3, <1>4, <1>5, <2>1, <2>2, <2>3 DEF Paired
<1>8. HeadersWordOK(fifo[1]) /\ fifo[1] \in Tx!Word
  BY <1>1, <1>2, <1>4, <1>6
<1>9. NextHeaders(rest, word) = IF fifo[1].last THEN 1 ELSE 2
  <2>1. CASE n = 1
    BY <1>4, <1>5, <1>8, <2>1 DEF NextHeaders, HeadersWordOK
  <2>2. CASE n # 1
    <3>1. rest[1] = fifo[1 + 1] /\ fifo[1 + 1].pos # fifo[1].pos /\ HeadersWordOK(fifo[1 + 1])
      BY <1>3, <1>4, <1>6, <2>2
    <3> QED BY <1>5, <1>8, <2>2, <3>1 DEF NextHeaders, HeadersWordOK
  <2> QED BY <2>1, <2>2
<1> QED BY <1>3, <1>7, <1>8, <1>9 DEF NextHeaders, rest

\* A word at the end of the packets: one more word of the last packet, or its
\* fourth and last.
LEMMA PacketsAppend ==
  ASSUME NEW s, NEW n \in Nat, NEW words \in 0 .. 3, Packets(s, n, words), NEW w \in Tx!Word,
         \/ words = 0 /\ Word1(w)
         \/ words = 1 /\ Word2(w)
         \/ words = 2 /\ Word3(w)
         \/ words = 3 /\ Word4(w)
  PROVE  /\ words < 3 => Packets(Append(s, w), n, words + 1)
         /\ words = 3 => Packets(Append(s, w), n + 1, 0)
<1>1. s \in Seq(Tx!Word) /\ Len(s) = 4 * n + words
  BY DEF Packets
<1> DEFINE more == Append(s, w)
<1>2. /\ more \in Seq(Tx!Word) /\ Len(more) = 4 * n + words + 1
      /\ \A i \in 1 .. 4 * n + words : more[i] = s[i]
      /\ more[4 * n + words + 1] = w
  BY <1>1, AppendFacts
<1> HIDE DEF more
<1>3. ASSUME NEW k \in 0 .. n - 1 PROVE PacketAt(more, 4 * k)
  <2>1. \A j \in 1 .. 4 : 4 * k + j \in 1 .. 4 * n + words
    OBVIOUS
  <2>2. \A j \in 1 .. 4 : more[4 * k + j] = s[4 * k + j]
    BY <1>2, <2>1
  <2>3. PacketAt(s, 4 * k)
    BY DEF Packets
  <2> QED BY <2>2, <2>3 DEF PacketAt
<1>4. \A j \in 1 .. 3 : j <= words => more[4 * n + j] = s[4 * n + j]
  <2>1. \A j \in 1 .. 3 : j <= words => 4 * n + j \in 1 .. 4 * n + words
    OBVIOUS
  <2> QED BY <1>2, <2>1
<1>5. /\ words >= 1 => Word1(more[4 * n + 1])
      /\ words >= 2 => Word2(more[4 * n + 2])
      /\ words >= 3 => Word3(more[4 * n + 3])
  BY <1>4 DEF Packets
<1>6. CASE words < 3
  <2>1. \A j \in 0 .. 3 : j = words => 4 * n + words + 1 = 4 * n + (j + 1)
    OBVIOUS
  <2>2. /\ words = 0 => Word1(more[4 * n + 1])
        /\ words = 1 => Word2(more[4 * n + 2])
        /\ words = 2 => Word3(more[4 * n + 3])
    BY <1>2, <2>1
  <2>3. Len(more) = 4 * n + (words + 1)
    BY <1>2
  <2>4. /\ words + 1 >= 1 => Word1(more[4 * n + 1])
        /\ words + 1 >= 2 => Word2(more[4 * n + 2])
        /\ words + 1 >= 3 => Word3(more[4 * n + 3])
    BY <1>5, <1>6, <2>2
  <2>5. Packets(more, n, words + 1)
    BY <1>2, <1>3, <2>3, <2>4 DEF Packets
  <2> QED BY <1>6, <2>5 DEF more
<1>7. CASE words = 3
  <2>1. Len(more) = 4 * (n + 1) + 0 /\ 4 * n + words + 1 = 4 * n + 4
    BY <1>2, <1>7
  <2>2. PacketAt(more, 4 * n)
    BY <1>2, <1>5, <1>7, <2>1 DEF PacketAt
  <2>3. ASSUME NEW k \in 0 .. (n + 1) - 1 PROVE PacketAt(more, 4 * k)
    <3>1. k \in 0 .. n - 1 \/ k = n
      OBVIOUS
    <3> QED BY <1>3, <2>2, <3>1
  <2>4. Packets(more, n + 1, 0)
    BY <1>2, <2>1, <2>3 DEF Packets
  <2> QED BY <1>7, <2>4 DEF more
<1> QED BY <1>6, <1>7

\* Nothing sent yet.
LEMMA NoPackets == Packets(<<>>, 0, 0)
<1>1. <<>> \in Seq(Tx!Word) /\ Len(<<>>) = 4 * 0 + 0
  OBVIOUS
<1> QED BY <1>1 DEF Packets

\* The aligner moves words along the stream; state_machine adds to it.
LEMMA StreamMoves ==
  ASSUME NEW S, NEW a \in Seq(S), NEW b \in Seq(S)
  PROVE  /\ a \o b \in Seq(S)
         /\ \A w \in S : a \o Append(b, w) = Append(a \o b, w)
         /\ b # <<>> => Append(a, Head(b)) \o Tail(b) = a \o b
<1>1. ASSUME NEW x \in Seq(S), NEW y \in Seq(S), Len(x) = Len(y),
             \A i \in 1 .. Len(x) : x[i] = y[i]
      PROVE  x = y
  BY <1>1
<1>2. ASSUME NEW w \in S PROVE a \o Append(b, w) = Append(a \o b, w)
  <2>1. /\ a \o Append(b, w) \in Seq(S) /\ Append(a \o b, w) \in Seq(S)
        /\ Len(a \o Append(b, w)) = Len(Append(a \o b, w))
    OBVIOUS
  <2>2. ASSUME NEW i \in 1 .. Len(a \o Append(b, w))
        PROVE  (a \o Append(b, w))[i] = Append(a \o b, w)[i]
    OBVIOUS
  <2> QED BY <1>1, <2>1, <2>2
<1>3. ASSUME b # <<>> PROVE Append(a, Head(b)) \o Tail(b) = a \o b
  <2>1. Head(b) \in S /\ Tail(b) \in Seq(S)
    BY <1>3
  <2>2. /\ Append(a, Head(b)) \o Tail(b) \in Seq(S) /\ a \o b \in Seq(S)
        /\ Len(Append(a, Head(b)) \o Tail(b)) = Len(a \o b)
    BY <1>3, <2>1
  <2>3. ASSUME NEW i \in 1 .. Len(Append(a, Head(b)) \o Tail(b))
        PROVE  (Append(a, Head(b)) \o Tail(b))[i] = (a \o b)[i]
    BY <1>3, <2>1, <2>2
  <2> QED BY <1>1, <2>2, <2>3
<1>4. a \o b \in Seq(S)
  OBVIOUS
<1> QED BY <1>2, <1>3, <1>4, Zenon

\* The accepted answers are counted as they are settled.
LEMMA AcceptedFacts ==
  ASSUME NEW s, NEW n \in Nat
  PROVE  /\ AcceptedUpTo(s, 0) = 0 /\ AcceptedUpTo(s, n) \in Nat
         /\ AcceptedUpTo(s, n + 1) = IF s[n + 1].outcome = "accepted" THEN AcceptedUpTo(s, n) + 1
                                     ELSE AcceptedUpTo(s, n)
<1> DEFINE T == {j \in Nat : s[j].outcome = "accepted"}
<1>1. /\ {j \in 1 .. 0 : j \in T} = {j \in 1 .. 0 : s[j].outcome = "accepted"}
      /\ {j \in 1 .. n : j \in T} = {j \in 1 .. n : s[j].outcome = "accepted"}
      /\ {j \in 1 .. n + 1 : j \in T} = {j \in 1 .. n + 1 : s[j].outcome = "accepted"}
      /\ n + 1 \in T <=> s[n + 1].outcome = "accepted"
  OBVIOUS
<1> HIDE DEF T
<1> QED BY <1>1, CountFacts DEF AcceptedUpTo

\* An accepted answer has a rank among the accepted ones.
LEMMA AcceptedRank ==
  ASSUME NEW s, NEW n \in Nat, NEW i \in 1 .. n, s[i].outcome = "accepted"
  PROVE  AcceptedUpTo(s, i) \in 1 .. AcceptedUpTo(s, n)
<1> DEFINE T == {j \in Nat : s[j].outcome = "accepted"}
<1>1. /\ {j \in 1 .. n : j \in T} = {j \in 1 .. n : s[j].outcome = "accepted"}
      /\ {j \in 1 .. i : j \in T} = {j \in 1 .. i : s[j].outcome = "accepted"}
      /\ i \in T
  OBVIOUS
<1> HIDE DEF T
<1> QED BY <1>1, CountRank DEF AcceptedUpTo

\* The count depends on the answers up to it only.
LEMMA AcceptedPrefix ==
  ASSUME NEW s, NEW t, NEW n \in Nat, \A j \in 1 .. n : t[j] = s[j]
  PROVE  AcceptedUpTo(t, n) = AcceptedUpTo(s, n)
<1>1. {j \in 1 .. n : t[j].outcome = "accepted"} = {j \in 1 .. n : s[j].outcome = "accepted"}
  OBVIOUS
<1> QED BY <1>1 DEF AcceptedUpTo

\* A number of answers, and the stream as a sequence of words.
LEMMA WordsFacts ==
  ASSUME ServerInv, WordsInv
  PROVE  /\ AllAccepted \in Nat /\ Len(settled) \in Nat
         /\ aligned \in Seq(Tx!Word) /\ tx_aligner \in Seq(Tx!Word) /\ stream \in Seq(Tx!Word)
         /\ http_response_headers \in Seq(Tx!Word) /\ http_response_body \in Seq(Tx!Word)
         /\ produce.word \in 1 .. 3
<1>1. settled \in Seq([sessionID : Sessions, length : Nat, outcome : {"accepted", "closed"}])
  BY ServerFacts DEF TxOK
<1>2. Len(settled) \in Nat
  BY <1>1
<1>3. AllAccepted \in Nat
  BY <1>2, AcceptedFacts DEF AllAccepted
<1>4. aligned \in Seq(Tx!Word) /\ tx_aligner \in Seq(Tx!Word)
  BY DEF WordsInv
<1>5. stream \in Seq(Tx!Word)
  BY <1>4, StreamMoves DEF stream
<1> QED BY <1>2, <1>3, <1>4, <1>5, ServerFacts DEF ServerFifosOK, IsFifo, ProduceOK

\* Nothing is announced and nothing sent at the start.
LEMMA WordsInitially == ServerInit => WordsInv
<1> SUFFICES ASSUME ServerInit PROVE WordsInv
  OBVIOUS
<1>1. /\ http_response = <<>> /\ http_response_headers = <<>> /\ http_response_body = <<>>
      /\ tcp_tx_req = <<>> /\ settled = <<>> /\ tx_aligner = <<>> /\ aligned = <<>>
      /\ tx_sm.state = "IDLE" /\ produce.word = 1
  BY DEF ServerInit
<1>2. Len(<<>>) = 0 /\ <<>> \in Seq(Tx!Word)
  OBVIOUS
<1>3. SizesMade
  BY <1>1, <1>2 DEF SizesMade
<1>4. Paired(http_response_headers, produce.word) /\ NextHeaders(http_response_headers, produce.word) = 1
  BY <1>1, <1>2 DEF Paired, NextHeaders
<1>5. stream = <<>> /\ AllAccepted = 0
  BY <1>1, <1>2, AcceptedFacts DEF stream, AllAccepted
<1>6. AllSent
  BY <1>5, NoPackets DEF AllSent
<1>7. PacketsSent
  BY <1>1, <1>6 DEF PacketsSent
<1> QED BY <1>1, <1>2, <1>3, <1>4, <1>7 DEF WordsInv

\* The steps that leave the answers and their words alone.
LEMMA WordsFrame ==
  ASSUME WordsInv, UNCHANGED <<txVars, produce>>
  PROVE  WordsInv'
<1>1. /\ http_response' = http_response /\ http_response_headers' = http_response_headers
      /\ http_response_body' = http_response_body /\ tcp_tx_req' = tcp_tx_req
      /\ tcp_tx_rsp' = tcp_tx_rsp /\ tx_aligner' = tx_aligner /\ tx_sm' = tx_sm
      /\ settled' = settled /\ aligned' = aligned /\ produce' = produce
  BY DEF txVars
<1>2. SizesMade'
  BY <1>1 DEF WordsInv, SizesMade
<1>3. /\ AllSent => AllSent'
      /\ \A words \in 0 .. 3 : Sending(words) => Sending(words)'
  BY <1>1 DEF AllSent, Sending, AllAccepted, stream
<1>4. PacketsSent'
  BY <1>1 DEF WordsInv, PacketsSent, AllSent, Sending, AllAccepted, stream, Tx!AcceptedUnread
<1> QED BY <1>1, <1>2, <1>4 DEF WordsInv

\* The answers that are settled and the stream that is not added to.
LEMMA SentKept ==
  ASSUME settled' = settled, stream' = stream
  PROVE  /\ AllAccepted' = AllAccepted
         /\ AllSent => AllSent'
         /\ \A words \in 0 .. 3 : Sending(words) => Sending(words)'
BY DEF AllSent, Sending, AllAccepted

\* The lengths that are asked for are those the application makes.
LEMMA SizesKept ==
  ASSUME SizesMade, http_response' = http_response, settled' = settled, tcp_tx_req' = tcp_tx_req,
         \/ tx_sm' = tx_sm
         \/ tx_sm.state # "IDLE" /\ tx_sm'.app_response = tx_sm.app_response
  PROVE  SizesMade'
BY DEF SizesMade

\* The FIFOs of words that a step leaves alone, while state_machine is not at
\* its headers.
LEMMA FifosKept ==
  ASSUME WordsInv, http_response_headers' = http_response_headers,
         http_response_body' = http_response_body, produce' = produce,
         tx_sm.state \notin {"DATA_HEADERS", "FLUSH_HEADERS"} \/ tx_sm' = tx_sm
  PROVE  /\ Paired(http_response_headers, produce.word)'
         /\ tx_sm'.state \notin {"DATA_HEADERS", "FLUSH_HEADERS"} =>
              NextHeaders(http_response_headers, produce.word)' = 1
         /\ \A i \in 1 .. Len(http_response_body') : BodyWordOK(http_response_body'[i])
BY DEF WordsInv

\* process_notify: the sizes it makes are the ones to announce.
LEMMA ProcessNotifyWords == ASSUME ServerInv, WordsInv, ProcessNotify PROVE WordsInv'
<1>1. /\ \E session : http_response' = Append(http_response, ResponseTo(session))
      /\ http_response_headers' = http_response_headers
      /\ http_response_body' = http_response_body /\ produce' = produce
      /\ tx_sm' = tx_sm /\ settled' = settled /\ tx_aligner' = tx_aligner /\ aligned' = aligned
      /\ tcp_tx_req' = tcp_tx_req /\ tcp_tx_rsp' = tcp_tx_rsp
  BY DEF ProcessNotify
<1>2. PICK session : http_response' = Append(http_response, ResponseTo(session))
  BY <1>1
<1>3. Made(ResponseTo(session))
  BY DEF Made, ResponseTo
<1> DEFINE n == Len(http_response)
<1>4. /\ n \in Nat /\ Len(http_response') = n + 1
      /\ \A i \in 1 .. n : http_response'[i] = http_response[i]
      /\ http_response'[n + 1] = ResponseTo(session)
  BY <1>2, AppendFacts, ServerFacts
<1>5. \A i \in 1 .. n : Made(http_response[i])
  BY DEF WordsInv, SizesMade
<1> HIDE DEF n
<1>6. \A i \in 1 .. n + 1 : Made(http_response'[i])
  <2>1. \A i \in 1 .. n + 1 : i \in 1 .. n \/ i = n + 1
    BY <1>4
  <2> QED BY <1>3, <1>4, <1>5, <2>1
<1>7. SizesMade'
  BY <1>1, <1>4, <1>6 DEF WordsInv, SizesMade
<1>8. PacketsSent'
  BY <1>1 DEF WordsInv, PacketsSent, AllSent, Sending, AllAccepted, stream, Tx!AcceptedUnread
<1> QED BY <1>1, <1>7, <1>8, FifosKept DEF WordsInv

\* produce_response: the next word of headers, or the body.
LEMMA ProduceHeadersWords == ASSUME ServerInv, WordsInv, ProduceHeaders PROVE WordsInv'
<1>1. /\ produce.word \in {1, 2} /\ produce' = [produce EXCEPT !.word = @ + 1]
      /\ http_response_headers' = Append(http_response_headers, HeadersWord(produce.word))
      /\ http_response_body' = http_response_body /\ http_response' = http_response
      /\ tx_sm' = tx_sm /\ settled' = settled /\ tx_aligner' = tx_aligner /\ aligned' = aligned
      /\ tcp_tx_req' = tcp_tx_req /\ tcp_tx_rsp' = tcp_tx_rsp
  BY DEF ProduceHeaders
<1>2. produce'.word = produce.word + 1
  BY <1>1, ServerFacts DEF ProduceOK
<1>3. /\ HeadersWord(produce.word) \in Tx!Word
      /\ HeadersWordOK(HeadersWord(produce.word)) /\ HeadersWord(produce.word).pos = produce.word
  <2>1. headers_size \in Nat /\ headers_size >= (produce.word - 1) * WordBytes
        /\ produce.rsp \in Nat
    BY <1>1, SizesAssumption, WordBytesAssumption, ServerFacts DEF ProduceOK
  <2> QED BY <1>1, <2>1, AnswerWords, WrittenWordType DEF HeadersWord
<1>4. /\ Paired(http_response_headers', produce'.word)
      /\ NextHeaders(http_response_headers', produce'.word)
           = NextHeaders(http_response_headers, produce.word)
  <2>1. Paired(http_response_headers, produce.word)
    BY DEF WordsInv
  <2> QED BY <1>1, <1>2, <1>3, <2>1, PairedAppend
<1>5. SizesMade'
  BY <1>1 DEF WordsInv, SizesMade
<1>6. PacketsSent'
  BY <1>1, <1>4 DEF WordsInv, PacketsSent, AllSent, Sending, AllAccepted, stream, Tx!AcceptedUnread
<1> QED BY <1>1, <1>4, <1>5, <1>6 DEF WordsInv

\* produce_response: the one word of body.
LEMMA ProduceBodyWords == ASSUME ServerInv, WordsInv, ProduceBody PROVE WordsInv'
<1> DEFINE w == Tx!WordOf(produce.rsp, "body", 1, body_size)
<1>1. /\ produce.word = 3 /\ produce'.word = 1
      /\ http_response_body' = Append(http_response_body, w)
      /\ http_response_headers' = http_response_headers /\ http_response' = http_response
      /\ tx_sm' = tx_sm /\ settled' = settled /\ tx_aligner' = tx_aligner /\ aligned' = aligned
      /\ tcp_tx_req' = tcp_tx_req /\ tcp_tx_rsp' = tcp_tx_rsp
  BY DEF ProduceBody
<1>2. BodyWordOK(w)
  BY AnswerWords
<1> HIDE DEF w
<1>3. /\ Paired(http_response_headers', produce'.word)
      /\ NextHeaders(http_response_headers', produce'.word)
           = NextHeaders(http_response_headers, produce.word)
  <2>1. Paired(http_response_headers, produce.word)
    BY DEF WordsInv
  <2> QED BY <1>1, <2>1, PairedBody
<1>4. \A i \in 1 .. Len(http_response_body') : BodyWordOK(http_response_body'[i])
  <2> DEFINE n == Len(http_response_body)
  <2>1. /\ n \in Nat /\ Len(http_response_body') = n + 1
        /\ \A i \in 1 .. n : http_response_body'[i] = http_response_body[i]
        /\ http_response_body'[n + 1] = w
    BY <1>1, WordsFacts, AppendFacts
  <2>2. \A i \in 1 .. n : BodyWordOK(http_response_body[i])
    BY DEF WordsInv
  <2> HIDE DEF n
  <2>3. \A i \in 1 .. n + 1 : i \in 1 .. n \/ i = n + 1
    BY <2>1
  <2> QED BY <1>2, <2>1, <2>2, <2>3
<1>5. SizesMade'
  BY <1>1 DEF WordsInv, SizesMade
<1>6. PacketsSent'
  BY <1>1, <1>3 DEF WordsInv, PacketsSent, AllSent, Sending, AllAccepted, stream, Tx!AcceptedUnread
<1> QED BY <1>1, <1>3, <1>4, <1>5, <1>6 DEF WordsInv

\* state_machine reads the next answer ...
LEMMA SmIdleWords == ASSUME ServerInv, WordsInv, TxStep(Tx!SmIdle) PROVE WordsInv'
<1>1. /\ tx_sm.state = "IDLE" /\ http_response # <<>>
      /\ tx_sm'.state = "TCP_REQ" /\ tx_sm'.app_response = Head(http_response)
      /\ http_response' = Tail(http_response)
      /\ http_response_headers' = http_response_headers
      /\ http_response_body' = http_response_body /\ produce' = produce
      /\ settled' = settled /\ tx_aligner' = tx_aligner /\ aligned' = aligned
      /\ tcp_tx_req' = tcp_tx_req /\ tcp_tx_rsp' = tcp_tx_rsp
  BY DEF TxStep, Tx!SmIdle, Tx!CanRead, Tx!tcpFifos, Tx!outside
<1> DEFINE n == Len(http_response)
<1>2. /\ n \in Nat \ {0} /\ Head(http_response) = http_response[1] /\ Len(http_response') = n - 1
      /\ \A i \in 1 .. n - 1 : http_response'[i] = http_response[i + 1]
  BY <1>1, TailFacts, ServerFacts
<1>3. \A i \in 1 .. n : Made(http_response[i])
  BY DEF WordsInv, SizesMade
<1> HIDE DEF n
<1>4. Made(http_response[1]) /\ \A i \in 1 .. n - 1 : Made(http_response'[i])
  <2>1. 1 \in 1 .. n /\ \A i \in 1 .. n - 1 : i + 1 \in 1 .. n
    BY <1>2
  <2> QED BY <1>2, <1>3, <2>1
<1>5. SizesMade'
  BY <1>1, <1>2, <1>4 DEF WordsInv, SizesMade
<1>6. PacketsSent'
  <2>1. AllSent
    BY <1>1 DEF WordsInv, PacketsSent
  <2>2. AllSent'
    BY <1>1, <2>1, SentKept DEF stream
  <2> QED BY <1>1, <2>2 DEF PacketsSent
<1> QED BY <1>1, <1>5, <1>6, FifosKept DEF WordsInv

\* ... and asks the TCP stack for its length, which is the one all answers have ...
LEMMA SmTcpReqWords == ASSUME ServerInv, WordsInv, TxStep(Tx!SmTcpReq) PROVE WordsInv'
<1> DEFINE asked == [sessionID |-> tx_sm.app_response.sessionID,
                     length    |-> Tx!Announced(tx_sm.app_response)]
<1>1. /\ tx_sm.state = "TCP_REQ" /\ tx_sm' = [tx_sm EXCEPT !.state = "TCP_RSP"]
      /\ tcp_tx_req' = Append(tcp_tx_req, asked)
      /\ http_response' = http_response
      /\ http_response_headers' = http_response_headers
      /\ http_response_body' = http_response_body /\ produce' = produce
      /\ settled' = settled /\ tx_aligner' = tx_aligner /\ aligned' = aligned
      /\ tcp_tx_rsp' = tcp_tx_rsp
  BY DEF TxStep, Tx!SmTcpReq, Tx!appFifos, Tx!innerFifos, Tx!outside
<1>2. asked.length = AnswerLength
  <2>1. Made(tx_sm.app_response)
    BY <1>1 DEF WordsInv, SizesMade
  <2> QED BY <2>1 DEF Made, Tx!Announced, AnswerLength
<1> HIDE DEF asked
<1>3. tx_sm'.state = "TCP_RSP" /\ tx_sm'.app_response = tx_sm.app_response
  BY <1>1, ServerFacts DEF TxOK
<1>4. tcp_tx_req = <<>> /\ tcp_tx_rsp = <<>>
  BY <1>1, ServerFacts DEF OneAnswerAsked
<1>5. Len(tcp_tx_req') = 1 /\ tcp_tx_req'[1] = asked
  BY <1>1, <1>4
<1>6. SizesMade'
  BY <1>1, <1>2, <1>3, <1>5 DEF WordsInv, SizesMade
<1>7. PacketsSent'
  <2>1. AllSent
    BY <1>1 DEF WordsInv, PacketsSent
  <2>2. AllSent'
    BY <1>1, <2>1, SentKept DEF stream
  <2> QED BY <1>1, <1>3, <1>4, <2>2 DEF PacketsSent, Tx!AcceptedUnread
<1> QED BY <1>1, <1>3, <1>6, <1>7, FifosKept DEF WordsInv

\* ... whose answer says whether the packet is to be sent.
LEMMA SmTcpRspWords == ASSUME ServerInv, WordsInv, TxStep(Tx!SmTcpRsp) PROVE WordsInv'
<1> DEFINE error == Head(tcp_tx_rsp).error
<1>1. /\ tx_sm.state = "TCP_RSP" /\ tcp_tx_rsp # <<>>
      /\ tx_sm' = [tx_sm EXCEPT !.state = Tx!AfterRsp(error)]
      /\ http_response' = http_response
      /\ http_response_headers' = http_response_headers
      /\ http_response_body' = http_response_body /\ produce' = produce
      /\ settled' = settled /\ tx_aligner' = tx_aligner /\ aligned' = aligned
      /\ tcp_tx_req' = tcp_tx_req
  BY DEF TxStep, Tx!SmTcpRsp, Tx!CanRead, Tx!appFifos, Tx!innerFifos, Tx!outside
<1>2. Tx!AcceptedUnread <=> error = 0
  BY <1>1 DEF Tx!AcceptedUnread
<1>3. error \in 0 .. 3
  <2>1. tcp_tx_rsp \in Seq(Tx!TxAnswer)
    BY ServerFacts DEF TxOK
  <2>2. Head(tcp_tx_rsp) \in Tx!TxAnswer
    BY <1>1, <2>1
  <2> QED BY <2>2 DEF Tx!TxAnswer
<1> HIDE DEF error
<1>4. /\ error = 0 => Tx!AfterRsp(error) = "DATA_HTTP_STATUS"
      /\ error = 1 => Tx!AfterRsp(error) = "FLUSH_HEADLINE"
      /\ error >= 2 => Tx!AfterRsp(error) = "TCP_REQ"
  BY <1>3 DEF Tx!AfterRsp
<1>5. tx_sm'.state = Tx!AfterRsp(error) /\ tx_sm'.app_response = tx_sm.app_response
  BY <1>1, ServerFacts DEF TxOK
<1>6. SizesMade'
  BY <1>1, <1>5, SizesKept DEF WordsInv
<1>7. PacketsSent'
  <2>1. CASE error = 0
    <3>1. Sending(0)'
      BY <1>1, <1>2, <2>1, SentKept DEF WordsInv, PacketsSent, stream
    <3> QED BY <1>4, <1>5, <2>1, <3>1 DEF PacketsSent
  <2>2. CASE error # 0
    <3>1. AllSent'
      BY <1>1, <1>2, <2>2, SentKept DEF WordsInv, PacketsSent, stream
    <3>2. tx_sm'.state \in {"FLUSH_HEADLINE", "TCP_REQ"}
      BY <1>3, <1>4, <1>5, <2>2
    <3> QED BY <3>1, <3>2 DEF PacketsSent
  <2> QED BY <2>1, <2>2
<1> QED BY <1>1, <1>6, <1>7, FifosKept DEF WordsInv

\* A word that state_machine sends is the next of its packet.
LEMMA WordSent ==
  ASSUME ServerInv, WordsInv, NEW words \in 0 .. 3, Sending(words), NEW w \in Tx!Word,
         \/ words = 0 /\ Word1(w)
         \/ words = 1 /\ Word2(w)
         \/ words = 2 /\ Word3(w)
         \/ words = 3 /\ Word4(w),
         settled' = settled, aligned' = aligned, tx_aligner' = Append(tx_aligner, w)
  PROVE  /\ words < 3 => Sending(words + 1)'
         /\ words = 3 => AllSent'
<1>1. stream' = Append(stream, w) /\ AllAccepted' = AllAccepted
  BY SMTT(30), WordsFacts, StreamMoves DEF stream, AllAccepted
<1>2. AllAccepted \in Nat \ {0} /\ Packets(stream, AllAccepted - 1, words)
  BY WordsFacts DEF Sending
<1>3. PICK n \in Nat : AllAccepted - 1 = n /\ AllAccepted = n + 1
  BY <1>2
<1>4. /\ words < 3 => Packets(Append(stream, w), n, words + 1)
      /\ words = 3 => Packets(Append(stream, w), n + 1, 0)
  BY <1>2, <1>3, PacketsAppend
<1>5. words < 3 => Sending(words + 1)'
  BY <1>1, <1>2, <1>3, <1>4 DEF Sending
<1>6. words = 3 => AllSent'
  BY <1>1, <1>3, <1>4 DEF AllSent
<1> QED BY <1>5, <1>6

\* The status line is taken and not sent.
LEMMA SmDataHttpStatusWords ==
  ASSUME ServerInv, WordsInv, TxStep(Tx!SmDataHttpStatus) PROVE WordsInv'
<1>1. /\ tx_sm.state = "DATA_HTTP_STATUS" /\ tx_sm' = [tx_sm EXCEPT !.state = "DATA_HEADERS"]
      /\ http_response' = http_response
      /\ http_response_headers' = http_response_headers
      /\ http_response_body' = http_response_body /\ produce' = produce
      /\ settled' = settled /\ tx_aligner' = tx_aligner /\ aligned' = aligned
      /\ tcp_tx_req' = tcp_tx_req
  BY DEF TxStep, Tx!SmDataHttpStatus, Tx!appFifos, Tx!tcpFifos, Tx!outside
<1>2. tx_sm'.state = "DATA_HEADERS" /\ tx_sm'.app_response = tx_sm.app_response
  BY <1>1, ServerFacts DEF TxOK
<1>3. SizesMade'
  BY <1>1, <1>2, SizesKept DEF WordsInv
<1>4. NextHeaders(http_response_headers', produce'.word) = 1
  BY <1>1 DEF WordsInv
<1>5. PacketsSent'
  <2>1. Sending(0)'
    BY <1>1, SentKept DEF WordsInv, PacketsSent, stream
  <2>2. Sending(NextHeaders(http_response_headers, produce.word) - 1)'
    <3>1. NextHeaders(http_response_headers', produce'.word) - 1 = 0
      BY <1>4
    <3> QED BY <2>1, <3>1 DEF Sending
  <2> QED BY <1>2, <2>2 DEF PacketsSent
<1> QED BY <1>1, <1>3, <1>4, <1>5, FifosKept DEF WordsInv

\* A word of headers goes to the aligner, without its last ...
LEMMA SmDataHeadersWords == ASSUME ServerInv, WordsInv, TxStep(Tx!SmDataHeaders) PROVE WordsInv'
<1> DEFINE in == Head(http_response_headers)
<1>1. /\ tx_sm.state = "DATA_HEADERS" /\ http_response_headers # <<>>
      /\ tx_sm' = [tx_sm EXCEPT !.state = IF in.last THEN "DATA_CRLF" ELSE "DATA_HEADERS"]
      /\ tx_aligner' = Append(tx_aligner, Tx!Middle(in))
      /\ http_response_headers' = Tail(http_response_headers)
      /\ http_response' = http_response
      /\ http_response_body' = http_response_body /\ produce' = produce
      /\ settled' = settled /\ aligned' = aligned /\ tcp_tx_req' = tcp_tx_req
  BY DEF TxStep, Tx!SmDataHeaders, Tx!CanRead, Tx!tcpFifos, Tx!outside
<1>2. /\ Paired(http_response_headers', produce'.word)
      /\ in \in Tx!Word /\ HeadersWordOK(in)
      /\ in.pos = NextHeaders(http_response_headers, produce.word)
      /\ NextHeaders(http_response_headers', produce'.word) = IF in.last THEN 1 ELSE 2
  <2>1. Paired(http_response_headers, produce.word) /\ produce.word \in 1 .. 3
    BY WordsFacts DEF WordsInv
  <2> QED BY <1>1, <2>1, PairedTail
<1>3. Sending(in.pos - 1)
  BY <1>1, <1>2 DEF WordsInv, PacketsSent
<1> HIDE DEF in
<1>4. /\ Tx!Middle(in) \in Tx!Word /\ Tx!Middle(in).bytes = in.bytes /\ ~Tx!Middle(in).last
  BY <1>2 DEF Tx!Middle, Tx!Word
<1>5. /\ tx_sm'.state = IF in.last THEN "DATA_CRLF" ELSE "DATA_HEADERS"
      /\ tx_sm'.app_response = tx_sm.app_response
  BY <1>1, ServerFacts DEF TxOK
<1>6. SizesMade'
  BY <1>1, <1>5, SizesKept DEF WordsInv
<1>7. /\ tx_aligner' \in Seq(Tx!Word) /\ aligned' \in Seq(Tx!Word)
      /\ \A i \in 1 .. Len(http_response_body') : BodyWordOK(http_response_body'[i])
  <2>1. tx_aligner' \in Seq(Tx!Word) /\ aligned' \in Seq(Tx!Word)
    BY <1>1, <1>4, WordsFacts
  <2>2. \A i \in 1 .. Len(http_response_body') : BodyWordOK(http_response_body'[i])
    BY <1>1 DEF WordsInv
  <2> QED BY <2>1, <2>2
<1>8. CASE in.pos = 1
  <2>1. ~in.last /\ Word1(Tx!Middle(in))
    BY <1>2, <1>4, <1>8 DEF HeadersWordOK, Word1
  <2>2. Sending(0)
    BY <1>3, <1>8
  <2>3. Sending(0 + 1)'
    BY <1>1, <1>4, <2>1, <2>2, WordSent
  <2>4. Sending(NextHeaders(http_response_headers, produce.word) - 1)'
    <3>1. NextHeaders(http_response_headers', produce'.word) - 1 = 0 + 1
      BY <1>2, <2>1
    <3> QED BY <2>3, <3>1 DEF Sending
  <2>5. PacketsSent'
    BY <1>5, <2>1, <2>4 DEF PacketsSent
  <2> QED BY <1>2, <1>5, <1>6, <1>7, <2>1, <2>5 DEF WordsInv
<1>9. CASE in.pos = 2
  <2>1. in.last /\ Word2(Tx!Middle(in))
    BY <1>2, <1>4, <1>9 DEF HeadersWordOK, Word2
  <2>2. Sending(1)
    BY <1>3, <1>9
  <2>3. Sending(1 + 1)'
    BY <1>1, <1>4, <2>1, <2>2, WordSent
  <2>4. Sending(2)'
    BY <2>3
  <2>5. PacketsSent'
    BY <1>5, <2>1, <2>4 DEF PacketsSent
  <2> QED BY <1>2, <1>5, <1>6, <1>7, <2>1, <2>5 DEF WordsInv
<1> QED BY <1>2, <1>8, <1>9 DEF HeadersWordOK

\* ... then the CR LF ...
LEMMA SmDataCrlfWords == ASSUME ServerInv, WordsInv, TxStep(Tx!SmDataCrlf) PROVE WordsInv'
<1>1. /\ tx_sm.state = "DATA_CRLF" /\ tx_sm' = [tx_sm EXCEPT !.state = "DATA_BODY"]
      /\ tx_aligner' = Append(tx_aligner, Tx!Crlf)
      /\ http_response' = http_response
      /\ http_response_headers' = http_response_headers
      /\ http_response_body' = http_response_body /\ produce' = produce
      /\ settled' = settled /\ aligned' = aligned /\ tcp_tx_req' = tcp_tx_req
  BY DEF TxStep, Tx!SmDataCrlf, Tx!appFifos, Tx!tcpFifos, Tx!outside
<1>2. Tx!Crlf \in Tx!Word /\ Word3(Tx!Crlf)
  BY DEF Tx!Crlf, Tx!Word, Tx!Parts, Word3
<1>3. tx_sm'.state = "DATA_BODY" /\ tx_sm'.app_response = tx_sm.app_response
  BY <1>1, ServerFacts DEF TxOK
<1>4. SizesMade'
  BY <1>1, <1>3, SizesKept DEF WordsInv
<1>5. Sending(3)'
  <2>1. Sending(2)
    BY <1>1 DEF WordsInv, PacketsSent
  <2>2. Sending(2 + 1)'
    BY <1>1, <1>2, <2>1, WordSent
  <2> QED BY <2>2
<1>6. PacketsSent'
  BY <1>3, <1>5 DEF PacketsSent
<1>7. tx_aligner' \in Seq(Tx!Word) /\ aligned' \in Seq(Tx!Word)
  BY <1>1, <1>2, WordsFacts
<1> QED BY <1>1, <1>4, <1>6, <1>7, FifosKept DEF WordsInv

\* ... and the body, whose one word is the last of the packet.
LEMMA BodyTail ==
  ASSUME ServerInv, WordsInv, http_response_body # <<>>,
         http_response_body' = Tail(http_response_body)
  PROVE  /\ Head(http_response_body) \in Tx!Word /\ BodyWordOK(Head(http_response_body))
         /\ \A i \in 1 .. Len(http_response_body') : BodyWordOK(http_response_body'[i])
<1> DEFINE n == Len(http_response_body)
<1>1. /\ n \in Nat \ {0} /\ Head(http_response_body) = http_response_body[1]
      /\ Len(http_response_body') = n - 1
      /\ \A i \in 1 .. n - 1 : http_response_body'[i] = http_response_body[i + 1]
      /\ http_response_body \in Seq(Tx!Word)
  BY WordsFacts, TailFacts
<1>2. \A i \in 1 .. n : BodyWordOK(http_response_body[i])
  BY DEF WordsInv
<1>3. Head(http_response_body) \in Tx!Word
  BY <1>1
<1> HIDE DEF n
<1>4. 1 \in 1 .. n /\ \A i \in 1 .. n - 1 : i + 1 \in 1 .. n
  BY <1>1
<1> QED BY <1>1, <1>2, <1>3, <1>4

\* state_machine sends the body and rests: the packet is whole.
LEMMA SmDataBodyWords == ASSUME ServerInv, WordsInv, TxStep(Tx!SmDataBody) PROVE WordsInv'
<1> DEFINE in == Head(http_response_body)
<1>1. /\ tx_sm.state = "DATA_BODY" /\ http_response_body # <<>>
      /\ tx_sm' = [tx_sm EXCEPT !.state = IF in.last THEN "IDLE" ELSE "DATA_BODY"]
      /\ tx_aligner' = Append(tx_aligner, in)
      /\ http_response_body' = Tail(http_response_body)
      /\ http_response' = http_response
      /\ http_response_headers' = http_response_headers /\ produce' = produce
      /\ settled' = settled /\ aligned' = aligned /\ tcp_tx_req' = tcp_tx_req
  BY DEF TxStep, Tx!SmDataBody, Tx!CanRead, Tx!tcpFifos, Tx!outside
<1>2. /\ in \in Tx!Word /\ BodyWordOK(in)
      /\ \A i \in 1 .. Len(http_response_body') : BodyWordOK(http_response_body'[i])
  BY <1>1, BodyTail
<1> HIDE DEF in
<1>3. tx_sm'.state = "IDLE" /\ tx_sm'.app_response = tx_sm.app_response
  BY <1>1, <1>2, ServerFacts DEF TxOK, BodyWordOK
<1>4. SizesMade'
  BY <1>1, <1>3, SizesKept DEF WordsInv
<1>5. AllSent'
  <2>1. Sending(3)
    BY <1>1 DEF WordsInv, PacketsSent
  <2>2. Word4(in)
    BY <1>2 DEF BodyWordOK, Word4
  <2> QED BY <1>1, <1>2, <2>1, <2>2, WordSent
<1>6. PacketsSent'
  BY <1>3, <1>5 DEF PacketsSent
<1>7. tx_aligner' \in Seq(Tx!Word) /\ aligned' \in Seq(Tx!Word)
  BY <1>1, <1>2, WordsFacts
<1>8. /\ Paired(http_response_headers, produce.word)'
      /\ NextHeaders(http_response_headers, produce.word)' = 1
  BY <1>1 DEF WordsInv
<1> QED BY <1>2, <1>4, <1>6, <1>7, <1>8 DEF WordsInv

\* The words of an answer that was refused are taken all the same.
LEMMA SmFlushHeadlineWords ==
  ASSUME ServerInv, WordsInv, TxStep(Tx!SmFlushHeadline) PROVE WordsInv'
<1>1. /\ tx_sm.state = "FLUSH_HEADLINE" /\ tx_sm' = [tx_sm EXCEPT !.state = "FLUSH_HEADERS"]
      /\ http_response' = http_response
      /\ http_response_headers' = http_response_headers
      /\ http_response_body' = http_response_body /\ produce' = produce
      /\ settled' = settled /\ tx_aligner' = tx_aligner /\ aligned' = aligned
      /\ tcp_tx_req' = tcp_tx_req
  BY DEF TxStep, Tx!SmFlushHeadline, Tx!appFifos, Tx!tcpFifos, Tx!outside
<1>2. tx_sm'.state = "FLUSH_HEADERS" /\ tx_sm'.app_response = tx_sm.app_response
  BY <1>1, ServerFacts DEF TxOK
<1>3. SizesMade'
  BY <1>1, <1>2, SizesKept DEF WordsInv
<1>4. AllSent'
  BY <1>1, SentKept DEF WordsInv, PacketsSent, stream
<1>5. PacketsSent'
  BY <1>2, <1>4 DEF PacketsSent
<1> QED BY <1>1, <1>2, <1>3, <1>5, FifosKept DEF WordsInv

\* A flushed word of headers: the other of its pair is next, or the body.
LEMMA SmFlushHeadersWords == ASSUME ServerInv, WordsInv, TxStep(Tx!SmFlushHeaders) PROVE WordsInv'
<1> DEFINE in == Head(http_response_headers)
<1>1. /\ tx_sm.state = "FLUSH_HEADERS" /\ http_response_headers # <<>>
      /\ tx_sm' = [tx_sm EXCEPT !.state = Tx!AfterFlushed(in.last)]
      /\ http_response_headers' = Tail(http_response_headers)
      /\ http_response' = http_response
      /\ http_response_body' = http_response_body /\ produce' = produce
      /\ settled' = settled /\ tx_aligner' = tx_aligner /\ aligned' = aligned
      /\ tcp_tx_req' = tcp_tx_req
  BY DEF TxStep, Tx!SmFlushHeaders, Tx!CanRead, Tx!tcpFifos, Tx!innerFifos, Tx!outside
<1>2. /\ Paired(http_response_headers', produce'.word)
      /\ NextHeaders(http_response_headers', produce'.word) = IF in.last THEN 1 ELSE 2
  <2>1. Paired(http_response_headers, produce.word) /\ produce.word \in 1 .. 3
    BY WordsFacts DEF WordsInv
  <2> QED BY <1>1, <2>1, PairedTail
<1> HIDE DEF in
<1>3. /\ tx_sm'.state = IF in.last THEN "FLUSH_BODY" ELSE "FLUSH_HEADERS"
      /\ tx_sm'.app_response = tx_sm.app_response
  BY <1>1, ServerFacts DEF TxOK, Tx!AfterFlushed
<1>4. SizesMade'
  BY <1>1, <1>3, SizesKept DEF WordsInv
<1>5. AllSent'
  BY <1>1, SentKept DEF WordsInv, PacketsSent, stream
<1>6. PacketsSent'
  BY <1>3, <1>5 DEF PacketsSent
<1> QED BY <1>1, <1>2, <1>3, <1>4, <1>6 DEF WordsInv

\* The flushed body: nothing of the refused answer is left.
LEMMA SmFlushBodyWords == ASSUME ServerInv, WordsInv, TxStep(Tx!SmFlushBody) PROVE WordsInv'
<1>1. /\ tx_sm.state = "FLUSH_BODY" /\ http_response_body # <<>>
      /\ tx_sm' = [tx_sm EXCEPT !.state = IF Head(http_response_body).last THEN "IDLE" ELSE "FLUSH_BODY"]
      /\ http_response_body' = Tail(http_response_body)
      /\ http_response' = http_response
      /\ http_response_headers' = http_response_headers /\ produce' = produce
      /\ settled' = settled /\ tx_aligner' = tx_aligner /\ aligned' = aligned
      /\ tcp_tx_req' = tcp_tx_req
  BY DEF TxStep, Tx!SmFlushBody, Tx!CanRead, Tx!tcpFifos, Tx!innerFifos, Tx!outside
<1>2. /\ BodyWordOK(Head(http_response_body))
      /\ \A i \in 1 .. Len(http_response_body') : BodyWordOK(http_response_body'[i])
  BY <1>1, BodyTail
<1>3. tx_sm'.state = "IDLE" /\ tx_sm'.app_response = tx_sm.app_response
  BY <1>1, <1>2, ServerFacts DEF TxOK, BodyWordOK
<1>4. SizesMade'
  BY <1>1, <1>3, SizesKept DEF WordsInv
<1>5. AllSent'
  BY <1>1, SentKept DEF WordsInv, PacketsSent, stream
<1>6. PacketsSent'
  BY <1>3, <1>5 DEF PacketsSent
<1>7. /\ Paired(http_response_headers, produce.word)'
      /\ NextHeaders(http_response_headers, produce.word)' = 1
  BY <1>1 DEF WordsInv
<1> QED BY <1>1, <1>2, <1>4, <1>6, <1>7 DEF WordsInv

\* The status line parser and the aligner leave the answers and the stream.
LEMMA TxStatusCodeParserWords == ASSUME ServerInv, WordsInv, TxStatusCodeParser PROVE WordsInv'
<1>1. /\ http_response' = http_response /\ http_response_headers' = http_response_headers
      /\ http_response_body' = http_response_body /\ tcp_tx_req' = tcp_tx_req
      /\ tcp_tx_rsp' = tcp_tx_rsp /\ tx_aligner' = tx_aligner /\ tx_sm' = tx_sm
      /\ settled' = settled /\ aligned' = aligned /\ produce' = produce
  BY DEF TxStatusCodeParser, TxStep, Tx!StatusCodeParser, Tx!ScIdle, Tx!ScReadInput,
         Tx!ScWriteOutput, Tx!appFifos, Tx!tcpFifos, Tx!innerFifos, Tx!outside
<1>2. SizesMade'
  BY <1>1, SizesKept DEF WordsInv
<1>3. PacketsSent'
  BY <1>1 DEF WordsInv, PacketsSent, AllSent, Sending, AllAccepted, stream, Tx!AcceptedUnread
<1> QED BY <1>1, <1>2, <1>3, FifosKept DEF WordsInv

\* The aligner takes a word: the stream is the same.
LEMMA TxAlignerTakeWords == ASSUME ServerInv, WordsInv, TxAlignerTake PROVE WordsInv'
<1>1. /\ http_response' = http_response /\ http_response_headers' = http_response_headers
      /\ http_response_body' = http_response_body /\ tcp_tx_req' = tcp_tx_req
      /\ tcp_tx_rsp' = tcp_tx_rsp /\ tx_sm' = tx_sm /\ settled' = settled /\ produce' = produce
      /\ tx_aligner # <<>> /\ tx_aligner' = Tail(tx_aligner)
      /\ aligned' = Append(aligned, Head(tx_aligner))
  BY DEF TxAlignerTake, TxStep, Tx!AlignerTake, Tx!CanRead, Tx!appFifos, Tx!tcpFifos
<1>2. stream' = stream
  BY <1>1, WordsFacts, StreamMoves DEF stream
<1>3. SizesMade'
  BY <1>1, SizesKept DEF WordsInv
<1>4. PacketsSent'
  BY <1>1, <1>2 DEF WordsInv, PacketsSent, AllSent, Sending, AllAccepted, Tx!AcceptedUnread
<1>5. tx_aligner' \in Seq(Tx!Word) /\ aligned' \in Seq(Tx!Word)
  <2>1. Head(tx_aligner) \in Tx!Word /\ Tail(tx_aligner) \in Seq(Tx!Word)
    BY <1>1, WordsFacts
  <2> QED BY <1>1, <2>1, WordsFacts
<1> QED BY <1>1, <1>3, <1>4, <1>5, FifosKept DEF WordsInv

\* The TCP stack accepts the length that was asked for, or refuses it ...
LEMMA TxTcpSettleWords == ASSUME ServerInv, WordsInv, TxTcpSettle PROVE WordsInv'
<1> DEFINE n == Len(settled)
<1>1. /\ tcp_tx_req # <<>> /\ tcp_tx_req' = Tail(tcp_tx_req) /\ tx_sm' = tx_sm
      /\ http_response' = http_response /\ http_response_headers' = http_response_headers
      /\ http_response_body' = http_response_body /\ produce' = produce
      /\ tx_aligner' = tx_aligner /\ aligned' = aligned
      /\ \E error \in {0, 1} :
           /\ tcp_tx_rsp' = Append(tcp_tx_rsp, [sessionID |-> Head(tcp_tx_req).sessionID, error |-> error])
           /\ settled' = Append(settled, [sessionID |-> Head(tcp_tx_req).sessionID,
                                          length |-> Head(tcp_tx_req).length,
                                          outcome |-> IF error = 0 THEN "accepted" ELSE "closed"])
  BY DEF TxTcpSettle, TxStep, Tx!TcpSettle, Tx!CanRead, Tx!appFifos, Tx!innerFifos
<1>2. tx_sm.state = "TCP_RSP" /\ Len(tcp_tx_req) = 1 /\ tcp_tx_rsp = <<>>
  BY <1>1, ServerFacts DEF OneAnswerAsked
<1>3. tcp_tx_req' = <<>> /\ Head(tcp_tx_req) = tcp_tx_req[1] /\ tcp_tx_req[1].length = AnswerLength
  <2>1. tcp_tx_req \in Seq(Tx!TxRequest)
    BY ServerFacts DEF TxOK
  <2>2. tcp_tx_req' = <<>> /\ Head(tcp_tx_req) = tcp_tx_req[1]
    BY <1>1, <1>2, <2>1, TailFacts
  <2>3. tcp_tx_req[1].length = AnswerLength
    BY <1>2 DEF WordsInv, SizesMade
  <2> QED BY <2>2, <2>3
<1> DEFINE req == tcp_tx_req[1]
<1>4. PICK error \in {0, 1} :
        /\ tcp_tx_rsp' = <<[sessionID |-> req.sessionID, error |-> error]>>
        /\ settled' = Append(settled, [sessionID |-> req.sessionID, length |-> req.length,
                                       outcome |-> IF error = 0 THEN "accepted" ELSE "closed"])
  BY <1>1, <1>2, <1>3
<1>5. req.length = AnswerLength
  BY <1>3
<1> HIDE DEF req
<1>6. /\ n \in Nat /\ Len(settled') = n + 1
      /\ \A i \in 1 .. n : settled'[i] = settled[i]
      /\ settled'[n + 1].length = AnswerLength
      /\ settled'[n + 1].outcome = IF error = 0 THEN "accepted" ELSE "closed"
  <2>1. settled \in Seq([sessionID : Sessions, length : Nat, outcome : {"accepted", "closed"}])
    BY ServerFacts DEF TxOK
  <2> QED BY <1>4, <1>5, <2>1, AppendFacts
<1>7. Tx!AcceptedUnread' <=> error = 0
  <2>1. tcp_tx_rsp' # <<>> /\ Head(tcp_tx_rsp').error = error
    BY <1>4
  <2> QED BY <2>1 DEF Tx!AcceptedUnread
<1>8. AllSent /\ AllAccepted = AcceptedUpTo(settled, n) /\ AllAccepted \in Nat
  BY <1>2, WordsFacts DEF WordsInv, PacketsSent, Tx!AcceptedUnread, AllAccepted
<1>9. \A i \in 1 .. n : settled[i].length = AnswerLength
  BY DEF WordsInv, SizesMade
<1> HIDE DEF n
<1>10. AllAccepted' = IF error = 0 THEN AllAccepted + 1 ELSE AllAccepted
  <2>1. AcceptedUpTo(settled', n) = AcceptedUpTo(settled, n)
    BY <1>6, AcceptedPrefix
  <2>2. AcceptedUpTo(settled', n + 1) = IF settled'[n + 1].outcome = "accepted"
                                        THEN AcceptedUpTo(settled', n) + 1
                                        ELSE AcceptedUpTo(settled', n)
    BY <1>6, AcceptedFacts
  <2>3. AllAccepted' = AcceptedUpTo(settled', n + 1)
    BY <1>6 DEF AllAccepted
  <2> QED BY <1>6, <1>8, <2>1, <2>2, <2>3
<1>11. SizesMade'
  <2>1. \A i \in 1 .. n + 1 : settled'[i].length = AnswerLength
    <3>1. \A i \in 1 .. n + 1 : i \in 1 .. n \/ i = n + 1
      BY <1>6
    <3> QED BY <1>6, <1>9, <3>1
  <2>2. Len(tcp_tx_req') = 0
    BY <1>3
  <2> QED BY <1>1, <1>6, <2>1, <2>2 DEF WordsInv, SizesMade
<1>12. PacketsSent'
  <2>1. stream' = stream /\ tx_sm'.state = "TCP_RSP"
    BY <1>1, <1>2 DEF stream
  <2>2. CASE error = 0
    <3>1. AllAccepted' # 0 /\ AllAccepted' - 1 = AllAccepted
      BY <1>8, <1>10, <2>2
    <3>2. Sending(0)'
      BY <1>8, <2>1, <3>1 DEF Sending, AllSent
    <3> QED BY <1>7, <2>1, <2>2, <3>2 DEF PacketsSent
  <2>3. CASE error # 0
    <3>1. AllSent'
      BY <1>8, <1>10, <2>1, <2>3 DEF AllSent
    <3> QED BY <1>7, <2>1, <2>3, <3>1 DEF PacketsSent
  <2> QED BY <2>2, <2>3
<1> QED BY <1>1, <1>11, <1>12, FifosKept DEF WordsInv

\* ... or puts it off.
LEMMA TxTcpRetryWords == ASSUME ServerInv, WordsInv, TxTcpRetry PROVE WordsInv'
<1>1. /\ tcp_tx_req # <<>> /\ tcp_tx_req' = Tail(tcp_tx_req) /\ tx_sm' = tx_sm
      /\ http_response' = http_response /\ http_response_headers' = http_response_headers
      /\ http_response_body' = http_response_body /\ produce' = produce
      /\ tx_aligner' = tx_aligner /\ aligned' = aligned /\ settled' = settled
      /\ \E error \in {2, 3} :
           tcp_tx_rsp' = Append(tcp_tx_rsp, [sessionID |-> Head(tcp_tx_req).sessionID, error |-> error])
  BY DEF TxTcpRetry, TxStep, Tx!TcpRetry, Tx!CanRead, Tx!appFifos, Tx!innerFifos, Tx!outside
<1>2. tx_sm.state = "TCP_RSP" /\ Len(tcp_tx_req) = 1 /\ tcp_tx_rsp = <<>>
  BY <1>1, ServerFacts DEF OneAnswerAsked
<1>3. tcp_tx_req' = <<>>
  <2>1. tcp_tx_req \in Seq(Tx!TxRequest)
    BY ServerFacts DEF TxOK
  <2> QED BY <1>1, <1>2, <2>1, TailFacts
<1>4. ~Tx!AcceptedUnread'
  <2>1. PICK error \in {2, 3} :
          tcp_tx_rsp' = <<[sessionID |-> Head(tcp_tx_req).sessionID, error |-> error]>>
    BY <1>1, <1>2
  <2>2. Head(tcp_tx_rsp').error = error /\ error # 0
    BY <2>1
  <2> QED BY <2>2 DEF Tx!AcceptedUnread
<1>5. SizesMade'
  <2>1. Len(tcp_tx_req') = 0
    BY <1>3
  <2> QED BY <1>1, <2>1 DEF WordsInv, SizesMade
<1>6. AllSent'
  BY <1>1, <1>2, SentKept DEF WordsInv, PacketsSent, Tx!AcceptedUnread, stream
<1>7. PacketsSent'
  BY <1>1, <1>2, <1>4, <1>6 DEF PacketsSent
<1> QED BY <1>1, <1>5, <1>7, FifosKept DEF WordsInv

\* Every step keeps what has been announced and what has been written in step.
LEMMA WordsStep == ServerInv /\ WordsInv /\ [ServerNext]_serverVars => WordsInv'
<1> SUFFICES ASSUME ServerInv, WordsInv, [ServerNext]_serverVars PROVE WordsInv'
  OBVIOUS
<1>1. CASE \/ RxStateMachine \/ RxHeadlineParser \/ RxRequestIssuer \/ RxPayloadParser
           \/ RxTcpNotify \/ RxTcpAccept \/ RxTcpDeliver \/ Rest \/ ConsumeRequest
           \/ UNCHANGED serverVars
  <2>1. UNCHANGED <<txVars, produce>>
    BY <1>1 DEF RxStateMachine, RxHeadlineParser, RxRequestIssuer, RxPayloadParser, RxTcpNotify,
                RxTcpAccept, RxTcpDeliver, Rest, RxStep, ConsumeRequest, ConsumeHeaders,
                ConsumeBody, serverVars
  <2> QED BY <2>1, WordsFrame
<1>2. CASE TxStateMachine
  BY <1>2, SmIdleWords, SmTcpReqWords, SmTcpRspWords, SmDataHttpStatusWords, SmDataHeadersWords,
     SmDataCrlfWords, SmDataBodyWords, SmFlushHeadlineWords, SmFlushHeadersWords,
     SmFlushBodyWords
  DEF TxStateMachine, Tx!StateMachine, TxStep
<1> QED
  BY <1>1, <1>2, ProcessNotifyWords, ProduceHeadersWords, ProduceBodyWords,
     TxStatusCodeParserWords, TxAlignerTakeWords, TxTcpSettleWords, TxTcpRetryWords
  DEF ServerNext, ProduceResponse

\* A rank among the accepted answers is a place in the stream.
LEMMA BytesFollow ==
  ASSUME ServerInv, WordsInv, headers_size + body_size + 2 < LengthValues
  PROVE  BytesAsAnnounced
<1> SUFFICES ASSUME tx_sm.state = "IDLE"
             PROVE  /\ Len(stream) = 4 * AllAccepted
                    /\ \A i \in 1 .. Len(settled) :
                         settled[i].outcome = "accepted" =>
                           LET k == 4 * (AcceptedUpTo(settled, i) - 1)
                           IN  /\ stream[k + 1].bytes + stream[k + 2].bytes + stream[k + 3].bytes
                                    + stream[k + 4].bytes = settled[i].length
                               /\ \A j \in 1 .. 4 : stream[k + j].last <=> j = 4
  BY DEF BytesAsAnnounced, AllAccepted
<1>1. AllSent
  BY DEF WordsInv, PacketsSent
<1>2. AllAccepted \in Nat /\ Len(settled) \in Nat
  BY WordsFacts
<1>3. Len(stream) = 4 * AllAccepted
  BY <1>1, <1>2 DEF AllSent, Packets
<1>4. headers_size \in Nat /\ body_size \in Nat /\ WordBytes \in Nat
  BY SizesAssumption, WordBytesAssumption
<1>5. AnswerLength = body_size + headers_size + 2
  <2> DEFINE sum == body_size + headers_size + 2
  <2>1. sum \in Nat /\ sum < LengthValues /\ LengthValues \in Nat \ {0}
    BY <1>4, InnerAssumption
  <2> HIDE DEF sum
  <2>2. sum % LengthValues = sum
    BY <2>1
  <2> QED BY <2>2 DEF AnswerLength, sum
<1>6. ASSUME NEW i \in 1 .. Len(settled), settled[i].outcome = "accepted",
             NEW k, k = 4 * (AcceptedUpTo(settled, i) - 1)
      PROVE  /\ stream[k + 1].bytes + stream[k + 2].bytes + stream[k + 3].bytes
                  + stream[k + 4].bytes = settled[i].length
             /\ \A j \in 1 .. 4 : stream[k + j].last <=> j = 4
  <2>1. PICK r \in 0 .. AllAccepted - 1 : r = AcceptedUpTo(settled, i) - 1
    <3>1. AcceptedUpTo(settled, i) \in 1 .. AllAccepted
      BY <1>2, <1>6, AcceptedRank DEF AllAccepted
    <3> QED BY <1>2, <3>1
  <2>2. PacketAt(stream, k)
    BY <1>1, <1>6, <2>1 DEF AllSent, Packets
  <2>3. settled[i].length = body_size + headers_size + 2
    BY <1>5 DEF WordsInv, SizesMade
  <2>4. WordBytes + (headers_size - WordBytes) + 2 + body_size = body_size + headers_size + 2
    BY <1>4
  <2>5. /\ stream[k + 1].bytes = WordBytes /\ stream[k + 2].bytes = headers_size - WordBytes
        /\ stream[k + 3].bytes = 2 /\ stream[k + 4].bytes = body_size
        /\ ~stream[k + 1].last /\ ~stream[k + 2].last /\ ~stream[k + 3].last
        /\ stream[k + 4].last
    BY <2>2 DEF PacketAt, Word1, Word2, Word3, Word4
  <2>6. \A j \in 1 .. 4 : stream[k + j].last <=> j = 4
    <3>1. \A j \in 1 .. 4 : j = 1 \/ j = 2 \/ j = 3 \/ j = 4
      OBVIOUS
    <3> QED BY <2>5, <3>1
  <2> QED BY <2>3, <2>4, <2>5, <2>6
<1> QED BY <1>3, <1>6

\* process_notify announces sizes it does not write, produce_response writes
\* bytes for requests it does not see, and every accepted answer still gets the
\* bytes announced for it: its four words and last on the fourth, whatever was
\* refused, flushed or retried in between.  Nothing keeps the announced length
\* from wrapping but the sizes of the application, whose sum fits in 16 bits.
THEOREM AnswersCarryTheirBytes ==
  ASSUME headers_size + body_size + 2 < LengthValues
  PROVE  ServerSpec => []BytesAsAnnounced
<1>1. ServerInit => WordsInv
  BY WordsInitially
<1>2. ServerInv /\ WordsInv /\ [ServerNext]_serverVars => WordsInv'
  BY WordsStep
<1>3. ServerInv /\ WordsInv => BytesAsAnnounced
  BY BytesFollow
<1> QED BY <1>1, <1>2, <1>3, ServerInvariant, PTL DEF ServerSpec
-----------------------------------------------------------------------------
(***************************************************************************)
(* The composition: what the application and the response path do is, for  *)
(* the request path, what its environment may do.                          *)
(***************************************************************************)

\* Every step of the server is one of the request path alone or leaves it be.
LEMMA ServerStepOfRequestPath == [ServerNext]_serverVars => [Next]_vars
<1> SUFFICES ASSUME [ServerNext]_serverVars PROVE [Next]_vars
  OBVIOUS
<1>1. CASE \/ RxStateMachine \/ RxHeadlineParser \/ RxRequestIssuer \/ RxPayloadParser
           \/ RxTcpNotify \/ RxTcpAccept \/ RxTcpDeliver
  BY <1>1 DEF RxStateMachine, RxHeadlineParser, RxRequestIssuer, RxPayloadParser, RxTcpNotify,
     RxTcpAccept, RxTcpDeliver, RxStep, Next
<1>2. CASE ProcessNotify
  BY <1>2 DEF ProcessNotify, Next
<1>3. CASE ConsumeRequest
  BY <1>3 DEF ConsumeRequest, ConsumeHeaders, ConsumeBody, Next
<1>4. CASE ProduceResponse
  BY <1>4 DEF ProduceResponse, ProduceHeaders, ProduceBody, rxVars
<1>5. CASE \/ TxStateMachine \/ TxStatusCodeParser \/ TxAlignerTake \/ TxTcpSettle \/ TxTcpRetry
  BY <1>5 DEF TxStateMachine, TxStatusCodeParser, TxAlignerTake, TxTcpSettle, TxTcpRetry, TxStep, rxVars
<1>6. CASE Rest
  BY <1>6 DEF Rest, Poll
<1>7. CASE UNCHANGED serverVars
  BY <1>7 DEF serverVars, rxVars
<1> QED BY <1>1, <1>2, <1>3, <1>4, <1>5, <1>6, <1>7 DEF ServerNext

\* The request path in the server behaves as the request path alone, whose
\* environment (an application that takes what is offered, in any order) is thus
\* shown to be no kinder than the real one.  With it the server delivers its
\* requests as the abstract specification promises: process_notify and
\* consume_request (kernel.cc:36) are offered every request, its headers and its
\* body in the order they were served and nothing else.
THEOREM ServerImplementsDelivery == ServerSpec => Spec /\ RefinesDelivery
<1>1. ServerInit => Init
  BY DEF ServerInit
<1>2. ServerSpec => Spec
  BY <1>1, ServerStepOfRequestPath, PTL DEF ServerSpec, Spec
<1> QED BY <1>2, ImplementsRequestDelivery, PTL
=============================================================================
