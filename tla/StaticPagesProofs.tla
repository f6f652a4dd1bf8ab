------------------------- MODULE StaticPagesProofs --------------------------
(***************************************************************************)
(* Theorems about StaticPages, for every word size, every set of sessions, *)
(* lengths and lines, every FIFO depth, all sizes of the two files and any *)
(* number of notifications.  The request path is that of                   *)
(* RequestProcessorProofs and RequestPayloadProofs.                        *)
(***************************************************************************)
EXTENDS StaticPages, RequestPayloadProofs

(***************************************************************************)
(* The inductive invariant: types ...                                      *)
(***************************************************************************)

PagesFifosOK ==
  /\ IsFifo(strm_internal, Internal, InternalDepth)
  /\ IsFifo(http_response, PageResponse, PortDepth)
  /\ IsFifo(http_response_headers, Page, PortDepth)
  /\ IsFifo(http_response_body, Page, PortDepth)
PreqOK == preq \in [at : {"POLL", "HEADERS", "BODY", "STOPPED"}, service_running : BOOLEAN]
PresOK ==
  /\ pres \in [at : {"POLL", "HEADERS", "BODY", "STOPPED"}, internal : Internal \cup {Unset},
               mem_pointer : Nat, bytes_sent : Nat]
  /\ pres.at # "POLL" => pres.internal \in Internal
TakenOK == taken_by_tx \in [responses : Seq(PageResponse), headers : Seq(Page), body : Seq(Page)]

PagesTypes == PagesFifosOK /\ PreqOK /\ PresOK /\ TakenOK

(***************************************************************************)
(* ... the requests between the two processes, and those after a DELETE,   *)
(***************************************************************************)

answered == Len(responses)

AnswersInOrder ==
  /\ answered + Len(strm_internal) = Len(app.requests)
  /\ \A i \in 1 .. answered : responses[i].meta = app.requests[i].meta
  /\ \A i \in 1 .. Len(strm_internal) : strm_internal[i].meta = app.requests[answered + i].meta

NotDelete(i) == app.requests[i].method # "DELETE"
ServiceRuns ==
  /\ \A i \in 1 .. Len(app.requests) - 1 : NotDelete(i)
  /\ preq.service_running => \A i \in 1 .. Len(app.requests) : NotDelete(i)
  /\ preq.at = "POLL" => preq.service_running

(***************************************************************************)
(* ... and the words of the pages: length bytes of a part take count words,*)
(* of which the loop of process_response has written k for the response in *)
(* work.                                                                   *)
(***************************************************************************)

\* last is on every count-th word and on no other.
LastEvery(words, count) == \A j \in 1 .. Len(words) : words[j].last <=> j % count = 0

headerWords == WordCount(header_length)
bodyWords   == WordCount(body_length)
Written(words, count, k) == Len(words) = count * (answered - 1) + k /\ pres.bytes_sent = k * WordBytes

PagesWritten ==
  /\ pres.at \in {"POLL", "STOPPED"} =>
       Len(pages.headers) = headerWords * answered /\ Len(pages.body) = bodyWords * answered
  /\ pres.at = "HEADERS" =>
       /\ answered > 0 /\ Len(pages.body) = bodyWords * (answered - 1)
       /\ \E k \in 0 .. headerWords - 1 : Written(pages.headers, headerWords, k)
  /\ pres.at = "BODY" =>
       /\ answered > 0 /\ Len(pages.headers) = headerWords * answered
       /\ \E k \in 0 .. bodyWords - 1 : Written(pages.body, bodyWords, k)
  /\ LastEvery(pages.headers, headerWords) /\ LastEvery(pages.body, bodyWords)

PagesInv == IInv /\ PagesTypes /\ AnswersInOrder /\ ServiceRuns /\ PagesWritten

(***************************************************************************)
(* Where every request has a body: the streams of the request path, each   *)
(* transfer with one beat of headers and a body that ends with last, and   *)
(* how far process_request has come in them.                               *)
(***************************************************************************)

EveryRequestHasBody == \A length \in Lengths \ {0} : BeatCount(length) >= 3

HeadersByTransfer ==
  \A j \in 1 .. Len(offeredHeaders) : offeredHeaders[j].data.req = j /\ offeredHeaders[j].last
NextReq(beat) == IF beat.last THEN beat.data.req + 1 ELSE beat.data.req
BodyByTransfer ==
  \A j \in 1 .. Len(offeredBody) :
    offeredBody[j].data.req = IF j = 1 THEN 1 ELSE NextReq(offeredBody[j - 1])

StreamsInv == PInv /\ HeadersByTransfer /\ BodyByTransfer

\* The bodies of the first m requests have been drained, and no beat of another.
DrainedUpTo(m) ==
  /\ IF m = 0 THEN app.body = <<>>
     ELSE /\ app.body # <<>>
          /\ app.body[Len(app.body)].data.req = m /\ app.body[Len(app.body)].last
  /\ \A j \in 1 .. Len(app.body) : app.body[j].data.req <= m
  /\ \A i \in 1 .. m : \E j \in 1 .. Len(app.body) : app.body[j].data.req = i /\ app.body[j].last

\* The same, and some beats of the body of the next one.
DrainedInto(m) ==
  /\ app.body # <<>>
  /\ app.body[Len(app.body)].data.req = m /\ ~app.body[Len(app.body)].last
  /\ \A j \in 1 .. Len(app.body) : app.body[j].data.req <= m
  /\ \A i \in 1 .. m - 1 : \E j \in 1 .. Len(app.body) : app.body[j].data.req = i /\ app.body[j].last

Drained ==
  /\ preq.at \in {"POLL", "STOPPED"} =>
       Len(app.headers) = Len(app.requests) /\ DrainedUpTo(Len(app.requests))
  /\ preq.at = "HEADERS" =>
       /\ app.requests # <<>>
       /\ Len(app.headers) = Len(app.requests) - 1 /\ DrainedUpTo(Len(app.requests) - 1)
  /\ preq.at = "BODY" =>
       /\ app.requests # <<>> /\ Len(app.headers) = Len(app.requests)
       /\ DrainedUpTo(Len(app.requests) - 1) \/ DrainedInto(Len(app.requests))

DrainInv == PagesInv /\ StreamsInv /\ Drained
-----------------------------------------------------------------------------
(***************************************************************************)
(* The arithmetic of words                                                 *)
(***************************************************************************)

\* A multiple of h that is less than h away from zero is zero.
LEMMA SmallMultiple ==
  ASSUME NEW h \in Nat \ {0}, NEW x \in Int, h * x < h, h * x > -h
  PROVE  x = 0
<1>1. x >= 1 => h * x >= h
  OBVIOUS
<1>2. x <= -1 => h * x <= -h
  OBVIOUS
<1> QED BY <1>1, <1>2

\* In the run of h words that follows q runs, the last word is the h-th.
LEMMA EndOfRun ==
  ASSUME NEW h \in Nat \ {0}, NEW q \in Nat, NEW j \in 1 .. h
  PROVE  (h * q + j) % h = 0 <=> j = h
<1> DEFINE n == h * q + j
           d == n \div h
           r == n % h
<1>1. n \in Nat
  <2>1. h * q \in Nat
    OBVIOUS
  <2> QED BY <2>1
<1>2. d \in Int /\ r \in 0 .. h - 1 /\ n = h * d + r
  <2> HIDE DEF n
  <2> QED BY <1>1
<1> HIDE DEF d, r
<1>3. ASSUME j = h PROVE r = 0
  <2>1. h * ((q + 1) - d) = h * q + h - h * d
    BY <1>2
  <2>2. h * ((q + 1) - d) = r
    BY <1>2, <1>3, <2>1
  <2>3. (q + 1) - d = 0
    <3>1. (q + 1) - d \in Int
      BY <1>2
    <3> QED BY <1>2, <2>2, <3>1, SmallMultiple
  <2> QED BY <2>2, <2>3
<1>4. ASSUME j # h PROVE r # 0
  <2>1. h * (q - d) = h * q - h * d
    BY <1>2
  <2>2. h * (q - d) = r - j
    BY <1>2, <2>1
  <2>3. q - d = 0
    <3>1. q - d \in Int /\ r - j < h /\ r - j > -h
      BY <1>2, <1>4
    <3> QED BY <2>2, <3>1, SmallMultiple
  <2>4. r - j = 0
    BY <2>2, <2>3
  <2> QED BY <1>2, <2>4
<1> QED BY <1>3, <1>4 DEF r

\* The words a size takes: k words before the last one do not reach it.
LEMMA WordCountFacts ==
  ASSUME NEW size \in Nat \ {0}
  PROVE  /\ WordCount(size) \in Nat \ {0}
         /\ \A k \in Nat : k * WordBytes < size <=> k < WordCount(size)
<1> USE WordBytesAssumption
<1> DEFINE sum == size + WordBytes - 1
           c   == sum \div WordBytes
           r   == sum % WordBytes
<1>1. sum \in Nat /\ sum >= WordBytes
  OBVIOUS
<1>2. c \in Nat /\ r \in 0 .. WordBytes - 1 /\ sum = WordBytes * c + r
  <2> HIDE DEF sum
  <2> QED BY <1>1
<1>3. c # 0
  BY <1>1, <1>2
<1> HIDE DEF c
<1>4. ASSUME NEW k \in Nat PROVE k * WordBytes < size <=> k < c
  <2>1. ASSUME k < c PROVE k * WordBytes < size
    <3>1. (k + 1) * WordBytes <= c * WordBytes
      <4>1. k + 1 <= c
        BY <1>2, <2>1
      <4>2. (k + 1) \in Nat
        OBVIOUS
      <4> QED BY <1>2, <4>1, <4>2
    <3>2. (k + 1) * WordBytes = k * WordBytes + WordBytes /\ k * WordBytes \in Nat
      OBVIOUS
    <3> QED BY <1>2, <3>1, <3>2
  <2>2. ASSUME k >= c PROVE ~(k * WordBytes < size)
    <3>1. k * WordBytes >= c * WordBytes
      BY <1>2, <2>2
    <3> QED BY <1>2, <3>1
  <2> QED BY <1>2, <2>1, <2>2
<1> QED BY <1>2, <1>3, <1>4 DEF WordCount, c

\* After another word, the bytes sent reach the size with the last word only.
LEMMA BytesSent ==
  ASSUME NEW size \in Nat \ {0}, NEW c, c = WordCount(size), NEW k \in 0 .. c - 1,
         NEW sent, sent = k * WordBytes + WordBytes
  PROVE  /\ c \in Nat \ {0} /\ sent \in Nat /\ sent = (k + 1) * WordBytes
         /\ sent < size <=> k + 1 < c
<1>1. c \in Nat \ {0} /\ \A i \in Nat : i * WordBytes < size <=> i < c
  BY WordCountFacts
<1>2. k \in Nat /\ k + 1 \in Nat
  BY <1>1
<1>3. sent = (k + 1) * WordBytes /\ sent \in Nat
  BY <1>2, WordBytesAssumption
<1> QED BY <1>1, <1>2, <1>3

\* A word joins the pages: the k-th of the a-th run, last if it ends the run.
LEMMA WordWritten ==
  ASSUME NEW words \in Seq(Page), NEW a \in Nat \ {0}, NEW page \in Page,
         NEW c \in Nat \ {0}, NEW k \in 0 .. c - 1,
         Len(words) = c * (a - 1) + k, LastEvery(words, c),
         page.last <=> k + 1 = c
  PROVE  /\ LastEvery(Append(words, page), c)
         /\ k + 1 < c => Len(Append(words, page)) = c * (a - 1) + (k + 1)
         /\ k + 1 = c => Len(Append(words, page)) = c * a
<1> DEFINE run  == c * (a - 1)
           more == Append(words, page)
<1>1. k \in Nat
  OBVIOUS
<1>2. run \in Nat /\ run + c = c * a
  OBVIOUS
<1>3. Len(words) = run + k
  OBVIOUS
<1>4. page.last <=> (run + (k + 1)) % c = 0
  <2>1. a - 1 \in Nat /\ k + 1 \in 1 .. c
    OBVIOUS
  <2>2. (run + (k + 1)) % c = 0 <=> k + 1 = c
    BY <2>1, EndOfRun, Zenon
  <2> QED BY <2>2, Zenon
<1> HIDE DEF run
<1>5. run + (k + 1) = Len(words) + 1
  BY <1>1, <1>2, <1>3
<1>6. Len(more) = Len(words) + 1 /\ LastEvery(more, c)
  <2>1. /\ Len(words) \in Nat /\ Len(more) = Len(words) + 1
        /\ \A i \in 1 .. Len(words) : more[i] = words[i]
        /\ more[Len(words) + 1] = page
    BY AppendFacts
  <2> HIDE DEF more
  <2>2. ASSUME NEW j \in 1 .. Len(more) PROVE more[j].last <=> j % c = 0
    <3>1. CASE j \in 1 .. Len(words)
      BY <2>1, <3>1 DEF LastEvery
    <3>2. CASE j = Len(words) + 1
      BY <1>4, <1>5, <2>1, <3>2
    <3> QED BY <2>1, <3>1, <3>2
  <2> QED BY <2>1, <2>2 DEF LastEvery
<1>7. k + 1 < c => Len(more) = run + (k + 1)
  BY <1>1, <1>5, <1>6
<1>8. k + 1 = c => Len(more) = c * a
  BY <1>2, <1>5, <1>6
<1> QED BY <1>6, <1>7, <1>8 DEF run

-----------------------------------------------------------------------------
(***************************************************************************)
(* What every step starts from                                             *)
(***************************************************************************)

\* The parts of the invariant, and the types that follow from them.
LEMMA PagesFacts ==
  ASSUME PagesInv
  PROVE  /\ IInv /\ PagesFifosOK /\ PreqOK /\ PresOK /\ TakenOK
         /\ AnswersInOrder /\ ServiceRuns /\ PagesWritten
         /\ strm_internal \in Seq(Internal) /\ Len(strm_internal) \in Nat
         /\ app.requests \in Seq(Request) /\ Len(app.requests) \in Nat
         /\ responses \in Seq(PageResponse) /\ answered \in Nat
         /\ pages.headers \in Seq(Page) /\ pages.body \in Seq(Page)
         /\ pages.headers = taken_by_tx.headers \o http_response_headers
         /\ pages.body = taken_by_tx.body \o http_response_body
         /\ taken_by_tx.responses \in Seq(PageResponse) /\ http_response \in Seq(PageResponse)
         /\ taken_by_tx.headers \in Seq(Page) /\ http_response_headers \in Seq(Page)
         /\ taken_by_tx.body \in Seq(Page) /\ http_response_body \in Seq(Page)
<1>1. /\ IInv /\ PagesFifosOK /\ PreqOK /\ PresOK /\ TakenOK
      /\ AnswersInOrder /\ ServiceRuns /\ PagesWritten
  BY DEF PagesInv, PagesTypes
<1>2. app.requests \in Seq(Request)
  BY <1>1, IInvFacts DEF EnvironmentOK
<1>3. /\ taken_by_tx.responses \in Seq(PageResponse) /\ http_response \in Seq(PageResponse)
      /\ taken_by_tx.headers \in Seq(Page) /\ http_response_headers \in Seq(Page)
      /\ taken_by_tx.body \in Seq(Page) /\ http_response_body \in Seq(Page)
      /\ strm_internal \in Seq(Internal)
  BY <1>1 DEF TakenOK, PagesFifosOK, IsFifo
<1>4. /\ pages.headers = taken_by_tx.headers \o http_response_headers
      /\ pages.body = taken_by_tx.body \o http_response_body
  BY DEF pages
<1>5. responses \in Seq(PageResponse)
  BY <1>3 DEF responses
<1>6. pages.headers \in Seq(Page) /\ pages.body \in Seq(Page)
  BY <1>3, <1>4
<1> QED BY <1>1, <1>2, <1>3, <1>4, <1>5, <1>6 DEF answered

\* A step that makes no answer leaves the pages right.
LEMMA PagesFrame ==
  ASSUME PagesInv, responses' = responses, pages' = pages, pres' = pres
  PROVE  PagesWritten' /\ PresOK' /\ answered' = answered
<1>1. answered' = answered
  BY DEF answered
<1> QED BY <1>1, PagesFacts
    DEF PagesWritten, Written, LastEvery, PresOK, headerWords, bodyWords

\* One that takes no request either leaves the answers right.
LEMMA AnswersFrame ==
  ASSUME PagesInv, responses' = responses, strm_internal' = strm_internal,
         app'.requests = app.requests
  PROVE  AnswersInOrder'
BY PagesFacts DEF AnswersInOrder, answered

-----------------------------------------------------------------------------
(***************************************************************************)
(* Each step preserves the invariant.                                      *)
(***************************************************************************)

\* The application starts with every FIFO empty, before the first request.
LEMMA PagesInitially == PagesInit => PagesInv
<1> SUFFICES ASSUME PagesInit PROVE PagesInv
  OBVIOUS
<1>1. IInv
  BY TypeInit, OrderInit DEF PagesInit, IInv
<1>2. PagesFifosOK /\ PreqOK
  <2>1. /\ <<>> \in Seq(Internal) /\ <<>> \in Seq(PageResponse) /\ <<>> \in Seq(Page)
        /\ Len(<<>>) <= PortDepth /\ Len(<<>>) <= InternalDepth
    BY DepthAssumption, PagesAssumption
  <2> QED BY <2>1 DEF PagesInit, PagesFifosOK, PreqOK, IsFifo
<1>3. PresOK /\ TakenOK
  BY DEF PagesInit, PresOK, TakenOK
<1>4. /\ responses = <<>> /\ pages.headers = <<>> /\ pages.body = <<>> /\ answered = 0
      /\ app.requests = <<>> /\ strm_internal = <<>>
      /\ preq = [at |-> "POLL", service_running |-> TRUE] /\ pres.at = "POLL"
  BY DEF PagesInit, Init, responses, pages, answered
<1>5. AnswersInOrder /\ ServiceRuns
  BY <1>4 DEF AnswersInOrder, ServiceRuns
<1>6. PagesWritten
  <2>1. headerWords \in Nat /\ bodyWords \in Nat
    BY WordCountFacts, PagesAssumption DEF headerWords, bodyWords
  <2>2. headerWords * 0 = 0 /\ bodyWords * 0 = 0
    BY <2>1
  <2> QED BY <1>4, <2>2 DEF PagesWritten, LastEvery
<1> QED BY <1>1, <1>2, <1>3, <1>5, <1>6 DEF PagesInv, PagesTypes

\* The steps of the request path that take no request.
LEMMA RxPagesStep ==
  ASSUME PagesInv, RxOther, UNCHANGED <<pagesFifos, pres, taken_by_tx>>, PreqOK',
         preq'.service_running = preq.service_running,
         preq'.at = "POLL" => preq.service_running
  PROVE  PagesInv'
<1>1. IInv
  BY PagesFacts
<1>2. [Next]_vars /\ app'.requests = app.requests
  BY <1>1, RxFrame
<1>3. IInv'
  BY <1>1, <1>2, RxKept
<1>4. /\ strm_internal' = strm_internal /\ http_response' = http_response
      /\ http_response_headers' = http_response_headers
      /\ http_response_body' = http_response_body
      /\ pres' = pres /\ taken_by_tx' = taken_by_tx
      /\ responses' = responses /\ pages' = pages
  BY DEF pagesFifos, responses, pages
<1>5. PagesFifosOK' /\ TakenOK'
  BY <1>4, PagesFacts DEF PagesFifosOK, TakenOK
<1>6. PresOK' /\ PagesWritten' /\ AnswersInOrder'
  BY <1>2, <1>4, PagesFrame, AnswersFrame
<1>7. ServiceRuns'
  BY <1>2, PagesFacts DEF ServiceRuns, NotDelete
<1> QED BY <1>3, <1>5, <1>6, <1>7 DEF PagesInv, PagesTypes

\* process_request drains headers and body.
LEMMA PreqHeadersKeeps == ASSUME PagesInv, PreqHeaders PROVE PagesInv'
<1>1. /\ AppHeaders /\ UNCHANGED <<pagesFifos, pres, taken_by_tx>>
      /\ preq' = [preq EXCEPT !.at = AfterDrained(Head(http_request_headers).last, "HEADERS", "BODY")]
  BY DEF PreqHeaders
<1>2. AfterDrained(Head(http_request_headers).last, "HEADERS", "BODY") \in {"HEADERS", "BODY"}
  BY DEF AfterDrained
<1>3. PreqOK' /\ preq'.service_running = preq.service_running /\ preq'.at # "POLL"
  BY <1>1, <1>2, PagesFacts DEF PreqOK
<1> QED BY <1>1, <1>3, RxPagesStep DEF RxOther

\* process_request takes a beat of body, after the last of which it polls or
\* stops.
LEMMA PreqBodyKeeps == ASSUME PagesInv, PreqBody PROVE PagesInv'
<1> DEFINE next == IF preq.service_running THEN "POLL" ELSE "STOPPED"
           at   == AfterDrained(Head(http_request_body).last, "BODY", next)
<1>1. /\ AppBody /\ UNCHANGED <<pagesFifos, pres, taken_by_tx>>
      /\ preq' = [preq EXCEPT !.at = at]
  BY DEF PreqBody
<1>2. at \in {"POLL", "BODY", "STOPPED"} /\ (at = "POLL" => preq.service_running)
  BY PagesFacts DEF AfterDrained, PreqOK
<1> HIDE DEF at
<1>3. PreqOK' /\ preq'.service_running = preq.service_running /\ preq'.at = at
  BY <1>1, <1>2, PagesFacts DEF PreqOK
<1> QED BY <1>1, <1>2, <1>3, RxPagesStep DEF RxOther

\* process_request takes a request and passes it on to process_response.
LEMMA PreqRequestKeeps == ASSUME PagesInv, PreqRequest PROVE PagesInv'
<1> DEFINE request == Head(http_request)
           passed  == [meta |-> request.meta, service_running |-> KeepsRunning(request)]
<1>1. /\ preq.at = "POLL" /\ CanWrite(strm_internal, InternalDepth) /\ AppRequest
      /\ strm_internal' = Append(strm_internal, passed)
      /\ preq' = [at |-> "HEADERS", service_running |-> KeepsRunning(request)]
      /\ http_response' = http_response /\ http_response_headers' = http_response_headers
      /\ http_response_body' = http_response_body
      /\ pres' = pres /\ taken_by_tx' = taken_by_tx
      /\ responses' = responses /\ pages' = pages
  BY DEF PreqRequest, responses, pages
<1>2. [Next]_vars /\ app'.requests = Append(app.requests, request)
  BY <1>1, RequestTaken, PagesFacts
<1>3. request \in Request
  <2>1. http_request \in Seq(Request) /\ http_request # <<>>
    BY <1>1, IInvFacts, PagesFacts DEF AppFifosOK, IsFifo, AppRequest, CanRead
  <2> QED BY <2>1
<1> HIDE DEF request
<1>4. passed \in Internal /\ passed.meta = request.meta
  BY <1>3 DEF Internal, Request, KeepsRunning
<1> HIDE DEF passed
<1>5. IInv'
  BY <1>2, RxKept, PagesFacts
<1>6. PagesFifosOK' /\ TakenOK' /\ PreqOK'
  <2>1. IsFifo(strm_internal', Internal, InternalDepth)
    BY <1>1, <1>4, FifoAppend, PagesAssumption, PagesFacts DEF PagesFifosOK
  <2>2. KeepsRunning(request) \in BOOLEAN
    BY DEF KeepsRunning
  <2> QED BY <1>1, <2>1, <2>2, PagesFacts DEF PagesFifosOK, TakenOK, PreqOK
<1>7. PresOK' /\ PagesWritten' /\ answered' = answered
  BY <1>1, PagesFrame
<1>8. /\ Len(app'.requests) = Len(app.requests) + 1
      /\ \A i \in 1 .. Len(app.requests) : app'.requests[i] = app.requests[i]
      /\ app'.requests[Len(app.requests) + 1] = request
      /\ Len(strm_internal') = Len(strm_internal) + 1
      /\ \A i \in 1 .. Len(strm_internal) : strm_internal'[i] = strm_internal[i]
      /\ strm_internal'[Len(strm_internal) + 1] = passed
  BY SMTT(30), <1>1, <1>2, AppendFacts, PagesFacts
<1>9. AnswersInOrder'
  <2>1. /\ answered + Len(strm_internal) = Len(app.requests)
        /\ answered + (Len(strm_internal) + 1) = Len(app.requests) + 1
        /\ \A i \in 1 .. answered : i \in 1 .. Len(app.requests)
        /\ \A i \in 1 .. Len(strm_internal) : answered + i \in 1 .. Len(app.requests)
    <3>1. ASSUME NEW a \in Nat, NEW b \in Nat, NEW c \in Nat, a + b = c
          PROVE  /\ a + (b + 1) = c + 1
                 /\ \A i \in 1 .. a : i \in 1 .. c
                 /\ \A i \in 1 .. b : a + i \in 1 .. c
      BY <3>1
    <3>2. /\ answered \in Nat /\ Len(strm_internal) \in Nat /\ Len(app.requests) \in Nat
          /\ answered + Len(strm_internal) = Len(app.requests)
      BY PagesFacts DEF AnswersInOrder
    <3> QED BY <3>1, <3>2
  <2>2. \A i \in 1 .. answered : responses[i].meta = app'.requests[i].meta
    BY <1>8, <2>1, PagesFacts DEF AnswersInOrder
  <2>3. ASSUME NEW i \in 1 .. Len(strm_internal) + 1
        PROVE  strm_internal'[i].meta = app'.requests[answered + i].meta
    <3>1. CASE i \in 1 .. Len(strm_internal)
      BY <1>8, <2>1, <3>1, PagesFacts DEF AnswersInOrder
    <3>2. CASE i = Len(strm_internal) + 1
      BY <1>4, <1>8, <2>1, <3>2
    <3> QED BY SMTT(30), <3>1, <3>2, PagesFacts
  <2> QED BY <1>1, <1>7, <1>8, <2>1, <2>2, <2>3 DEF AnswersInOrder
<1>10. ServiceRuns'
  <2>1. \A i \in 1 .. Len(app.requests) : NotDelete(i)
    BY <1>1, PagesFacts DEF ServiceRuns
  <2>2. \A i \in 1 .. Len(app.requests) : NotDelete(i)'
    BY <1>8, <2>1 DEF NotDelete
  <2>3. ASSUME preq'.service_running
        PROVE  \A i \in 1 .. Len(app.requests) + 1 : NotDelete(i)'
    <3>1. app'.requests[Len(app.requests) + 1].method # "DELETE"
      BY <1>1, <1>8, <2>3 DEF KeepsRunning
    <3>2. \A i \in 1 .. Len(app.requests) + 1 :
            i \in 1 .. Len(app.requests) \/ i = Len(app.requests) + 1
      <4>1. \A n \in Nat : \A i \in 1 .. n + 1 : i \in 1 .. n \/ i = n + 1
        OBVIOUS
      <4> QED BY <4>1, PagesFacts
    <3> QED BY <2>2, <3>1, <3>2 DEF NotDelete
  <2>4. preq'.at # "POLL"
    BY <1>1
  <2>5. (Len(app.requests) + 1) - 1 = Len(app.requests)
    BY PagesFacts
  <2> QED BY <1>8, <2>2, <2>3, <2>4, <2>5 DEF ServiceRuns
<1> QED BY <1>5, <1>6, <1>7, <1>9, <1>10 DEF PagesInv, PagesTypes

\* A step that leaves the request path and process_request alone.
LEMMA PreqIdle ==
  ASSUME PagesInv, UNCHANGED vars, preq' = preq
  PROVE  IInv' /\ PreqOK' /\ ServiceRuns' /\ app' = app
<1>1. app' = app
  BY DEF vars
<1>2. IInv'
  BY RxKept, PagesFacts
<1> QED BY <1>1, <1>2, PagesFacts DEF PreqOK, ServiceRuns, NotDelete

\* process_response announces the two files for the next request.
LEMMA PresNotifyKeeps == ASSUME PagesInv, PresNotify PROVE PagesInv'
<1> DEFINE passed == Head(strm_internal)
           rsp    == [meta |-> passed.meta, status_code |-> "OK_200",
                      headers_size |-> SizeField(header_length), body_size |-> SizeField(body_length)]
<1>1. /\ pres.at = "POLL" /\ strm_internal # <<>> /\ CanWrite(http_response, PortDepth)
      /\ http_response' = Append(http_response, rsp) /\ strm_internal' = Tail(strm_internal)
      /\ pres' = [at |-> "HEADERS", internal |-> passed, mem_pointer |-> 0, bytes_sent |-> 0]
      /\ http_response_headers' = http_response_headers
      /\ http_response_body' = http_response_body /\ taken_by_tx' = taken_by_tx
      /\ UNCHANGED vars /\ preq' = preq
  BY DEF PresNotify, CanRead
<1>2. IInv' /\ PreqOK' /\ ServiceRuns' /\ app' = app
  BY <1>1, PreqIdle
<1>3. /\ Len(strm_internal) \in Nat \ {0} /\ passed = strm_internal[1]
      /\ strm_internal' \in Seq(Internal) /\ Len(strm_internal') = Len(strm_internal) - 1
      /\ \A i \in 1 .. Len(strm_internal) - 1 : strm_internal'[i] = strm_internal[i + 1]
      /\ passed \in Internal
  BY <1>1, TailFacts, PagesFacts
<1> HIDE DEF passed
<1>4. rsp \in PageResponse /\ rsp.meta = passed.meta
  BY <1>3 DEF PageResponse, Internal
<1> HIDE DEF rsp
<1>5. responses' = Append(responses, rsp) /\ pages' = pages
  <2>1. taken_by_tx.responses \o Append(http_response, rsp)
          = Append(taken_by_tx.responses \o http_response, rsp)
    <3>1. taken_by_tx.responses \in Seq(PageResponse) /\ http_response \in Seq(PageResponse)
      BY PagesFacts
    <3> QED BY <1>4, <3>1, StreamFacts
  <2> QED BY <1>1, <2>1 DEF responses, pages
<1>6. PagesFifosOK' /\ TakenOK'
  <2>1. IsFifo(http_response', PageResponse, PortDepth)
    BY <1>1, <1>4, FifoAppend, DepthAssumption, PagesFacts DEF PagesFifosOK
  <2>2. IsFifo(strm_internal', Internal, InternalDepth)
    BY <1>1, FifoTail, PagesAssumption, PagesFacts DEF PagesFifosOK, CanRead
  <2> QED BY <1>1, <2>1, <2>2, PagesFacts DEF PagesFifosOK, TakenOK
<1>7. PresOK'
  BY <1>1, <1>3 DEF PresOK
<1>8. /\ answered' = answered + 1 /\ answered \in Nat
      /\ \A i \in 1 .. answered : responses'[i] = responses[i]
      /\ responses'[answered + 1] = rsp
  BY <1>5, AppendFacts, PagesFacts DEF answered
<1>9. AnswersInOrder'
  <2>1. /\ (answered + 1) + (Len(strm_internal) - 1) = Len(app.requests)
        /\ \A i \in 1 .. Len(strm_internal) - 1 :
             i + 1 \in 1 .. Len(strm_internal) /\ answered + (i + 1) = (answered + 1) + i
        /\ \A i \in 1 .. answered + 1 : i \in 1 .. answered \/ i = answered + 1
    <3>1. \A a, b, c \in Nat :
            a + b = c => /\ (a + 1) + (b - 1) = c
                         /\ \A i \in 1 .. b - 1 : i + 1 \in 1 .. b /\ a + (i + 1) = (a + 1) + i
                         /\ \A i \in 1 .. a + 1 : i \in 1 .. a \/ i = a + 1
      OBVIOUS
    <3> QED BY <3>1, PagesFacts DEF AnswersInOrder
  <2>2. responses'[answered + 1].meta = app.requests[answered + 1].meta
    <3>1. 1 \in 1 .. Len(strm_internal)
      BY <1>3
    <3> QED BY <1>3, <1>4, <1>8, <3>1, PagesFacts DEF AnswersInOrder
  <2>3. \A i \in 1 .. answered + 1 : responses'[i].meta = app.requests[i].meta
    BY <1>8, <2>1, <2>2, PagesFacts DEF AnswersInOrder
  <2>4. \A i \in 1 .. Len(strm_internal) - 1 :
          strm_internal'[i].meta = app.requests[(answered + 1) + i].meta
    BY <1>3, <2>1, PagesFacts DEF AnswersInOrder
  <2> QED BY <1>2, <1>3, <1>8, <2>1, <2>3, <2>4 DEF AnswersInOrder
<1>10. PagesWritten'
  <2>1. /\ headerWords \in Nat \ {0} /\ bodyWords \in Nat \ {0}
        /\ headerWords' = headerWords /\ bodyWords' = bodyWords
    BY WordCountFacts, PagesAssumption DEF headerWords, bodyWords
  <2>2. Len(pages.headers) = headerWords * answered /\ Len(pages.body) = bodyWords * answered
    BY <1>1, PagesFacts DEF PagesWritten
  <2>3. (answered + 1) - 1 = answered /\ answered + 1 > 0 /\ 0 * WordBytes = 0
    BY <1>8, WordBytesAssumption
  <2>4. headerWords * answered + 0 = headerWords * answered /\ 0 \in 0 .. headerWords - 1
    BY <1>8, <2>1
  <2>5. Written(pages.headers, headerWords, 0)'
    BY <1>1, <1>5, <1>8, <2>1, <2>2, <2>3, <2>4 DEF Written
  <2>6. LastEvery(pages.headers, headerWords)' /\ LastEvery(pages.body, bodyWords)'
    BY <1>5, <2>1, PagesFacts DEF PagesWritten, LastEvery
  <2> QED BY <1>1, <1>5, <1>8, <2>1, <2>2, <2>3, <2>4, <2>5, <2>6 DEF PagesWritten
<1> QED BY <1>2, <1>6, <1>7, <1>9, <1>10 DEF PagesInv, PagesTypes

\* The word process_response writes is one of the pages.
LEMMA PageWordType ==
  ASSUME PagesInv, NEW sent \in Nat, NEW size \in Nat
  PROVE  /\ PageWord(sent, size) \in Page
         /\ PageWord(sent, size).last <=> sent >= size
<1>1. pres.mem_pointer \in Nat /\ WordBytes \in {WordBytes} /\ (sent >= size) \in BOOLEAN
  BY PagesFacts DEF PresOK
<1> QED BY <1>1 DEF PageWord, Page

\* The place of process_response after a word: the same loop, or what follows.
LEMMA AfterWordFacts ==
  ASSUME PagesInv, NEW sent \in Nat, NEW length \in Nat, NEW loop, NEW next
  PROVE  /\ AfterWord(sent, length, loop, next).at = (IF sent < length THEN loop ELSE next)
         /\ AfterWord(sent, length, loop, next).bytes_sent = (IF sent < length THEN sent ELSE 0)
         /\ AfterWord(sent, length, loop, next).internal = pres.internal
         /\ AfterWord(sent, length, loop, next).mem_pointer \in Nat
         /\ AfterWord(sent, length, loop, next)
              = [at          |-> AfterWord(sent, length, loop, next).at,
                 internal    |-> AfterWord(sent, length, loop, next).internal,
                 mem_pointer |-> AfterWord(sent, length, loop, next).mem_pointer,
                 bytes_sent  |-> AfterWord(sent, length, loop, next).bytes_sent]
<1> DEFINE after == AfterWord(sent, length, loop, next)
           at    == IF sent < length THEN loop ELSE next
           bytes == IF sent < length THEN sent ELSE 0
<1>1. pres \in [at : {"POLL", "HEADERS", "BODY", "STOPPED"},
                internal : Internal \cup {Unset}, mem_pointer : Nat, bytes_sent : Nat]
  BY PagesFacts DEF PresOK
<1>2. pres.mem_pointer + 1 \in Nat
  BY <1>1
<1>3. after = [pres EXCEPT !.mem_pointer = @ + 1, !.bytes_sent = bytes, !.at = at]
  BY DEF AfterWord
<1> HIDE DEF at, bytes, after
<1>4. /\ after.at = at /\ after.bytes_sent = bytes /\ after.internal = pres.internal
      /\ after.mem_pointer \in Nat
      /\ after = [at |-> after.at, internal |-> after.internal,
                  mem_pointer |-> after.mem_pointer, bytes_sent |-> after.bytes_sent]
  BY <1>1, <1>2, <1>3
<1> QED BY <1>4 DEF at, bytes, after

\* A place put together from its registers is a place.
LEMMA PlaceType ==
  ASSUME NEW at \in {"POLL", "HEADERS", "BODY", "STOPPED"}, NEW internal \in Internal \cup {Unset},
         NEW pointer \in Nat, NEW bytes \in Nat
  PROVE  [at |-> at, internal |-> internal, mem_pointer |-> pointer, bytes_sent |-> bytes]
           \in [at : {"POLL", "HEADERS", "BODY", "STOPPED"}, internal : Internal \cup {Unset},
                mem_pointer : Nat, bytes_sent : Nat]
OBVIOUS

\* Where process_response is between two words.
LEMMA PresFacts ==
  ASSUME PagesInv
  PROVE  /\ pres.bytes_sent \in Nat /\ pres.bytes_sent + WordBytes \in Nat
         /\ pres.internal \in Internal \cup {Unset}
         /\ header_length \in Nat \ {0} /\ body_length \in Nat \ {0}
<1>1. pres.bytes_sent \in Nat /\ pres.internal \in Internal \cup {Unset}
  BY PagesFacts DEF PresOK
<1>2. pres.bytes_sent + WordBytes \in Nat
  BY <1>1, WordBytesAssumption
<1> QED BY <1>1, <1>2, PagesAssumption

\* process_response writes a word of headers.
LEMMA PresHeadersKeeps == ASSUME PagesInv, PresHeaders PROVE PagesInv'
<1> DEFINE sent == pres.bytes_sent + WordBytes
           page == PageWord(sent, header_length)
<1>1. /\ pres.at = "HEADERS" /\ CanWrite(http_response_headers, PortDepth)
      /\ http_response_headers' = Append(http_response_headers, page)
      /\ pres' = AfterWord(sent, header_length, "HEADERS", "BODY")
      /\ strm_internal' = strm_internal /\ http_response' = http_response
      /\ http_response_body' = http_response_body /\ taken_by_tx' = taken_by_tx
      /\ UNCHANGED vars /\ preq' = preq
  BY DEF PresHeaders
<1>2. IInv' /\ PreqOK' /\ ServiceRuns' /\ app' = app
  BY <1>1, PreqIdle
<1>3. sent \in Nat /\ header_length \in Nat \ {0} /\ body_length \in Nat \ {0}
  BY PresFacts
<1>4. page \in Page /\ (page.last <=> sent >= header_length)
  BY <1>3, PageWordType
<1>0. sent = pres.bytes_sent + WordBytes
  OBVIOUS
<1> HIDE DEF page, sent
<1>5. /\ pres'.at = (IF sent < header_length THEN "HEADERS" ELSE "BODY")
      /\ pres'.bytes_sent = (IF sent < header_length THEN sent ELSE 0)
      /\ pres'.internal = pres.internal
      /\ pres' \in [at : {"POLL", "HEADERS", "BODY", "STOPPED"}, internal : Internal \cup {Unset},
                    mem_pointer : Nat, bytes_sent : Nat]
  <2>1. sent \in Nat /\ header_length \in Nat /\ pres' = AfterWord(sent, header_length, "HEADERS", "BODY")
    BY <1>1, <1>3
  <2>2. /\ pres'.at = (IF sent < header_length THEN "HEADERS" ELSE "BODY")
        /\ pres'.bytes_sent = (IF sent < header_length THEN sent ELSE 0)
        /\ pres'.internal = pres.internal /\ pres'.mem_pointer \in Nat
    BY <2>1, AfterWordFacts
  <2>3. pres' = [at |-> pres'.at, internal |-> pres'.internal,
                 mem_pointer |-> pres'.mem_pointer, bytes_sent |-> pres'.bytes_sent]
    BY <2>1, AfterWordFacts
  <2>4. /\ (IF sent < header_length THEN "HEADERS" ELSE "BODY") \in {"POLL", "HEADERS", "BODY", "STOPPED"}
        /\ (IF sent < header_length THEN sent ELSE 0) \in Nat
    BY <2>1
  <2>5. /\ pres'.at \in {"POLL", "HEADERS", "BODY", "STOPPED"} /\ pres'.bytes_sent \in Nat
        /\ pres'.internal \in Internal \cup {Unset}
    BY <2>2, <2>4, PresFacts
  <2>6. pres' \in [at : {"POLL", "HEADERS", "BODY", "STOPPED"}, internal : Internal \cup {Unset},
                  mem_pointer : Nat, bytes_sent : Nat]
    BY <2>2, <2>3, <2>5, PlaceType
  <2> QED BY <2>2, <2>6
<1>6. PICK k \in 0 .. headerWords - 1 : Written(pages.headers, headerWords, k)
  BY <1>1, PagesFacts DEF PagesWritten
<1>7. sent = k * WordBytes + WordBytes
  BY <1>6, <1>0 DEF Written
<1>8. /\ responses' = responses /\ answered' = answered
      /\ pages'.headers = Append(pages.headers, page) /\ pages'.body = pages.body
  <2>1. taken_by_tx.headers \o Append(http_response_headers, page)
          = Append(taken_by_tx.headers \o http_response_headers, page)
    BY ZenonT(60), <1>4, StreamFacts, PagesFacts
  <2> QED BY <1>1, <2>1 DEF responses, answered, pages
<1>9. PagesFifosOK' /\ TakenOK'
  <2>1. IsFifo(http_response_headers', Page, PortDepth)
    BY <1>1, <1>4, FifoAppend, DepthAssumption, PagesFacts DEF PagesFifosOK
  <2> QED BY <1>1, <2>1, PagesFacts DEF PagesFifosOK, TakenOK
<1>10. PresOK'
  BY <1>1, <1>5, PagesFacts DEF PresOK
<1>11. AnswersInOrder'
  BY <1>1, <1>2, <1>8, AnswersFrame
<1>12. PagesWritten'
  <2>1. /\ answered \in Nat \ {0} /\ Len(pages.body) = bodyWords * (answered - 1)
        /\ Len(pages.headers) = headerWords * (answered - 1) + k
        /\ LastEvery(pages.headers, headerWords) /\ LastEvery(pages.body, bodyWords)
    BY <1>1, <1>6, PagesFacts DEF PagesWritten, Written
  <2>2. /\ LastEvery(pages'.headers, headerWords)
        /\ sent = (k + 1) * WordBytes
        /\ sent < header_length =>
             k + 1 \in 0 .. headerWords - 1
             /\ Len(pages'.headers) = headerWords * (answered - 1) + (k + 1)
        /\ ~(sent < header_length) => Len(pages'.headers) = headerWords * answered
    <3>1. /\ headerWords \in Nat \ {0} /\ sent = (k + 1) * WordBytes
          /\ sent < header_length <=> k + 1 < headerWords
      BY <1>3, <1>7, BytesSent DEF headerWords
    <3>2. page.last <=> k + 1 = headerWords
      BY <1>3, <1>4, <3>1
    <3>3. ~(sent < header_length) => k + 1 = headerWords
      BY <3>1
    <3>4. pages.headers \in Seq(Page)
      BY PagesFacts
    <3>5. answered \in Nat \ {0} /\ page \in Page /\ headerWords \in Nat \ {0}
      BY <1>4, <2>1, <3>1
    <3>6. LastEvery(Append(pages.headers, page), headerWords)
      BY <2>1, <3>2, <3>4, <3>5, WordWritten
    <3>7. k + 1 < headerWords =>
            Len(Append(pages.headers, page)) = headerWords * (answered - 1) + (k + 1)
      BY <2>1, <3>2, <3>4, <3>5, WordWritten
    <3>8. k + 1 = headerWords => Len(Append(pages.headers, page)) = headerWords * answered
      BY <2>1, <3>2, <3>4, <3>5, WordWritten
    <3>9. k + 1 < headerWords => k + 1 \in 0 .. headerWords - 1
      BY <3>1
    <3> QED BY <1>8, <3>1, <3>3, <3>6, <3>7, <3>8, <3>9
  <2>3. /\ bodyWords \in Nat \ {0} /\ 0 \in 0 .. bodyWords - 1 /\ 0 * WordBytes = 0
        /\ headerWords' = headerWords /\ bodyWords' = bodyWords
    BY WordCountFacts, PagesAssumption, WordBytesAssumption DEF headerWords, bodyWords
  <2>4. bodyWords * (answered - 1) + 0 = bodyWords * (answered - 1)
    BY <2>1, <2>3
  <2>5. LastEvery(pages.headers, headerWords)' /\ LastEvery(pages.body, bodyWords)'
    BY <1>8, <2>1, <2>2, <2>3 DEF LastEvery
  <2>6. CASE sent < header_length
    <3>1. Written(pages.headers, headerWords, k + 1)'
      BY <1>5, <1>8, <2>2, <2>3, <2>6 DEF Written
    <3> QED BY <1>5, <1>8, <2>1, <2>2, <2>3, <2>5, <2>6, <3>1 DEF PagesWritten
  <2>7. CASE ~(sent < header_length)
    <3>1. Written(pages.body, bodyWords, 0)'
      BY <1>5, <1>8, <2>1, <2>3, <2>4, <2>7 DEF Written
    <3> QED BY <1>5, <1>8, <2>1, <2>2, <2>3, <2>5, <2>7, <3>1 DEF PagesWritten
  <2> QED BY <2>6, <2>7
<1> QED BY <1>2, <1>9, <1>10, <1>11, <1>12 DEF PagesInv, PagesTypes

\* process_response writes a word of body, after the last of which the response
\* is whole.
LEMMA PresBodyKeeps == ASSUME PagesInv, PresBody PROVE PagesInv'
<1> DEFINE sent == pres.bytes_sent + WordBytes
           page == PageWord(sent, body_length)
<1>2. PICK next \in {"POLL", "STOPPED"} :
        next = IF pres.internal.service_running THEN "POLL" ELSE "STOPPED"
  OBVIOUS
<1>1. /\ pres.at = "BODY" /\ CanWrite(http_response_body, PortDepth)
      /\ http_response_body' = Append(http_response_body, page)
      /\ pres' = AfterWord(sent, body_length, "BODY", next)
      /\ strm_internal' = strm_internal /\ http_response' = http_response
      /\ http_response_headers' = http_response_headers /\ taken_by_tx' = taken_by_tx
      /\ UNCHANGED vars /\ preq' = preq
  BY <1>2 DEF PresBody
<1>20. IInv' /\ PreqOK' /\ ServiceRuns' /\ app' = app
  BY <1>1, PreqIdle
<1>3. sent \in Nat /\ body_length \in Nat \ {0}
  BY PresFacts
<1>4. page \in Page /\ (page.last <=> sent >= body_length)
  BY <1>3, PageWordType
<1>0. sent = pres.bytes_sent + WordBytes
  OBVIOUS
<1> HIDE DEF page, sent
<1>5. /\ pres'.at = (IF sent < body_length THEN "BODY" ELSE next)
      /\ pres'.bytes_sent = (IF sent < body_length THEN sent ELSE 0)
      /\ pres'.internal = pres.internal
      /\ pres' \in [at : {"POLL", "HEADERS", "BODY", "STOPPED"}, internal : Internal \cup {Unset},
                    mem_pointer : Nat, bytes_sent : Nat]
  <2>1. sent \in Nat /\ body_length \in Nat /\ pres' = AfterWord(sent, body_length, "BODY", next)
    BY <1>1, <1>3
  <2>2. /\ pres'.at = (IF sent < body_length THEN "BODY" ELSE next)
        /\ pres'.bytes_sent = (IF sent < body_length THEN sent ELSE 0)
        /\ pres'.internal = pres.internal /\ pres'.mem_pointer \in Nat
    BY <2>1, AfterWordFacts
  <2>3. pres' = [at |-> pres'.at, internal |-> pres'.internal,
                 mem_pointer |-> pres'.mem_pointer, bytes_sent |-> pres'.bytes_sent]
    BY <2>1, AfterWordFacts
  <2>4. /\ (IF sent < body_length THEN "BODY" ELSE next) \in {"POLL", "HEADERS", "BODY", "STOPPED"}
        /\ (IF sent < body_length THEN sent ELSE 0) \in Nat
    BY <2>1
  <2>5. /\ pres'.at \in {"POLL", "HEADERS", "BODY", "STOPPED"} /\ pres'.bytes_sent \in Nat
        /\ pres'.internal \in Internal \cup {Unset}
    BY <2>2, <2>4, PresFacts
  <2>6. pres' \in [at : {"POLL", "HEADERS", "BODY", "STOPPED"}, internal : Internal \cup {Unset},
                  mem_pointer : Nat, bytes_sent : Nat]
    BY <2>2, <2>3, <2>5, PlaceType
  <2> QED BY <2>2, <2>6
<1>6. PICK k \in 0 .. bodyWords - 1 : Written(pages.body, bodyWords, k)
  BY <1>1, PagesFacts DEF PagesWritten
<1>7. sent = k * WordBytes + WordBytes
  BY <1>6, <1>0 DEF Written
<1>8. /\ responses' = responses /\ answered' = answered
      /\ pages'.body = Append(pages.body, page) /\ pages'.headers = pages.headers
  <2>1. taken_by_tx.body \o Append(http_response_body, page)
          = Append(taken_by_tx.body \o http_response_body, page)
    BY ZenonT(60), <1>4, StreamFacts, PagesFacts
  <2> QED BY <1>1, <2>1 DEF responses, answered, pages
<1>9. PagesFifosOK' /\ TakenOK'
  <2>1. IsFifo(http_response_body', Page, PortDepth)
    BY <1>1, <1>4, FifoAppend, DepthAssumption, PagesFacts DEF PagesFifosOK
  <2> QED BY <1>1, <2>1, PagesFacts DEF PagesFifosOK, TakenOK
<1>10. PresOK'
  BY <1>1, <1>5, PagesFacts DEF PresOK
<1>11. AnswersInOrder'
  BY <1>1, <1>20, <1>8, AnswersFrame
<1>12. PagesWritten'
  <2>1. /\ answered \in Nat \ {0} /\ Len(pages.headers) = headerWords * answered
        /\ Len(pages.body) = bodyWords * (answered - 1) + k
        /\ LastEvery(pages.headers, headerWords) /\ LastEvery(pages.body, bodyWords)
    BY <1>1, <1>6, PagesFacts DEF PagesWritten, Written
  <2>2. /\ LastEvery(pages'.body, bodyWords)
        /\ sent = (k + 1) * WordBytes
        /\ sent < body_length =>
             k + 1 \in 0 .. bodyWords - 1
             /\ Len(pages'.body) = bodyWords * (answered - 1) + (k + 1)
        /\ ~(sent < body_length) => Len(pages'.body) = bodyWords * answered
    <3>1. /\ bodyWords \in Nat \ {0} /\ sent = (k + 1) * WordBytes
          /\ sent < body_length <=> k + 1 < bodyWords
      BY <1>3, <1>7, BytesSent DEF bodyWords
    <3>2. page.last <=> k + 1 = bodyWords
      BY <1>3, <1>4, <3>1
    <3>3. ~(sent < body_length) => k + 1 = bodyWords
      BY <3>1
    <3>4. pages.body \in Seq(Page)
      BY PagesFacts
    <3>5. answered \in Nat \ {0} /\ page \in Page /\ bodyWords \in Nat \ {0}
      BY <1>4, <2>1, <3>1
    <3>6. LastEvery(Append(pages.body, page), bodyWords)
      BY <2>1, <3>2, <3>4, <3>5, WordWritten
    <3>7. k + 1 < bodyWords =>
            Len(Append(pages.body, page)) = bodyWords * (answered - 1) + (k + 1)
      BY <2>1, <3>2, <3>4, <3>5, WordWritten
    <3>8. k + 1 = bodyWords => Len(Append(pages.body, page)) = bodyWords * answered
      BY <2>1, <3>2, <3>4, <3>5, WordWritten
    <3>9. k + 1 < bodyWords => k + 1 \in 0 .. bodyWords - 1
      BY <3>1
    <3> QED BY <1>8, <3>1, <3>3, <3>6, <3>7, <3>8, <3>9
  <2>3. headerWords' = headerWords /\ bodyWords' = bodyWords
    BY DEF headerWords, bodyWords
  <2>4. LastEvery(pages.headers, headerWords)' /\ LastEvery(pages.body, bodyWords)'
    BY <1>8, <2>1, <2>2, <2>3 DEF LastEvery
  <2>5. CASE sent < body_length
    <3>1. Written(pages.body, bodyWords, k + 1)'
      BY <1>5, <1>8, <2>2, <2>3, <2>5 DEF Written
    <3> QED BY <1>5, <1>8, <2>1, <2>2, <2>3, <2>4, <2>5, <3>1 DEF PagesWritten
  <2>6. CASE ~(sent < body_length)
    BY <1>3, <1>5, <1>8, <2>1, <2>2, <2>3, <2>4, <2>6 DEF PagesWritten
  <2> QED BY <2>5, <2>6
<1> QED BY <1>20, <1>9, <1>10, <1>11, <1>12 DEF PagesInv, PagesTypes

\* The response path takes from a stream: what it takes stays in the stream.
LEMMA TxKeeps == ASSUME PagesInv, TxResponse \/ TxHeaders \/ TxBody PROVE PagesInv'
<1>1. UNCHANGED vars /\ preq' = preq /\ pres' = pres /\ strm_internal' = strm_internal
  BY DEF TxResponse, TxHeaders, TxBody
<1>2. IInv' /\ PreqOK' /\ ServiceRuns' /\ app' = app
  BY <1>1, PreqIdle
<1>3. taken_by_tx \in [responses : Seq(PageResponse), headers : Seq(Page), body : Seq(Page)]
  BY PagesFacts DEF TakenOK
<1>4. PagesFifosOK' /\ TakenOK' /\ responses' = responses /\ pages' = pages
  <2>1. CASE TxResponse
    <3>1. /\ http_response # <<>> /\ http_response' = Tail(http_response)
          /\ taken_by_tx'.responses = Append(taken_by_tx.responses, Head(http_response))
          /\ taken_by_tx'.headers = taken_by_tx.headers /\ taken_by_tx'.body = taken_by_tx.body
          /\ http_response_headers' = http_response_headers
          /\ http_response_body' = http_response_body
      BY <1>3, <2>1 DEF TxResponse, CanRead
    <3>2. IsFifo(http_response', PageResponse, PortDepth) /\ Head(http_response) \in PageResponse
      BY <3>1, FifoTail, DepthAssumption, PagesFacts DEF PagesFifosOK, CanRead
    <3>3. TakenOK'
      <4>1. taken_by_tx' = [taken_by_tx EXCEPT !.responses = Append(@, Head(http_response))]
        BY <2>1 DEF TxResponse
      <4>2. Append(taken_by_tx.responses, Head(http_response)) \in Seq(PageResponse)
        BY <1>3, <3>2
      <4> QED BY <1>3, <4>1, <4>2 DEF TakenOK
    <3>4. Append(taken_by_tx.responses, Head(http_response)) \o Tail(http_response)
            = taken_by_tx.responses \o http_response
      BY <3>1, StreamFacts, PagesFacts
    <3> QED BY <1>1, <3>1, <3>2, <3>3, <3>4, PagesFacts DEF PagesFifosOK, responses, pages
  <2>2. CASE TxHeaders
    <3>1. /\ http_response_headers # <<>> /\ http_response_headers' = Tail(http_response_headers)
          /\ taken_by_tx'.headers = Append(taken_by_tx.headers, Head(http_response_headers))
          /\ taken_by_tx'.responses = taken_by_tx.responses /\ taken_by_tx'.body = taken_by_tx.body
          /\ http_response' = http_response /\ http_response_body' = http_response_body
      BY <1>3, <2>2 DEF TxHeaders, CanRead
    <3>2. IsFifo(http_response_headers', Page, PortDepth) /\ Head(http_response_headers) \in Page
      BY <3>1, FifoTail, DepthAssumption, PagesFacts DEF PagesFifosOK, CanRead
    <3>3. TakenOK'
      <4>1. taken_by_tx' = [taken_by_tx EXCEPT !.headers = Append(@, Head(http_response_headers))]
        BY <2>2 DEF TxHeaders
      <4>2. Append(taken_by_tx.headers, Head(http_response_headers)) \in Seq(Page)
        BY <1>3, <3>2
      <4> QED BY <1>3, <4>1, <4>2 DEF TakenOK
    <3>4. Append(taken_by_tx.headers, Head(http_response_headers)) \o Tail(http_response_headers)
            = taken_by_tx.headers \o http_response_headers
      BY <3>1, StreamFacts, PagesFacts
    <3> QED BY <1>1, <3>1, <3>2, <3>3, <3>4, PagesFacts DEF PagesFifosOK, responses, pages
  <2>3. CASE TxBody
    <3>1. /\ http_response_body # <<>> /\ http_response_body' = Tail(http_response_body)
          /\ taken_by_tx'.body = Append(taken_by_tx.body, Head(http_response_body))
          /\ taken_by_tx'.responses = taken_by_tx.responses
          /\ taken_by_tx'.headers = taken_by_tx.headers
          /\ http_response' = http_response /\ http_response_headers' = http_response_headers
      BY <1>3, <2>3 DEF TxBody, CanRead
    <3>2. IsFifo(http_response_body', Page, PortDepth) /\ Head(http_response_body) \in Page
      BY <3>1, FifoTail, DepthAssumption, PagesFacts DEF PagesFifosOK, CanRead
    <3>3. TakenOK'
      <4>1. taken_by_tx' = [taken_by_tx EXCEPT !.body = Append(@, Head(http_response_body))]
        BY <2>3 DEF TxBody
      <4>2. Append(taken_by_tx.body, Head(http_response_body)) \in Seq(Page)
        BY <1>3, <3>2
      <4> QED BY <1>3, <4>1, <4>2 DEF TakenOK
    <3>4. Append(taken_by_tx.body, Head(http_response_body)) \o Tail(http_response_body)
            = taken_by_tx.body \o http_response_body
      BY <3>1, StreamFacts, PagesFacts
    <3> QED BY <1>1, <3>1, <3>2, <3>3, <3>4, PagesFacts DEF PagesFifosOK, responses, pages
  <2> QED BY <2>1, <2>2, <2>3
<1>5. PresOK' /\ PagesWritten' /\ AnswersInOrder'
  BY <1>1, <1>2, <1>4, PagesFrame, AnswersFrame
<1> QED BY <1>2, <1>4, <1>5 DEF PagesInv, PagesTypes

\* Every step of the application and its request path is one of the above.
LEMMA PagesStep == PagesInv /\ [PagesNext]_allVars => PagesInv'
<1> SUFFICES ASSUME PagesInv, [PagesNext]_allVars PROVE PagesInv'
  OBVIOUS
<1>1. CASE \/ RxStateMachine \/ RxHeadlineParser \/ RxRequestIssuer \/ RxPayloadParser
           \/ RxTcpNotify \/ RxTcpAccept \/ RxTcpDeliver \/ UNCHANGED allVars
  <2>1. RxOther /\ UNCHANGED <<pagesFifos, pres, taken_by_tx>> /\ preq' = preq
    BY <1>1 DEF RxStateMachine, RxHeadlineParser, RxRequestIssuer, RxPayloadParser,
                RxTcpNotify, RxTcpAccept, RxTcpDeliver, RxStep, RxOther, allVars
  <2>2. PreqOK' /\ (preq'.at = "POLL" => preq.service_running)
    BY <2>1, PagesFacts DEF PreqOK, ServiceRuns
  <2> QED BY <2>1, <2>2, RxPagesStep
<1>2. CASE ProcessRequest
  BY <1>2, PreqRequestKeeps, PreqHeadersKeeps, PreqBodyKeeps DEF ProcessRequest
<1>3. CASE ProcessResponse
  BY <1>3, PresNotifyKeeps, PresHeadersKeeps, PresBodyKeeps DEF ProcessResponse
<1> QED BY <1>1, <1>2, <1>3, TxKeeps DEF PagesNext

\* The invariant holds in every reachable state.
LEMMA PagesInvariant == PagesSpec => []PagesInv
<1>1. PagesInit => PagesInv
  BY PagesInitially
<1>2. PagesInv /\ [PagesNext]_allVars => PagesInv'
  BY PagesStep
<1> QED BY <1>1, <1>2, PTL DEF PagesSpec

\* Every reachable state of the application and its request path is well typed
\* and no FIFO between the processes overflows.
THEOREM PagesTypeCorrect == PagesSpec => []PagesTypeOK
<1>1. PagesInv => PagesTypeOK
  BY DEF PagesInv, PagesTypes, IInv, TypeInv, PagesFifosOK, PreqOK, PresOK, PagesTypeOK
<1> QED BY <1>1, PagesInvariant, PTL

\* Each response answers its own request, and none follows a DELETE, however far
\* process_request has run ahead of process_response.
THEOREM DeleteIsTheLast == PagesSpec => []AnswersUpToDelete
<1>1. ASSUME PagesInv PROVE AnswersUpToDelete
  BY <1>1, PagesFacts DEF AnswersInOrder, ServiceRuns, NotDelete, AnswersUpToDelete, answered
<1> QED BY <1>1, PagesInvariant, PTL

\* Every response is followed by its headers and its body, whole: for all sizes
\* of the two files, the words written stay in step with the responses, and last
\* is on the final word of each part and nowhere else.
THEOREM StreamsStayInStep == PagesSpec => []PagesStayInStep
<1>1. ASSUME PagesInv PROVE PagesStayInStep
  <2>1. /\ headerWords \in Nat \ {0} /\ bodyWords \in Nat \ {0}
        /\ pages.headers \in Seq(Page) /\ pages.body \in Seq(Page) /\ answered \in Nat
        /\ PagesWritten /\ PresOK
    BY <1>1, WordCountFacts, PagesAssumption, PagesFacts DEF headerWords, bodyWords
  <2>2. ASSUME NEW c \in Nat \ {0}, NEW r \in Nat, NEW n \in Nat,
               n = c * r \/ (r > 0 /\ \E k \in 0 .. c : n = c * (r - 1) + k)
        PROVE  n \in c * (r - 1) .. c * r
    <3>1. /\ c * (r - 1) \in Int /\ c * r \in Nat /\ c * (r - 1) + c = c * r
      OBVIOUS
    <3> QED BY <2>2, <3>1
  <2>3. /\ Len(pages.headers) \in Nat /\ Len(pages.body) \in Nat
        /\ DOMAIN pages.headers = 1 .. Len(pages.headers)
        /\ DOMAIN pages.body = 1 .. Len(pages.body)
    BY <2>1
  <2>4. /\ Len(pages.headers) \in headerWords * (answered - 1) .. headerWords * answered
        /\ Len(pages.body) \in bodyWords * (answered - 1) .. bodyWords * answered
    <3>1. CASE pres.at \in {"POLL", "STOPPED"}
      <4>1. Len(pages.headers) = headerWords * answered /\ Len(pages.body) = bodyWords * answered
        BY <2>1, <3>1 DEF PagesWritten
      <4> QED BY <2>1, <2>2, <2>3, <4>1
    <3>2. CASE pres.at = "HEADERS"
      <4>1. answered > 0 /\ Len(pages.body) = bodyWords * (answered - 1)
        BY <2>1, <3>2 DEF PagesWritten
      <4>2. PICK k \in 0 .. headerWords - 1 : Written(pages.headers, headerWords, k)
        BY <2>1, <3>2 DEF PagesWritten
      <4>3. k \in 0 .. headerWords /\ Len(pages.headers) = headerWords * (answered - 1) + k
        BY <2>1, <4>2 DEF Written
      <4>4. 0 \in 0 .. bodyWords /\ Len(pages.body) = bodyWords * (answered - 1) + 0
        BY <2>1, <4>1
      <4>5. Len(pages.headers) \in headerWords * (answered - 1) .. headerWords * answered
        BY <2>1, <2>2, <2>3, <4>1, <4>3
      <4>6. Len(pages.body) \in bodyWords * (answered - 1) .. bodyWords * answered
        BY <2>1, <2>2, <2>3, <4>1, <4>4
      <4> QED BY <4>5, <4>6
    <3>3. CASE pres.at = "BODY"
      <4>1. answered > 0 /\ Len(pages.headers) = headerWords * answered
        BY <2>1, <3>3 DEF PagesWritten
      <4>2. PICK k \in 0 .. bodyWords - 1 : Written(pages.body, bodyWords, k)
        BY <2>1, <3>3 DEF PagesWritten
      <4>3. k \in 0 .. bodyWords /\ Len(pages.body) = bodyWords * (answered - 1) + k
        BY <2>1, <4>2 DEF Written
      <4>4. Len(pages.body) \in bodyWords * (answered - 1) .. bodyWords * answered
        BY <2>1, <2>2, <2>3, <4>1, <4>3
      <4>5. Len(pages.headers) \in headerWords * (answered - 1) .. headerWords * answered
        BY <2>1, <2>2, <2>3, <4>1
      <4> QED BY <4>4, <4>5
    <3> QED BY <2>1, <3>1, <3>2, <3>3 DEF PresOK
  <2> QED BY <2>1, <2>3, <2>4
      DEF PagesStayInStep, PagesWritten, LastEvery, headerWords, bodyWords, answered
<1> QED BY <1>1, PagesInvariant, PTL

-----------------------------------------------------------------------------
(***************************************************************************)
(* Where every request has a body, what process_request drains for a       *)
(* request is what came with it.                                           *)
(***************************************************************************)

\* The next transfer with headers, or with a body, is then simply the next one.
LEMMA NextTransfer ==
  ASSUME EveryRequestHasBody, IInv, NEW n, NEW k \in Nat, NEW beats \in {2, 3},
         Delivery!NextWith(n, k, beats)
  PROVE  n = k + 1 /\ n \in 1 .. Len(served)
<1>1. served \in Seq(Transfer) /\ Len(served) \in Nat
  BY IInvFacts DEF EnvironmentOK
<1>2. /\ n \in k + 1 .. Len(served)
      /\ \A i \in k + 1 .. n - 1 : BeatCount(served[i].length) < beats
  BY DEF Delivery!NextWith, Delivery!BeatCount, BeatCount
<1>3. ASSUME n # k + 1 PROVE FALSE
  <2>1. k + 1 \in k + 1 .. n - 1 /\ k + 1 \in 1 .. Len(served)
    BY <1>1, <1>2, <1>3
  <2>2. served[k + 1].length \in Lengths \ {0}
    <3>1. served[k + 1] \in Transfer
      BY <1>1, <2>1
    <3> QED BY <3>1 DEF Transfer
  <2>3. BeatCount(served[k + 1].length) \in Nat /\ BeatCount(served[k + 1].length) >= 3
    BY <2>2, BeatCountPositive, LengthsAssumption DEF EveryRequestHasBody
  <2>4. BeatCount(served[k + 1].length) < beats
    BY <1>2, <2>1
  <2> QED BY <2>3, <2>4
<1> QED BY <1>1, <1>2, <1>3

\* The headers that are offered are those of the next transfer, since each has
\* some.
LEMMA HeadersStep ==
  ASSUME EveryRequestHasBody, IInv, HeadersByTransfer, Delivery!OfferHeaders
  PROVE  HeadersByTransfer'
<1>1. PICK n \in 1 .. Len(served) :
        /\ Delivery!NextWith(n, Delivery!LatestReq(offeredHeaders), 2)
        /\ offeredHeaders' = Append(offeredHeaders,
                                    [Delivery!BeatOf(served[n], n, 2) EXCEPT !.last = TRUE])
  BY DEF Delivery!OfferHeaders
<1> DEFINE beat == [Delivery!BeatOf(served[n], n, 2) EXCEPT !.last = TRUE]
<1>2. beat.data.req = n /\ beat.last
  BY DEF Delivery!BeatOf
<1>3. offeredHeaders \in Seq(Beat) /\ Len(offeredHeaders) \in Nat
  BY OfferedType
<1>4. Delivery!LatestReq(offeredHeaders) = Len(offeredHeaders)
  <2>1. CASE offeredHeaders = <<>>
    BY <2>1 DEF Delivery!LatestReq
  <2>2. CASE offeredHeaders # <<>>
    <3>1. Len(offeredHeaders) \in 1 .. Len(offeredHeaders)
      BY <1>3, <2>2
    <3> QED BY <2>2, <3>1 DEF Delivery!LatestReq, HeadersByTransfer
  <2> QED BY <2>1, <2>2
<1>5. n = Len(offeredHeaders) + 1
  BY <1>1, <1>3, <1>4, NextTransfer
<1> HIDE DEF beat
<1>6. /\ Len(offeredHeaders') = Len(offeredHeaders) + 1
      /\ \A i \in 1 .. Len(offeredHeaders) : offeredHeaders'[i] = offeredHeaders[i]
      /\ offeredHeaders'[Len(offeredHeaders) + 1] = beat
  BY <1>1, <1>3, AppendFacts DEF beat
<1>7. ASSUME NEW j \in 1 .. Len(offeredHeaders')
      PROVE  offeredHeaders'[j].data.req = j /\ offeredHeaders'[j].last
  <2>1. CASE j \in 1 .. Len(offeredHeaders)
    BY <1>6, <2>1 DEF HeadersByTransfer
  <2>2. CASE j = Len(offeredHeaders) + 1
    BY <1>2, <1>5, <1>6, <2>2
  <2> QED BY <1>3, <1>6, <2>1, <2>2
<1> QED BY <1>7 DEF HeadersByTransfer

\* A beat joins the stream of bodies behind the one before.
LEMMA BodyGrows ==
  ASSUME IInv, BodyByTransfer, NEW beat, offeredBody' = Append(offeredBody, beat),
         beat.data.req = IF offeredBody = <<>> THEN 1 ELSE NextReq(offeredBody[Len(offeredBody)])
  PROVE  BodyByTransfer'
<1>1. offeredBody \in Seq(Beat) /\ Len(offeredBody) \in Nat
  BY OfferedType
<1>2. /\ Len(offeredBody') = Len(offeredBody) + 1
      /\ \A i \in 1 .. Len(offeredBody) : offeredBody'[i] = offeredBody[i]
      /\ offeredBody'[Len(offeredBody) + 1] = beat
  BY <1>1, AppendFacts
<1>3. ASSUME NEW j \in 1 .. Len(offeredBody')
      PROVE  offeredBody'[j].data.req = IF j = 1 THEN 1 ELSE NextReq(offeredBody'[j - 1])
  <2>1. CASE j \in 1 .. Len(offeredBody)
    <3>1. j # 1 => j - 1 \in 1 .. Len(offeredBody)
      BY <1>1, <2>1
    <3> QED BY <1>2, <2>1, <3>1 DEF BodyByTransfer
  <2>2. CASE j = Len(offeredBody) + 1
    <3>1. j = 1 <=> offeredBody = <<>>
      BY <1>1, <2>2
    <3>2. j # 1 => j - 1 = Len(offeredBody) /\ j - 1 \in 1 .. Len(offeredBody)
      BY <1>1, <2>2
    <3> QED BY <1>2, <2>2, <3>1, <3>2
  <2> QED BY <1>1, <1>2, <2>1, <2>2
<1> QED BY <1>3 DEF BodyByTransfer, NextReq

\* So is the body: its first beat is of the next transfer, the others of the
\* same.
LEMMA BodyStep ==
  ASSUME EveryRequestHasBody, PInv, BodyByTransfer,
         Delivery!OfferFirstBody \/ Delivery!OfferNextBody
  PROVE  BodyByTransfer'
<1>1. IInv /\ offeredBody \in Seq(Beat)
  BY OfferedType DEF PInv
<1>2. CASE Delivery!OfferFirstBody
  <2>1. /\ offeredBody = <<>> \/ offeredBody[Len(offeredBody)].last
        /\ \E n : /\ Delivery!NextWith(n, Delivery!LatestReq(offeredBody), 3)
                  /\ offeredBody' = Append(offeredBody, Delivery!BeatOf(served[n], n, 3))
    BY <1>2 DEF Delivery!OfferFirstBody
  <2>2. PICK n : /\ Delivery!NextWith(n, Delivery!LatestReq(offeredBody), 3)
                 /\ offeredBody' = Append(offeredBody, Delivery!BeatOf(served[n], n, 3))
    BY <2>1
  <2>3. Delivery!LatestReq(offeredBody) \in Nat
    BY DEF PInv, PayloadInv, LatestKnown, latestBody
  <2>4. n = Delivery!LatestReq(offeredBody) + 1
    BY <1>1, <2>2, <2>3, NextTransfer
  <2>5. n = IF offeredBody = <<>> THEN 1 ELSE NextReq(offeredBody[Len(offeredBody)])
    BY <2>1, <2>4 DEF Delivery!LatestReq, NextReq
  <2>6. Delivery!BeatOf(served[n], n, 3).data.req = n
    BY DEF Delivery!BeatOf
  <2> QED BY <1>1, <2>2, <2>5, <2>6, BodyGrows
<1>3. CASE Delivery!OfferNextBody
  <2> DEFINE data == offeredBody[Len(offeredBody)].data
  <2>1. /\ offeredBody # <<>> /\ ~offeredBody[Len(offeredBody)].last
        /\ offeredBody' = Append(offeredBody,
                                 Delivery!BeatOf(served[data.req], data.req, data.pos + 1))
    BY <1>3 DEF Delivery!OfferNextBody
  <2>2. Delivery!BeatOf(served[data.req], data.req, data.pos + 1).data.req = data.req
    BY DEF Delivery!BeatOf
  <2> QED BY <1>1, <2>1, <2>2, BodyGrows DEF NextReq
<1> QED BY <1>2, <1>3

\* The streams of the request path keep to the order of the transfers.
LEMMA StreamsStep ==
  ASSUME EveryRequestHasBody, StreamsInv, IInv', [Next]_vars
  PROVE  StreamsInv'
<1>1. PInv /\ IInv /\ HeadersByTransfer /\ BodyByTransfer
  BY DEF StreamsInv, PInv
<1>2. PInv'
  BY <1>1, PayloadStep DEF PInv
<1>3. [Delivery!DNext]_(Delivery!avars)
  BY <1>1, DeliveryStep
<1>4. HeadersByTransfer'
  <2>1. CASE Delivery!OfferHeaders
    BY <1>1, <2>1, HeadersStep
  <2>2. CASE ~Delivery!OfferHeaders
    <3>1. offeredHeaders' = offeredHeaders
      BY <1>3, <2>2 DEF Delivery!DNext, Delivery!avars, Delivery!Serve, Delivery!OfferRequest,
                        Delivery!OfferFirstBody, Delivery!OfferNextBody
    <3> QED BY <1>1, <3>1 DEF HeadersByTransfer
  <2> QED BY <2>1, <2>2
<1>5. BodyByTransfer'
  <2>1. CASE Delivery!OfferFirstBody \/ Delivery!OfferNextBody
    BY <1>1, <2>1, BodyStep
  <2>2. CASE ~(Delivery!OfferFirstBody \/ Delivery!OfferNextBody)
    <3>1. offeredBody' = offeredBody
      BY <1>3, <2>2 DEF Delivery!DNext, Delivery!avars, Delivery!Serve, Delivery!OfferRequest,
                        Delivery!OfferHeaders
    <3> QED BY <1>1, <3>1 DEF BodyByTransfer, NextReq
  <2> QED BY <2>1, <2>2
<1> QED BY <1>2, <1>4, <1>5 DEF StreamsInv

\* A step that takes nothing leaves what has been drained as it was.
LEMMA DrainedFrame ==
  ASSUME Drained, app'.requests = app.requests, app'.headers = app.headers,
         app'.body = app.body, preq'.at = preq.at
  PROVE  Drained'
<1>1. ASSUME NEW m, DrainedUpTo(m) PROVE DrainedUpTo(m)'
  BY <1>1 DEF DrainedUpTo
<1>2. ASSUME NEW m, DrainedInto(m) PROVE DrainedInto(m)'
  BY <1>2 DEF DrainedInto
<1> QED BY <1>1, <1>2 DEF Drained

\* Taking a beat of body: what the application has taken then.
LEMMA BodyTaken ==
  ASSUME IInv, BodyByTransfer, AppBody
  PROVE  LET beat == Head(http_request_body) IN
         /\ app'.requests = app.requests /\ app'.headers = app.headers
         /\ app'.body = Append(app.body, beat) /\ app.body \in Seq(Beat) /\ beat \in Beat
         /\ beat.data.req = IF app.body = <<>> THEN 1 ELSE NextReq(app.body[Len(app.body)])
<1> DEFINE beat == Head(http_request_body)
           L    == Len(app.body)
<1>1. /\ app \in [requests : Seq(Request), headers : Seq(Beat), body : Seq(Beat)]
      /\ app.body \in Seq(Beat) /\ http_request_body \in Seq(Beat)
  BY IInvFacts, OfferedType DEF EnvironmentOK
<1>2. /\ http_request_body # <<>> /\ app'.body = Append(app.body, beat)
      /\ app'.requests = app.requests /\ app'.headers = app.headers
  BY <1>1 DEF AppBody, CanRead
<1>3. /\ L \in Nat /\ Len(offeredBody) >= L + 1 /\ Len(offeredBody) \in Nat
      /\ \A j \in 1 .. L : offeredBody[j] = app.body[j]
      /\ offeredBody[L + 1] = beat /\ beat \in Beat
  BY <1>1, <1>2 DEF offeredBody
<1>4. L + 1 \in 1 .. Len(offeredBody) /\ (L + 1 = 1 <=> app.body = <<>>) /\ (L + 1) - 1 = L
  BY <1>1, <1>3
<1>5. app.body # <<>> => offeredBody[L] = app.body[L]
  BY <1>1, <1>3
<1> HIDE DEF beat, L
<1>6. beat.data.req = IF app.body = <<>> THEN 1 ELSE NextReq(app.body[L])
  BY <1>3, <1>4, <1>5 DEF BodyByTransfer
<1> QED BY <1>1, <1>2, <1>3, <1>6 DEF beat, L

\* process_request takes a request: the ones before have been drained.
LEMMA PreqRequestDrains == ASSUME PagesInv, Drained, PreqRequest PROVE Drained'
<1>1. /\ preq.at = "POLL" /\ preq'.at = "HEADERS" /\ AppRequest
  BY DEF PreqRequest
<1>2. app \in [requests : Seq(Request), headers : Seq(Beat), body : Seq(Beat)]
  BY IInvFacts, PagesFacts DEF EnvironmentOK
<1>3. /\ app'.requests = Append(app.requests, Head(http_request))
      /\ app'.headers = app.headers /\ app'.body = app.body
  BY <1>1, <1>2 DEF AppRequest
<1>4. PICK m \in Nat : m = Len(app.requests)
  BY <1>2
<1>5. app'.requests # <<>> /\ Len(app'.requests) = m + 1 /\ (m + 1) - 1 = m
  <2>1. app.requests \in Seq(Request)
    BY <1>2
  <2> QED BY <1>3, <1>4, <2>1, AppendFacts
<1>6. Len(app.headers) = m /\ DrainedUpTo(m)
  BY <1>1, <1>4 DEF Drained
<1>7. DrainedUpTo(m)'
  BY <1>3, <1>6 DEF DrainedUpTo
<1> QED BY <1>1, <1>3, <1>5, <1>6, <1>7 DEF Drained

\* It takes the beat of headers, the only one of the request.
LEMMA PreqHeadersDrains ==
  ASSUME PagesInv, StreamsInv, Drained, PreqHeaders PROVE Drained'
<1>1. /\ preq.at = "HEADERS" /\ AppHeaders
      /\ preq' = [preq EXCEPT !.at = AfterDrained(Head(http_request_headers).last, "HEADERS", "BODY")]
  BY DEF PreqHeaders
<1>2. /\ app \in [requests : Seq(Request), headers : Seq(Beat), body : Seq(Beat)]
      /\ app.headers \in Seq(Beat) /\ http_request_headers \in Seq(Beat)
  BY IInvFacts, OfferedType, PagesFacts DEF EnvironmentOK
<1>3. /\ http_request_headers # <<>>
      /\ app'.headers = Append(app.headers, Head(http_request_headers))
      /\ app'.requests = app.requests /\ app'.body = app.body
  BY <1>1, <1>2 DEF AppHeaders, CanRead
<1>4. Head(http_request_headers).last
  <2>1. /\ Len(app.headers) + 1 \in 1 .. Len(offeredHeaders)
        /\ offeredHeaders[Len(app.headers) + 1] = Head(http_request_headers)
    BY <1>2, <1>3 DEF offeredHeaders
  <2> QED BY <2>1 DEF StreamsInv, HeadersByTransfer
<1>5. preq'.at = "BODY"
  BY <1>1, <1>4, PagesFacts DEF AfterDrained, PreqOK
<1>6. /\ app.requests # <<>> /\ Len(app.headers) = Len(app.requests) - 1
      /\ DrainedUpTo(Len(app.requests) - 1) /\ Len(app.requests) \in Nat
  BY <1>1, PagesFacts DEF Drained
<1>7. Len(app'.headers) = Len(app.requests)
  BY <1>2, <1>3, <1>6
<1>8. DrainedUpTo(Len(app.requests) - 1)'
  BY <1>3, <1>6 DEF DrainedUpTo
<1> QED BY <1>3, <1>5, <1>6, <1>7, <1>8 DEF Drained

\* It takes a beat of body: one of the request in work, and with the last one
\* all of it.
LEMMA PreqBodyDrains ==
  ASSUME PagesInv, StreamsInv, Drained, PreqBody PROVE Drained'
<1> DEFINE beat == Head(http_request_body)
           next == IF preq.service_running THEN "POLL" ELSE "STOPPED"
<1>1. /\ preq.at = "BODY" /\ AppBody
      /\ preq' = [preq EXCEPT !.at = AfterDrained(beat.last, "BODY", next)]
  BY DEF PreqBody
<1>2. /\ app'.requests = app.requests /\ app'.headers = app.headers
      /\ app'.body = Append(app.body, beat) /\ app.body \in Seq(Beat) /\ beat \in Beat
      /\ beat.data.req = IF app.body = <<>> THEN 1 ELSE NextReq(app.body[Len(app.body)])
  BY <1>1, BodyTaken, PagesFacts DEF StreamsInv
<1> HIDE DEF beat
<1>3. /\ beat.last => preq'.at = next
      /\ ~beat.last => preq'.at = "BODY"
  BY <1>1, PagesFacts DEF AfterDrained, PreqOK
<1>4. next \in {"POLL", "STOPPED"}
  OBVIOUS
<1> HIDE DEF next
<1>m. PICK m \in Nat \ {0} : m = Len(app.requests)
  <2>1. app.requests # <<>> /\ app.requests \in Seq(Request) /\ Len(app.requests) \in Nat
    BY <1>1, PagesFacts DEF Drained
  <2>2. Len(app.requests) # 0
    BY <2>1
  <2> QED BY <2>1, <2>2
<1>5. /\ app.requests # <<>> /\ Len(app.headers) = m
      /\ DrainedUpTo(m - 1) \/ DrainedInto(m)
  BY <1>1, <1>m DEF Drained
<1>L. PICK L \in Nat : L = Len(app.body)
  BY <1>2
<1>6. /\ Len(app'.body) = L + 1 /\ app'.body # <<>>
      /\ \A j \in 1 .. L : app'.body[j] = app.body[j]
      /\ app'.body[L + 1] = beat
      /\ \A j \in 1 .. L + 1 : j \in 1 .. L \/ j = L + 1
      /\ \A j \in 1 .. L : j \in 1 .. L + 1
      /\ L + 1 \in 1 .. L + 1
      /\ app.body # <<>> => L \in 1 .. L
  <2>1. /\ Len(app'.body) = L + 1 /\ app'.body # <<>>
        /\ \A j \in 1 .. L : app'.body[j] = app.body[j]
        /\ app'.body[L + 1] = beat
    BY <1>2, <1>L, AppendFacts
  <2>2. app.body # <<>> => L # 0
    BY <1>2, <1>L
  <2> QED BY <2>1, <2>2
<1>7. beat.data.req = m
  <2>1. CASE DrainedInto(m)
    BY <1>2, <2>1 DEF DrainedInto, NextReq
  <2>2. CASE DrainedUpTo(m - 1)
    <3>1. CASE m - 1 = 0
      BY <1>2, <2>2, <3>1 DEF DrainedUpTo
    <3>2. CASE m - 1 # 0
      <4>1. /\ app.body # <<>> /\ app.body[Len(app.body)].data.req = m - 1
            /\ app.body[Len(app.body)].last
        BY <2>2, <3>2 DEF DrainedUpTo
      <4>2. beat.data.req = (m - 1) + 1
        BY <1>2, <4>1 DEF NextReq
      <4> QED BY <4>2
    <3> QED BY <3>1, <3>2
  <2> QED BY <1>5, <2>1, <2>2
<1>8. /\ \A j \in 1 .. L : app.body[j].data.req <= m
      /\ \A i \in 1 .. m - 1 : \E j \in 1 .. L : app.body[j].data.req = i /\ app.body[j].last
  <2>1. CASE DrainedInto(m)
    BY <1>L, <2>1 DEF DrainedInto
  <2>2. CASE DrainedUpTo(m - 1)
    <3>1. \A j \in 1 .. L : app.body[j].data.req \in Nat
      <4> SUFFICES ASSUME NEW j \in 1 .. L PROVE app.body[j].data.req \in Nat
        OBVIOUS
      <4>1. app.body[j] \in Beat
        BY <1>2, <1>L
      <4> QED BY <4>1 DEF Beat, Data
    <3> QED BY <1>L, <2>2, <3>1 DEF DrainedUpTo
  <2> QED BY <1>5, <2>1, <2>2
<1>9. /\ \A j \in 1 .. L + 1 : app'.body[j].data.req <= m
      /\ \A i \in 1 .. m - 1 :
           \E j \in 1 .. L + 1 : app'.body[j].data.req = i /\ app'.body[j].last
  <2>1. \A j \in 1 .. L + 1 : app'.body[j].data.req <= m
    BY <1>6, <1>7, <1>8
  <2>2. ASSUME NEW i \in 1 .. m - 1
        PROVE  \E j \in 1 .. L + 1 : app'.body[j].data.req = i /\ app'.body[j].last
    <3>1. PICK j \in 1 .. L : app.body[j].data.req = i /\ app.body[j].last
      BY <1>8
    <3>2. j \in 1 .. L + 1 /\ app'.body[j] = app.body[j]
      BY <1>6
    <3> QED BY <3>1, <3>2
  <2> QED BY <2>1, <2>2
<1>10. CASE beat.last
  <2>1. \A i \in 1 .. m :
          \E j \in 1 .. L + 1 : app'.body[j].data.req = i /\ app'.body[j].last
    <3>1. \A i \in 1 .. m : i \in 1 .. m - 1 \/ i = m
      OBVIOUS
    <3>2. app'.body[L + 1].data.req = m /\ app'.body[L + 1].last
      BY <1>6, <1>7, <1>10
    <3> QED BY <1>6, <1>9, <3>1, <3>2
  <2>2. DrainedUpTo(m)'
    BY <1>6, <1>7, <1>9, <1>10, <2>1 DEF DrainedUpTo
  <2> QED BY <1>2, <1>3, <1>4, <1>m, <1>5, <1>10, <2>2 DEF Drained
<1>11. CASE ~beat.last
  <2>1. DrainedInto(m)'
    BY <1>6, <1>7, <1>9, <1>11 DEF DrainedInto
  <2> QED BY <1>2, <1>3, <1>m, <1>5, <1>11, <2>1 DEF Drained
<1> QED BY <1>10, <1>11

\* The other steps take neither headers nor body nor a request.
LEMMA DrainStep ==
  ASSUME PagesInv, StreamsInv, Drained, [PagesNext]_allVars PROVE Drained'
<1>1. CASE ProcessRequest
  BY <1>1, PreqRequestDrains, PreqHeadersDrains, PreqBodyDrains DEF ProcessRequest
<1>2. CASE ~ProcessRequest
  <2>1. app' = app /\ preq' = preq
    BY <1>2
    DEF PagesNext, RxStateMachine, RxHeadlineParser, RxRequestIssuer, RxPayloadParser,
        RxTcpNotify, RxTcpAccept, RxTcpDeliver, RxStep, ProcessResponse, PresNotify, PresHeaders,
        PresBody, TxResponse, TxHeaders, TxBody, allVars, vars,
        StateMachine, SmIdle, SmNotificationData, SmNotificationEmpty, SmHandshake,
        SmDataHeadline, SmDataPayload, HeadlineParser, HpInputRead, HpParseMethod,
        HpExtractEndpoint, HpOutputWrite, RequestIssuer, PayloadParser, PpHeaderRead,
        PpHeaderWrite, PpBodyRead, PpBodyWrite, TcpNotify, TcpAccept, TcpDeliver
  <2> QED BY <2>1, DrainedFrame
<1> QED BY <1>1, <1>2

\* Every step of the application is one of its request path, or none of it.
LEMMA RequestPathStep == ASSUME PagesInv, [PagesNext]_allVars PROVE [Next]_vars
<1>1. CASE PreqRequest
  BY <1>1, RequestTaken, PagesFacts DEF PreqRequest
<1>2. CASE ~PreqRequest
  <2>1. RxOther
    BY <1>2
    DEF PagesNext, RxStateMachine, RxHeadlineParser, RxRequestIssuer, RxPayloadParser,
        RxTcpNotify, RxTcpAccept, RxTcpDeliver, RxStep, ProcessRequest, PreqHeaders, PreqBody,
        ProcessResponse, PresNotify, PresHeaders, PresBody, TxResponse, TxHeaders, TxBody,
        allVars, RxOther
  <2> QED BY <2>1, RxFrame, PagesFacts
<1> QED BY <1>1, <1>2

\* At the start nothing has been offered and nothing taken.
LEMMA DrainInitially == ASSUME PagesInit PROVE StreamsInv /\ Drained
<1>1. Init /\ PInv
  BY TypeInit, OrderInit, PayloadInit DEF PagesInit, PInv, IInv
<1>2. /\ app.requests = <<>> /\ app.headers = <<>> /\ app.body = <<>>
      /\ offeredHeaders = <<>> /\ offeredBody = <<>> /\ preq.at = "POLL"
  BY DEF PagesInit, Init, offeredHeaders, offeredBody
<1>3. HeadersByTransfer /\ BodyByTransfer
  BY <1>2 DEF HeadersByTransfer, BodyByTransfer
<1>4. DrainedUpTo(0)
  BY <1>2 DEF DrainedUpTo
<1> QED BY <1>1, <1>2, <1>3, <1>4 DEF StreamsInv, Drained

\* All of it is preserved by every step.
LEMMA DrainInvStep ==
  ASSUME EveryRequestHasBody, DrainInv, [PagesNext]_allVars PROVE DrainInv'
<1>1. PagesInv' /\ [Next]_vars
  BY PagesStep, RequestPathStep DEF DrainInv
<1>2. IInv'
  BY <1>1 DEF PagesInv
<1> QED BY <1>1, <1>2, StreamsStep, DrainStep DEF DrainInv

\* When process_request turns to the next request, or has stopped, every request
\* it has taken has been drained; before that, the beats taken are none of a
\* request it has not taken.
LEMMA DrainInvSuffices == ASSUME DrainInv PROVE DrainsItsOwnRequest
<1>1. /\ PagesInv /\ StreamsInv /\ Drained /\ IInv
      /\ app.requests \in Seq(Request) /\ Len(app.requests) \in Nat /\ PreqOK
      /\ app.headers \in Seq(Beat) /\ app.body \in Seq(Beat)
  <2>1. PagesInv /\ StreamsInv /\ Drained /\ IInv
    BY PagesFacts DEF DrainInv
  <2> QED BY <2>1, PagesFacts, IInvFacts DEF EnvironmentOK
<1>m. PICK m \in Nat : m = Len(app.requests)
  BY <1>1
<1>h. PICK h \in Nat : h = Len(app.headers)
  BY <1>1
<1>b. PICK b \in Nat : b = Len(app.body)
  BY <1>1
<1>2. h <= m /\ \A j \in 1 .. b : app.body[j].data.req <= m
  <2>1. ASSUME NEW k \in Nat, k <= m, DrainedUpTo(k)
        PROVE  \A j \in 1 .. b : app.body[j].data.req <= m
    <3>1. ASSUME NEW j \in 1 .. b PROVE app.body[j].data.req \in Nat
      <4>1. app.body[j] \in Beat
        BY <1>1, <1>b
      <4> QED BY <4>1 DEF Beat, Data
    <3> QED BY <1>b, <2>1, <3>1 DEF DrainedUpTo
  <2>2. app.requests # <<>> => m - 1 \in Nat
    <3>1. app.requests # <<>> => Len(app.requests) # 0
      BY <1>1
    <3> QED BY <1>m, <3>1
  <2>3. CASE preq.at \in {"POLL", "STOPPED"}
    BY <1>1, <1>m, <1>h, <2>1, <2>3 DEF Drained
  <2>4. CASE preq.at = "HEADERS"
    <3>1. m - 1 \in Nat /\ h = m - 1 /\ DrainedUpTo(m - 1)
      BY <1>1, <1>m, <1>h, <2>2, <2>4 DEF Drained
    <3>2. m - 1 <= m
      OBVIOUS
    <3> QED BY <2>1, <3>1, <3>2
  <2>5. CASE preq.at = "BODY"
    <3>1. m - 1 \in Nat /\ h = m /\ (DrainedUpTo(m - 1) \/ DrainedInto(m))
      BY <1>1, <1>m, <1>h, <2>2, <2>5 DEF Drained
    <3>2. m - 1 <= m /\ h <= m
      BY <3>1
    <3>3. DrainedInto(m) => \A j \in 1 .. b : app.body[j].data.req <= m
      BY <1>b DEF DrainedInto
    <3> QED BY <2>1, <3>1, <3>2, <3>3
  <2> QED BY <1>1, <2>3, <2>4, <2>5 DEF PreqOK
<1>3. \A j \in 1 .. h : app.headers[j].data.req = j
  <2> SUFFICES ASSUME NEW j \in 1 .. h PROVE app.headers[j].data.req = j
    OBVIOUS
  <2>1. http_request_headers \in Seq(Beat)
    BY <1>1, IInvFacts, OfferedType DEF EnvironmentOK
  <2>2. j \in 1 .. Len(offeredHeaders) /\ offeredHeaders[j] = app.headers[j]
    BY <1>1, <1>h, <2>1 DEF offeredHeaders
  <2> QED BY <1>1, <2>2 DEF StreamsInv, HeadersByTransfer
<1>4. ASSUME preq.at \in {"POLL", "STOPPED"}, NEW i \in 1 .. m
      PROVE  /\ \E j \in 1 .. h : app.headers[j].data.req = i
             /\ \E j \in 1 .. b : app.body[j].data.req = i /\ app.body[j].last
  <2>1. h = m /\ DrainedUpTo(m)
    BY <1>1, <1>m, <1>h, <1>4 DEF Drained
  <2>2. \E j \in 1 .. h : app.headers[j].data.req = i
    BY <1>3, <2>1
  <2>3. \E j \in 1 .. b : app.body[j].data.req = i /\ app.body[j].last
    BY <1>b, <2>1 DEF DrainedUpTo
  <2> QED BY <2>2, <2>3
<1>5. DOMAIN app.headers = 1 .. h /\ DOMAIN app.body = 1 .. b
  BY <1>1, <1>h, <1>b
<1>6. \A j \in 1 .. h : app.headers[j].data.req <= m
  BY <1>2, <1>3
<1> QED BY <1>m, <1>2, <1>4, <1>5, <1>6 DEF DrainsItsOwnRequest

\* Where every request has a body, what process_request has drained when it turns
\* to the next request is the headers and the whole body of each request so far,
\* and never a beat of a request it has not taken.
THEOREM EachRequestDrained ==
  ASSUME EveryRequestHasBody PROVE PagesSpec => []DrainsItsOwnRequest
<1>1. PagesInit => DrainInv
  BY PagesInitially, DrainInitially DEF DrainInv
<1>2. DrainInv /\ [PagesNext]_allVars => DrainInv'
  BY DrainInvStep
<1>3. DrainInv => DrainsItsOwnRequest
  BY DrainInvSuffices
<1> QED BY <1>1, <1>2, <1>3, PTL DEF PagesSpec

-----------------------------------------------------------------------------
(***************************************************************************)
(* The composition: what the application does is, for the request path,    *)
(* what its environment may do.                                            *)
(***************************************************************************)

\* Every step of the application is one of the request path or leaves it be.
LEMMA PagesStepOfRequestPath == [PagesNext]_allVars => [Next]_vars
<1> SUFFICES ASSUME [PagesNext]_allVars PROVE [Next]_vars
  OBVIOUS
<1>1. CASE \/ RxStateMachine \/ RxHeadlineParser \/ RxRequestIssuer \/ RxPayloadParser
           \/ RxTcpNotify \/ RxTcpAccept \/ RxTcpDeliver
  BY <1>1 DEF RxStateMachine, RxHeadlineParser, RxRequestIssuer, RxPayloadParser, RxTcpNotify,
     RxTcpAccept, RxTcpDeliver, RxStep, Next
<1>2. CASE ProcessRequest
  BY <1>2 DEF ProcessRequest, PreqRequest, PreqHeaders, PreqBody, Next
<1>3. CASE ProcessResponse
  BY <1>3 DEF ProcessResponse, PresNotify, PresHeaders, PresBody
<1>4. CASE TxResponse \/ TxHeaders \/ TxBody
  BY <1>4 DEF TxResponse, TxHeaders, TxBody
<1>5. CASE UNCHANGED allVars
  BY <1>5 DEF allVars
<1> QED BY <1>1, <1>2, <1>3, <1>4, <1>5 DEF PagesNext

\* The request path under static_pages behaves as the request path alone and
\* delivers as the abstract specification promises, up to the DELETE after which
\* process_request takes nothing more (static_pages.cc:32): a request that
\* stays in its stream is late, never lost or torn from its headers or body.
THEOREM PagesImplementDelivery == PagesSpec => Spec /\ RefinesDelivery
<1>1. PagesInit => Init
  BY DEF PagesInit
<1>2. PagesSpec => Spec
  BY <1>1, PagesStepOfRequestPath, PTL DEF PagesSpec, Spec
<1> QED BY <1>2, ImplementsRequestDelivery, PTL
=============================================================================
