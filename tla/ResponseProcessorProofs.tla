---------------------- MODULE ResponseProcessorProofs -----------------------
(***************************************************************************)
(* Theorems about ResponseProcessor, for every word size, every set of     *)
(* sessions, status codes and sizes, every FIFO depth and any number of    *)
(* responses.                                                              *)
(***************************************************************************)
EXTENDS ResponseProcessor, TLAPS

(***************************************************************************)
(* The inductive invariant: types, part by part ...                        *)
(***************************************************************************)

AppFifosOK ==
  /\ IsFifo(http_response, Response, PortDepth)
  /\ IsFifo(http_response_headers, Word, PortDepth)
  /\ IsFifo(http_response_body, Word, PortDepth)
TcpFifosOK == IsFifo(tcp_tx_req, TxRequest, PortDepth) /\ IsFifo(tcp_tx_rsp, TxAnswer, PortDepth)
StatusLines == {StatusLine(c) : c \in StatusCodes}
StatusFifosOK ==
  IsFifo(resp_status_code, StatusCodes, InnerDepth) /\ IsFifo(resp_status_line, StatusLines, InnerDepth)
SmOK == sm \in [state : SmStates, app_response : Response \cup {Unset}]
ScOK == sc \in [state : {"IDLE", "READ_INPUT", "WRITE_OUTPUT"}, status_code : StatusCodes \cup {Unset}]
PlannedOK == planned \in [1 .. MaxResponses -> Response]
AppOK == app \in [responses : Nat, headers : Nat \X Nat, body : Nat \X Nat]
Settlement == [sessionID : Sessions, length : Nat, outcome : {"accepted", "closed"}]
SettledOK == settled \in Seq(Settlement)
AlignerOK == IsFifo(tx_aligner, Word, InnerDepth) /\ aligned \in Seq(Word)

TypeParts ==
  /\ AppFifosOK /\ TcpFifosOK /\ StatusFifosOK /\ SmOK /\ ScOK
  /\ PlannedOK /\ AppOK /\ SettledOK /\ AlignerOK

(***************************************************************************)
(* ... and the response in work, the streams, the requests to send.        *)
(***************************************************************************)

\* The registers are those of the response in work once they are used.
RegistersLoaded ==
  /\ sm.state # "IDLE" => current \in 1 .. MaxResponses /\ sm.app_response = planned[current]
  /\ sc.state = "WRITE_OUTPUT" => sc.status_code \in StatusCodes

\* The responses offered are the next ones of the application.
ResponsesOffered ==
  /\ app.responses <= MaxResponses /\ Len(http_response) <= app.responses
  /\ \A i \in 1 .. Len(http_response) : http_response[i] = planned[current + i]

\* A place in a stream of words is a response and a word of it.  The word at a
\* place of a part, the place after it, and whether there is such a word.
Size(plan, n, part) == IF part = "headers" THEN plan[n].headers_size ELSE plan[n].body_size
Place(word) == <<word.rsp, word.pos>>
WordAt(plan, part, at) == WordOf(at[1], part, at[2], Size(plan, at[1], part))
After(plan, part, at) == NextWord(at[1], at[2], Size(plan, at[1], part))
Existing(plan, part, at) ==
  /\ at \in Nat \X Nat
  /\ at[1] \in 1 .. MaxResponses /\ at[2] \in 1 .. WordCount(Size(plan, at[1], part))

\* The place of the i-th word from the head of a stream that is written up to end.
PlaceAt(fifo, end, i) == IF i <= Len(fifo) THEN Place(fifo[i]) ELSE end

\* The stream holds consecutive words of its part, up to end.
Runs(plan, fifo, part, end) ==
  /\ end \in (Nat \ {0}) \X Nat
  /\ end[1] \in 1 .. MaxResponses => Existing(plan, part, end)
  /\ \A i \in 1 .. Len(fifo) :
       /\ Existing(plan, part, Place(fifo[i]))
       /\ fifo[i] = WordAt(plan, part, Place(fifo[i]))
       /\ PlaceAt(fifo, end, i + 1) = After(plan, part, Place(fifo[i]))

\* The next word of each part, as far as state_machine has come.
HeadersTaken == {"IDLE", "DATA_CRLF", "DATA_BODY", "FLUSH_BODY"}
HeadersAhead == {"TCP_REQ", "TCP_RSP", "DATA_HTTP_STATUS", "FLUSH_HEADLINE"}
HeadersNext(at) ==
  /\ sm.state \in HeadersTaken => at = <<current + 1, 1>>
  /\ sm.state \in HeadersAhead => at = <<current, 1>>
  /\ sm.state \in {"DATA_HEADERS", "FLUSH_HEADERS"} => at[1] = current
BodyNext(at) ==
  /\ sm.state = "IDLE" => at = <<current + 1, 1>>
  /\ sm.state \in {"DATA_BODY", "FLUSH_BODY"} => at[1] = current
  /\ sm.state \notin {"IDLE", "DATA_BODY", "FLUSH_BODY"} => at = <<current, 1>>

HeadersFollow ==
  /\ Runs(planned, http_response_headers, "headers", app.headers)
  /\ HeadersNext(PlaceAt(http_response_headers, app.headers, 1))
BodyFollows ==
  /\ Runs(planned, http_response_body, "body", app.body)
  /\ BodyNext(PlaceAt(http_response_body, app.body, 1))

\* One request to send at a time, that of the response in work, and one answer.
RequestFor(r) == [sessionID |-> r.sessionID, length |-> Announced(r)]
NoneAsked == tcp_tx_req = <<>> /\ tcp_tx_rsp = <<>>
OneRequestToSend ==
  /\ sm.state = "TCP_REQ" => NoneAsked /\ Len(settled) = current - 1
  /\ sm.state = "TCP_RSP" =>
       \/ /\ tcp_tx_req = <<RequestFor(planned[current])>> /\ tcp_tx_rsp = <<>>
          /\ Len(settled) = current - 1
       \/ /\ tcp_tx_req = <<>> /\ Len(tcp_tx_rsp) = 1
          /\ Len(settled) = IF tcp_tx_rsp[1].error < 2 THEN current ELSE current - 1
  /\ sm.state \notin {"TCP_REQ", "TCP_RSP"} => NoneAsked /\ Len(settled) = current

\* Every response settled was announced with its own session and length.
SettledAsPlanned ==
  \A i \in 1 .. Len(settled) :
    /\ settled[i].sessionID = planned[i].sessionID
    /\ settled[i].length = Announced(planned[i])

IInv ==
  /\ TypeParts
  /\ RegistersLoaded
  /\ ResponsesOffered
  /\ HeadersFollow /\ BodyFollows
  /\ OneRequestToSend /\ SettledAsPlanned
  /\ StatusLineOfCurrent

-----------------------------------------------------------------------------
(***************************************************************************)
(* Words and places                                                        *)
(***************************************************************************)

\* A part takes at least one word; all words before the last are full.
LEMMA WordCountFacts ==
  ASSUME NEW size \in Nat \ {0}
  PROVE  /\ WordCount(size) \in Nat \ {0}
         /\ (WordCount(size) - 1) * WordBytes < size
<1> USE ResponseDataAssumption
<1> DEFINE sum == size + WordBytes - 1
           q   == sum \div WordBytes
           r   == sum % WordBytes
<1>1. sum \in Nat /\ sum >= WordBytes
  OBVIOUS
<1>2. q \in Nat /\ r \in 0 .. WordBytes - 1 /\ sum = WordBytes * q + r
  <2> HIDE DEF sum
  <2> QED BY <1>1
<1>3. q # 0
  BY <1>1, <1>2
<1>4. (q - 1) * WordBytes = WordBytes * q - WordBytes
  <2> HIDE DEF q
  <2> QED BY <1>2
<1> HIDE DEF q
<1>5. (q - 1) * WordBytes < size
  BY <1>2, <1>4
<1> QED BY <1>2, <1>3, <1>5 DEF WordCount, q

\* A word of a response is a word.
LEMMA WordOfType ==
  ASSUME NEW n \in Nat, NEW part \in Parts, NEW size \in Nat \ {0},
         NEW k \in 1 .. WordCount(size)
  PROVE  WordOf(n, part, k, size) \in Word
<1> DEFINE full == (k - 1) * WordBytes
<1>1. full \in Nat /\ (k < WordCount(size) \/ full < size)
  <2>1. full \in Nat
    BY WordCountFacts, ResponseDataAssumption
  <2>2. k < WordCount(size) \/ k = WordCount(size)
    BY WordCountFacts
  <2>3. k = WordCount(size) => full < size
    BY WordCountFacts
  <2> QED BY <2>1, <2>2, <2>3
<1> HIDE DEF full
<1>2. (IF k < WordCount(size) THEN WordBytes ELSE size - full) \in Nat
  BY <1>1, ResponseDataAssumption
<1> QED BY <1>2 DEF WordOf, Word, full

\* The last word of a part is followed by the first one of the next response.
LEMMA AfterWord ==
  ASSUME NEW plan, NEW part, NEW at
  PROVE  /\ WordAt(plan, part, at).last \in BOOLEAN
         /\ WordAt(plan, part, at).last => After(plan, part, at) = <<at[1] + 1, 1>>
         /\ ~WordAt(plan, part, at).last => After(plan, part, at) = <<at[1], at[2] + 1>>
         /\ WordAt(plan, part, at).last <=> at[2] = WordCount(Size(plan, at[1], part))
<1> DEFINE size == Size(plan, at[1], part)
<1>1. WordAt(plan, part, at).last = (at[2] = WordCount(size))
  BY DEF WordAt, WordOf
<1>2. /\ at[2] = WordCount(size) => After(plan, part, at) = <<at[1] + 1, 1>>
      /\ at[2] # WordCount(size) => After(plan, part, at) = <<at[1], at[2] + 1>>
  BY DEF After, NextWord
<1> QED BY <1>1, <1>2

\* A stream that holds consecutive words goes on doing so when the next one is
\* written, and its head stays.
LEMMA RunsAppend ==
  ASSUME NEW plan \in [1 .. MaxResponses -> Response], NEW part \in {"headers", "body"},
         NEW fifo \in Seq(Word), NEW end,
         Runs(plan, fifo, part, end), end[1] <= MaxResponses
  PROVE  LET more == Append(fifo, WordAt(plan, part, end))
             past == After(plan, part, end)
         IN  /\ WordAt(plan, part, end) \in Word
             /\ Runs(plan, more, part, past)
             /\ PlaceAt(more, past, 1) = PlaceAt(fifo, end, 1)
<1> DEFINE word == WordAt(plan, part, end)
           more == Append(fifo, word)
           past == After(plan, part, end)
           n    == end[1]
           k    == end[2]
           size == Size(plan, n, part)
<1> USE ResponseDataAssumption, ResponseAssumption
<1>1. Existing(plan, part, end) /\ n \in 1 .. MaxResponses /\ end = <<n, k>>
  BY DEF Runs
<1>2. size \in Nat \ {0} /\ k \in 1 .. WordCount(size)
  BY <1>1 DEF Size, Response, Existing
<1>3. word \in Word /\ Place(word) = end
  <2>1. word \in Word
    BY <1>1, <1>2, WordOfType DEF WordAt, Parts
  <2> QED BY <2>1, <1>1 DEF WordAt, WordOf, Place
<1>4. past \in (Nat \ {0}) \X Nat /\ (past[1] \in 1 .. MaxResponses => Existing(plan, part, past))
  <2>1. CASE k = WordCount(size)
    <3>1. past = <<n + 1, 1>>
      BY <2>1 DEF After, NextWord
    <3>2. n + 1 \in 1 .. MaxResponses => Size(plan, n + 1, part) \in Nat \ {0}
      BY DEF Size, Response
    <3>3. ASSUME n + 1 \in 1 .. MaxResponses PROVE 1 \in 1 .. WordCount(Size(plan, n + 1, part))
      <4>1. WordCount(Size(plan, n + 1, part)) \in Nat \ {0}
        BY <3>2, <3>3, WordCountFacts
      <4> QED BY <4>1
    <3> QED BY <1>1, <3>1, <3>3 DEF Existing
  <2>2. CASE k # WordCount(size)
    <3>1. past = <<n, k + 1>>
      BY <2>2 DEF After, NextWord
    <3>2. k + 1 \in 1 .. WordCount(size)
      <4>1. WordCount(size) \in Nat \ {0}
        BY <1>2, WordCountFacts
      <4> QED BY <1>2, <2>2, <4>1
    <3> QED BY <1>1, <3>1, <3>2 DEF Existing
  <2> QED BY <2>1, <2>2
<1> HIDE DEF word, past
<1>5. /\ Len(fifo) \in Nat /\ Len(more) = Len(fifo) + 1
      /\ \A i \in 1 .. Len(fifo) : more[i] = fifo[i]
      /\ more[Len(fifo) + 1] = word
  BY <1>3
<1> HIDE DEF more
<1>6. \A i \in 1 .. Len(fifo) + 1 : PlaceAt(more, past, i) = PlaceAt(fifo, end, i)
  BY <1>3, <1>5 DEF PlaceAt
<1>7. Runs(plan, more, part, past)
  <2> SUFFICES ASSUME NEW i \in 1 .. Len(fifo) + 1
               PROVE  /\ Existing(plan, part, Place(more[i]))
                      /\ more[i] = WordAt(plan, part, Place(more[i]))
                      /\ PlaceAt(more, past, i + 1) = After(plan, part, Place(more[i]))
    BY <1>4, <1>5 DEF Runs
  <2>1. CASE i \in 1 .. Len(fifo)
    <3>1. more[i] = fifo[i] /\ PlaceAt(more, past, i + 1) = PlaceAt(fifo, end, i + 1)
      BY <1>5, <1>6, <2>1
    <3> QED BY <2>1, <3>1 DEF Runs
  <2>2. CASE i = Len(fifo) + 1
    <3>1. PlaceAt(more, past, i + 1) = past
      BY <1>5, <2>2 DEF PlaceAt
    <3> QED BY <1>1, <1>3, <1>5, <2>2, <3>1 DEF past, word
  <2> QED BY <1>5, <2>1, <2>2
<1> QED BY <1>3, <1>5, <1>6, <1>7 DEF word, past, more

\* The head of such a stream is the word at its first place, and the rest of it
\* starts at the place after.
LEMMA RunsTail ==
  ASSUME NEW plan \in [1 .. MaxResponses -> Response], NEW part \in {"headers", "body"},
         NEW fifo \in Seq(Word), NEW end,
         Runs(plan, fifo, part, end), fifo # <<>>
  PROVE  LET first == PlaceAt(fifo, end, 1)
         IN  /\ Head(fifo) \in Word /\ Tail(fifo) \in Seq(Word) /\ Len(Tail(fifo)) = Len(fifo) - 1
             /\ Existing(plan, part, first) /\ Head(fifo) = WordAt(plan, part, first)
             /\ Place(Head(fifo)) = first
             /\ Runs(plan, Tail(fifo), part, end)
             /\ PlaceAt(Tail(fifo), end, 1) = After(plan, part, first)
<1> DEFINE rest == Tail(fifo)
<1>1. /\ Len(fifo) \in Nat \ {0} /\ Head(fifo) = fifo[1] /\ Head(fifo) \in Word
      /\ rest \in Seq(Word) /\ Len(rest) = Len(fifo) - 1
      /\ \A i \in 1 .. Len(fifo) - 1 : rest[i] = fifo[i + 1]
  OBVIOUS
<1> HIDE DEF rest
<1>2. PlaceAt(fifo, end, 1) = Place(Head(fifo))
  BY <1>1 DEF PlaceAt
<1>3. \A i \in 1 .. Len(fifo) : PlaceAt(rest, end, i) = PlaceAt(fifo, end, i + 1)
  BY <1>1 DEF PlaceAt
<1>4. Runs(plan, rest, part, end)
  <2> SUFFICES ASSUME NEW i \in 1 .. Len(fifo) - 1
               PROVE  /\ Existing(plan, part, Place(rest[i]))
                      /\ rest[i] = WordAt(plan, part, Place(rest[i]))
                      /\ PlaceAt(rest, end, i + 1) = After(plan, part, Place(rest[i]))
    BY <1>1 DEF Runs
  <2>1. i + 1 \in 1 .. Len(fifo) /\ rest[i] = fifo[i + 1]
    BY <1>1
  <2>2. PlaceAt(rest, end, i + 1) = PlaceAt(fifo, end, (i + 1) + 1)
    BY <1>1, <1>3, <2>1
  <2> QED BY <2>1, <2>2 DEF Runs
<1>5. 1 \in 1 .. Len(fifo)
  BY <1>1
<1>6. PlaceAt(fifo, end, 2) = After(plan, part, Place(fifo[1]))
  BY <1>5 DEF Runs
<1> QED BY <1>1, <1>2, <1>3, <1>4, <1>5, <1>6 DEF Runs, rest

\* A length that is announced fits its field.
LEMMA AnnouncedType == ASSUME NEW r \in Response PROVE Announced(r) \in 0 .. LengthValues - 1
<1> DEFINE sum == r.body_size + r.headers_size + 2
<1>1. sum \in Nat
  <2>1. r.body_size \in Nat /\ r.headers_size \in Nat
    BY ResponseDataAssumption DEF Response
  <2> QED BY <2>1
<1> HIDE DEF sum
<1>2. sum % LengthValues \in 0 .. LengthValues - 1
  BY <1>1, ResponseDataAssumption
<1> QED BY <1>2 DEF Announced, sum

-----------------------------------------------------------------------------
(***************************************************************************)
(* FIFOs                                                                   *)
(***************************************************************************)

\* A FIFO that has room takes one more element of its type ...
LEMMA FifoAppend ==
  ASSUME NEW S, NEW depth \in Nat, NEW fifo, NEW e \in S,
         IsFifo(fifo, S, depth), CanWrite(fifo, depth)
  PROVE  IsFifo(Append(fifo, e), S, depth)
BY DEF IsFifo, CanWrite

\* ... and loses its head.
LEMMA FifoTail ==
  ASSUME NEW S, NEW depth \in Nat, NEW fifo,
         IsFifo(fifo, S, depth), CanRead(fifo)
  PROVE  IsFifo(Tail(fifo), S, depth) /\ Head(fifo) \in S
BY DEF IsFifo, CanRead

\* What is left of a sequence ...
LEMMA TailFacts ==
  ASSUME NEW S, NEW s \in Seq(S), s # <<>>
  PROVE  /\ Len(s) \in Nat \ {0} /\ Head(s) = s[1]
         /\ Tail(s) \in Seq(S) /\ Len(Tail(s)) = Len(s) - 1
         /\ \A i \in 1 .. Len(s) - 1 : Tail(s)[i] = s[i + 1]
         /\ Len(s) = 1 => Tail(s) = <<>>
OBVIOUS

\* ... and what is added to one.
LEMMA AppendFacts ==
  ASSUME NEW S, NEW s \in Seq(S), NEW e
  PROVE  /\ Len(s) \in Nat /\ Len(Append(s, e)) = Len(s) + 1
         /\ \A i \in 1 .. Len(s) : Append(s, e)[i] = s[i]
         /\ Append(s, e)[Len(s) + 1] = e
OBVIOUS

-----------------------------------------------------------------------------
(***************************************************************************)
(* The invariant holds initially and every action keeps it                 *)
(***************************************************************************)

\* The parts of the invariant, and what it says of the response in work.
LEMMA InvFacts ==
  ASSUME IInv
  PROVE  /\ AppFifosOK /\ TcpFifosOK /\ StatusFifosOK /\ SmOK /\ ScOK
         /\ PlannedOK /\ AppOK /\ SettledOK /\ AlignerOK
         /\ RegistersLoaded /\ ResponsesOffered /\ HeadersFollow /\ BodyFollows
         /\ OneRequestToSend /\ SettledAsPlanned /\ StatusLineOfCurrent
         /\ app.responses \in Nat /\ Len(http_response) \in Nat
         /\ current \in 0 .. MaxResponses
<1>1. /\ AppFifosOK /\ TcpFifosOK /\ StatusFifosOK /\ SmOK /\ ScOK
      /\ PlannedOK /\ AppOK /\ SettledOK /\ AlignerOK
  BY DEF IInv, TypeParts
<1>2. ResponsesOffered
  BY DEF IInv
<1>3. app.responses \in Nat /\ Len(http_response) \in Nat
  BY <1>1 DEF AppOK, AppFifosOK, IsFifo
<1>4. current \in 0 .. MaxResponses
  BY <1>2, <1>3, ResponseAssumption DEF current, ResponsesOffered
<1> QED BY <1>1, <1>3, <1>4 DEF IInv

\* Nothing is written, asked or sent at the start.
LEMMA InvInit == Init => IInv
<1> SUFFICES ASSUME Init PROVE IInv
  OBVIOUS
<1> USE ResponseAssumption DEF Init
<1>1. AppFifosOK /\ TcpFifosOK /\ StatusFifosOK /\ AlignerOK /\ SettledOK
  BY DEF AppFifosOK, TcpFifosOK, StatusFifosOK, AlignerOK, SettledOK, IsFifo
<1>2. SmOK /\ ScOK /\ PlannedOK /\ AppOK
  BY DEF SmOK, ScOK, PlannedOK, AppOK, SmStates
<1>3. RegistersLoaded /\ ResponsesOffered /\ current = 0
  BY DEF RegistersLoaded, ResponsesOffered, current
<1>4. \A part \in {"headers", "body"} : Runs(planned, <<>>, part, <<1, 1>>)
  <2> SUFFICES ASSUME NEW part \in {"headers", "body"}, 1 \in 1 .. MaxResponses
               PROVE  Existing(planned, part, <<1, 1>>)
    BY DEF Runs
  <2>1. planned[1] \in Response
    BY <1>2 DEF PlannedOK
  <2>2. Size(planned, 1, part) \in Nat \ {0}
    BY <2>1, ResponseDataAssumption DEF Size, Response
  <2>3. WordCount(Size(planned, 1, part)) \in Nat \ {0}
    BY <2>2, WordCountFacts
  <2> QED BY <2>3 DEF Existing
<1>5. HeadersFollow /\ BodyFollows
  BY <1>3, <1>4 DEF HeadersFollow, BodyFollows, HeadersNext, BodyNext, PlaceAt, HeadersTaken, HeadersAhead
<1>6. OneRequestToSend /\ SettledAsPlanned
  BY <1>3 DEF OneRequestToSend, SettledAsPlanned, NoneAsked
<1>7. StatusLineOfCurrent
  BY DEF StatusLineOfCurrent
<1> QED BY <1>1, <1>2, <1>3, <1>5, <1>6, <1>7 DEF IInv, TypeParts

LEMMA InvSmIdle == ASSUME IInv, SmIdle PROVE IInv'
<1> DEFINE response == Head(http_response)
<1>1. /\ sm.state = "IDLE" /\ CanRead(http_response) /\ CanWrite(resp_status_code, InnerDepth)
      /\ sm' = [state |-> "TCP_REQ", app_response |-> response]
      /\ http_response' = Tail(http_response)
      /\ resp_status_code' = Append(resp_status_code, response.status_code)
      /\ http_response_headers' = http_response_headers /\ http_response_body' = http_response_body
      /\ tcp_tx_req' = tcp_tx_req /\ tcp_tx_rsp' = tcp_tx_rsp /\ tx_aligner' = tx_aligner
      /\ resp_status_line' = resp_status_line /\ sc' = sc /\ planned' = planned /\ app' = app
      /\ settled' = settled /\ aligned' = aligned
  BY DEF SmIdle, tcpFifos, outside
<1>2. /\ Len(http_response) \in Nat \ {0} /\ response = http_response[1]
      /\ Len(http_response') = Len(http_response) - 1
      /\ \A i \in 1 .. Len(http_response) - 1 : http_response'[i] = http_response[i + 1]
  BY <1>1, InvFacts, TailFacts DEF AppFifosOK, IsFifo, CanRead
<1>3. current' = current + 1
  BY <1>1, <1>2, InvFacts DEF current
<1>4. current' \in 1 .. MaxResponses /\ response = planned[current']
  <2>1. 1 \in 1 .. Len(http_response)
    BY <1>2
  <2>2. current + 1 <= MaxResponses
    BY <1>2, InvFacts, ResponseAssumption DEF current, ResponsesOffered
  <2> QED BY <1>2, <1>3, <2>1, <2>2, InvFacts DEF ResponsesOffered
<1>5. response \in Response /\ response.status_code \in StatusCodes
  BY <1>1, InvFacts, FifoTail, ResponseAssumption DEF AppFifosOK, Response
<1>6. TypeParts'
  <2>1. AppFifosOK' /\ StatusFifosOK'
    BY <1>1, <1>5, FifoTail, FifoAppend, InvFacts, ResponseAssumption DEF AppFifosOK, StatusFifosOK
  <2>2. SmOK'
    BY <1>1, <1>5 DEF SmOK, SmStates
  <2> QED BY <1>1, <2>1, <2>2, InvFacts
          DEF TypeParts, TcpFifosOK, ScOK, PlannedOK, AppOK, SettledOK, AlignerOK
<1>7. RegistersLoaded'
  BY <1>1, <1>4, InvFacts DEF RegistersLoaded
<1>8. ResponsesOffered'
  <2> SUFFICES ASSUME NEW i \in 1 .. Len(http_response) - 1
               PROVE  http_response'[i] = planned[current' + i]
    BY <1>1, <1>2, InvFacts DEF ResponsesOffered
  <2>1. i + 1 \in 1 .. Len(http_response) /\ current' + i = current + (i + 1)
    BY <1>2, <1>3, InvFacts
  <2> QED BY <1>2, <2>1, InvFacts DEF ResponsesOffered
<1>9. HeadersFollow' /\ BodyFollows'
  BY <1>1, <1>3, InvFacts DEF HeadersFollow, BodyFollows, HeadersNext, BodyNext, HeadersTaken, HeadersAhead
<1>10. OneRequestToSend' /\ SettledAsPlanned'
  BY <1>1, <1>3, InvFacts DEF OneRequestToSend, SettledAsPlanned, NoneAsked
<1>11. StatusLineOfCurrent'
  <2>1. resp_status_code' = <<planned[current'].status_code>>
    BY <1>1, <1>4, InvFacts DEF StatusLineOfCurrent
  <2> QED BY <1>1, <2>1, InvFacts DEF StatusLineOfCurrent
<1> QED BY <1>6, <1>7, <1>8, <1>9, <1>10, <1>11 DEF IInv

\* An action that leaves the responses alone and does not start one keeps what
\* the invariant says of the response in work.
LEMMA InvKept ==
  ASSUME IInv, sm'.state # "IDLE" => sm.state # "IDLE" /\ sm'.app_response = sm.app_response,
         http_response' = http_response, planned' = planned, app'.responses = app.responses
  PROVE  /\ current' = current /\ ResponsesOffered'
         /\ sc' = sc => RegistersLoaded'
<1>1. current' = current
  BY DEF current
<1> QED BY <1>1, InvFacts DEF RegistersLoaded, ResponsesOffered

LEMMA InvSmTcpReq == ASSUME IInv, SmTcpReq PROVE IInv'
<1>1. /\ sm.state = "TCP_REQ" /\ CanWrite(tcp_tx_req, PortDepth)
      /\ sm' = [sm EXCEPT !.state = "TCP_RSP"]
      /\ tcp_tx_req' = Append(tcp_tx_req, RequestFor(sm.app_response))
      /\ http_response' = http_response
      /\ http_response_headers' = http_response_headers /\ http_response_body' = http_response_body
      /\ tcp_tx_rsp' = tcp_tx_rsp /\ tx_aligner' = tx_aligner
      /\ resp_status_code' = resp_status_code
      /\ resp_status_line' = resp_status_line /\ sc' = sc /\ planned' = planned /\ app' = app
      /\ settled' = settled /\ aligned' = aligned
  BY DEF SmTcpReq, appFifos, innerFifos, outside, RequestFor
<1>2. current \in 1 .. MaxResponses /\ sm.app_response = planned[current] /\ planned[current] \in Response
  BY <1>1, InvFacts DEF RegistersLoaded, PlannedOK
<1>3. RequestFor(planned[current]) \in TxRequest
  <2>1. Announced(planned[current]) \in Nat
    BY <1>2, AnnouncedType
  <2> QED BY <1>2, <2>1 DEF RequestFor, TxRequest, Response
<1>4. sm'.state = "TCP_RSP" /\ sm'.app_response = sm.app_response
  BY <1>1, InvFacts DEF SmOK
<1>5. TypeParts'
  <2>1. TcpFifosOK'
    BY <1>1, <1>2, <1>3, FifoAppend, InvFacts, ResponseAssumption DEF TcpFifosOK
  <2>2. SmOK'
    BY <1>1, InvFacts DEF SmOK, SmStates
  <2> QED BY <1>1, <2>1, <2>2, InvFacts
          DEF TypeParts, AppFifosOK, StatusFifosOK, ScOK, PlannedOK, AppOK, SettledOK, AlignerOK
<1>6. current' = current /\ RegistersLoaded' /\ ResponsesOffered'
  BY <1>1, <1>4, InvKept
<1>7. HeadersFollow' /\ BodyFollows'
  BY <1>1, <1>4, <1>6, InvFacts DEF HeadersFollow, BodyFollows, HeadersNext, BodyNext, HeadersTaken, HeadersAhead
<1>8. OneRequestToSend' /\ SettledAsPlanned'
  BY <1>1, <1>2, <1>4, <1>6, InvFacts DEF OneRequestToSend, SettledAsPlanned, NoneAsked
<1>9. StatusLineOfCurrent'
  BY <1>1, <1>4, <1>6, InvFacts DEF StatusLineOfCurrent
<1> QED BY <1>5, <1>6, <1>7, <1>8, <1>9 DEF IInv

LEMMA InvSmTcpRsp == ASSUME IInv, SmTcpRsp PROVE IInv'
<1> DEFINE error == Head(tcp_tx_rsp).error
<1>1. /\ sm.state = "TCP_RSP" /\ CanRead(tcp_tx_rsp)
      /\ sm' = [sm EXCEPT !.state = AfterRsp(error)]
      /\ tcp_tx_rsp' = Tail(tcp_tx_rsp)
      /\ tcp_tx_req' = tcp_tx_req /\ http_response' = http_response
      /\ http_response_headers' = http_response_headers /\ http_response_body' = http_response_body
      /\ tx_aligner' = tx_aligner /\ resp_status_code' = resp_status_code
      /\ resp_status_line' = resp_status_line /\ sc' = sc /\ planned' = planned /\ app' = app
      /\ settled' = settled /\ aligned' = aligned
  BY DEF SmTcpRsp, appFifos, innerFifos, outside
<1>2. /\ error \in 0 .. 3 /\ error = tcp_tx_rsp[1].error
      /\ Len(tcp_tx_rsp) = 1 => tcp_tx_rsp' = <<>>
  <2>1. Head(tcp_tx_rsp) \in TxAnswer
    BY <1>1, FifoTail, InvFacts, ResponseAssumption DEF TcpFifosOK
  <2>2. Head(tcp_tx_rsp) = tcp_tx_rsp[1] /\ (Len(tcp_tx_rsp) = 1 => tcp_tx_rsp' = <<>>)
    BY <1>1, TailFacts, InvFacts DEF TcpFifosOK, IsFifo, CanRead
  <2> QED BY <2>1, <2>2 DEF TxAnswer
<1> HIDE DEF error
<1>3. /\ AfterRsp(error) \in {"TCP_REQ", "DATA_HTTP_STATUS", "FLUSH_HEADLINE"}
      /\ AfterRsp(error) = "TCP_REQ" <=> error >= 2
  BY <1>2 DEF AfterRsp
<1>4. sm'.state = AfterRsp(error) /\ sm'.app_response = sm.app_response
  BY <1>1, InvFacts DEF SmOK
<1>5. TypeParts'
  <2>1. TcpFifosOK'
    BY <1>1, FifoTail, InvFacts, ResponseAssumption DEF TcpFifosOK
  <2>2. SmOK'
    BY <1>1, <1>3, InvFacts DEF SmOK, SmStates
  <2> QED BY <1>1, <2>1, <2>2, InvFacts
          DEF TypeParts, AppFifosOK, StatusFifosOK, ScOK, PlannedOK, AppOK, SettledOK, AlignerOK
<1>6. current' = current /\ RegistersLoaded' /\ ResponsesOffered'
  BY <1>1, <1>4, InvKept
<1>7. HeadersFollow' /\ BodyFollows'
  BY <1>1, <1>3, <1>4, <1>6, InvFacts
  DEF HeadersFollow, BodyFollows, HeadersNext, BodyNext, HeadersTaken, HeadersAhead
<1>8. /\ tcp_tx_req = <<>> /\ Len(tcp_tx_rsp) = 1
      /\ Len(settled) = IF error < 2 THEN current ELSE current - 1
  BY <1>1, <1>2, InvFacts DEF OneRequestToSend, CanRead
<1>9. OneRequestToSend' /\ SettledAsPlanned'
  BY <1>1, <1>2, <1>3, <1>4, <1>6, <1>8, InvFacts DEF OneRequestToSend, SettledAsPlanned, NoneAsked
<1>10. StatusLineOfCurrent'
  BY <1>1, <1>3, <1>4, <1>6, InvFacts DEF StatusLineOfCurrent
<1> QED BY <1>5, <1>6, <1>7, <1>9, <1>10 DEF IInv

LEMMA InvTakeStatusLine == ASSUME IInv, SmDataHttpStatus \/ SmFlushHeadline PROVE IInv'
<1> DEFINE after == IF sm.state = "DATA_HTTP_STATUS" THEN "DATA_HEADERS" ELSE "FLUSH_HEADERS"
<1>1. /\ sm.state \in {"DATA_HTTP_STATUS", "FLUSH_HEADLINE"} /\ CanRead(resp_status_line)
      /\ sm' = [sm EXCEPT !.state = after]
      /\ resp_status_line' = Tail(resp_status_line)
      /\ http_response' = http_response
      /\ http_response_headers' = http_response_headers /\ http_response_body' = http_response_body
      /\ tcp_tx_req' = tcp_tx_req /\ tcp_tx_rsp' = tcp_tx_rsp
      /\ tx_aligner' = tx_aligner /\ resp_status_code' = resp_status_code
      /\ sc' = sc /\ planned' = planned /\ app' = app /\ settled' = settled /\ aligned' = aligned
  BY DEF SmDataHttpStatus, SmFlushHeadline, appFifos, tcpFifos, outside
<1>2. after \in {"DATA_HEADERS", "FLUSH_HEADERS"}
  OBVIOUS
<1> HIDE DEF after
<1>3. sm'.state = after /\ sm'.app_response = sm.app_response
  BY <1>1, InvFacts DEF SmOK
<1>4. TypeParts'
  <2>1. StatusFifosOK'
    BY <1>1, FifoTail, InvFacts, ResponseAssumption DEF StatusFifosOK
  <2>2. SmOK'
    BY <1>1, <1>2, InvFacts DEF SmOK, SmStates
  <2> QED BY <1>1, <2>1, <2>2, InvFacts
          DEF TypeParts, AppFifosOK, TcpFifosOK, ScOK, PlannedOK, AppOK, SettledOK, AlignerOK
<1>5. current' = current /\ RegistersLoaded' /\ ResponsesOffered'
  BY <1>1, <1>3, InvKept
<1>6. HeadersFollow' /\ BodyFollows'
  BY <1>1, <1>2, <1>3, <1>5, InvFacts
  DEF HeadersFollow, BodyFollows, HeadersNext, BodyNext, HeadersTaken, HeadersAhead
<1>7. OneRequestToSend' /\ SettledAsPlanned'
  BY <1>1, <1>2, <1>3, <1>5, InvFacts DEF OneRequestToSend, SettledAsPlanned, NoneAsked
<1>8. StatusLineOfCurrent'
  <2>1. /\ resp_status_code = <<>> /\ sc.state = "IDLE"
        /\ resp_status_line = <<StatusLine(planned[current].status_code)>>
    BY <1>1, InvFacts DEF StatusLineOfCurrent, CanRead
  <2>2. resp_status_line' = <<>>
    BY <1>1, <2>1
  <2> QED BY <1>1, <1>2, <1>3, <2>1, <2>2 DEF StatusLineOfCurrent
<1> QED BY <1>4, <1>5, <1>6, <1>7, <1>8 DEF IInv

LEMMA InvTakeHeaders == ASSUME IInv, SmDataHeaders \/ SmFlushHeaders PROVE IInv'
<1> DEFINE in    == Head(http_response_headers)
           after == IF sm.state = "DATA_HEADERS"
                    THEN IF in.last THEN "DATA_CRLF" ELSE "DATA_HEADERS"
                    ELSE IF in.last THEN "FLUSH_BODY" ELSE "FLUSH_HEADERS"
           first == PlaceAt(http_response_headers, app.headers, 1)
<1>1. /\ sm.state \in {"DATA_HEADERS", "FLUSH_HEADERS"} /\ CanRead(http_response_headers)
      /\ sm' = [sm EXCEPT !.state = after]
      /\ http_response_headers' = Tail(http_response_headers)
      /\ \/ tx_aligner' = tx_aligner
         \/ CanWrite(tx_aligner, InnerDepth) /\ tx_aligner' = Append(tx_aligner, Middle(in))
      /\ http_response' = http_response /\ http_response_body' = http_response_body
      /\ tcp_tx_req' = tcp_tx_req /\ tcp_tx_rsp' = tcp_tx_rsp
      /\ resp_status_code' = resp_status_code /\ resp_status_line' = resp_status_line
      /\ sc' = sc /\ planned' = planned /\ app' = app /\ settled' = settled /\ aligned' = aligned
  BY DEF SmDataHeaders, SmFlushHeaders, AfterFlushed, tcpFifos, innerFifos, outside
<1>2. /\ in \in Word /\ IsFifo(Tail(http_response_headers), Word, PortDepth)
      /\ Existing(planned, "headers", first) /\ in = WordAt(planned, "headers", first)
      /\ Runs(planned, Tail(http_response_headers), "headers", app.headers)
      /\ PlaceAt(Tail(http_response_headers), app.headers, 1) = After(planned, "headers", first)
  <2>1. http_response_headers \in Seq(Word) /\ http_response_headers # <<>>
    BY <1>1, InvFacts DEF AppFifosOK, IsFifo, CanRead
  <2>2. Runs(planned, http_response_headers, "headers", app.headers)
    BY InvFacts DEF HeadersFollow
  <2>3. IsFifo(Tail(http_response_headers), Word, PortDepth)
    BY <1>1, FifoTail, InvFacts, ResponseAssumption DEF AppFifosOK
  <2> QED BY <2>1, <2>2, <2>3, RunsTail, InvFacts DEF PlannedOK
<1>3. first[1] = current /\ first \in Nat \X Nat
  BY <1>1, <1>2, InvFacts DEF HeadersFollow, HeadersNext, HeadersTaken, HeadersAhead, Existing
<1>4. /\ in.last => After(planned, "headers", first) = <<current + 1, 1>>
      /\ ~in.last => After(planned, "headers", first)[1] = current
      /\ in.last \in BOOLEAN
  <2> HIDE DEF in, first
  <2>1. /\ in.last => After(planned, "headers", first) = <<first[1] + 1, 1>>
        /\ ~in.last => After(planned, "headers", first) = <<first[1], first[2] + 1>>
        /\ in.last \in BOOLEAN
    BY <1>2, AfterWord
  <2> QED BY <1>3, <2>1
<1> HIDE DEF in, first
<1>5. /\ in.last => after \in {"DATA_CRLF", "FLUSH_BODY"}
      /\ ~in.last => after \in {"DATA_HEADERS", "FLUSH_HEADERS"}
  BY <1>1
<1> HIDE DEF after
<1>6. sm'.state = after /\ sm'.app_response = sm.app_response
  BY <1>1, InvFacts DEF SmOK
<1>7. TypeParts'
  <2>1. AppFifosOK'
    BY <1>1, <1>2, InvFacts DEF AppFifosOK
  <2>2. SmOK'
    BY <1>1, <1>4, <1>5, InvFacts DEF SmOK, SmStates
  <2>3. Middle(in) \in Word
    BY <1>2 DEF Middle, Word
  <2>4. AlignerOK'
    BY <1>1, <2>3, FifoAppend, InvFacts, ResponseAssumption DEF AlignerOK
  <2> QED BY <1>1, <2>1, <2>2, <2>4, InvFacts
          DEF TypeParts, TcpFifosOK, StatusFifosOK, ScOK, PlannedOK, AppOK, SettledOK
<1>8. current' = current /\ RegistersLoaded' /\ ResponsesOffered'
  BY <1>1, <1>6, InvKept
<1>9. HeadersFollow'
  BY <1>1, <1>2, <1>4, <1>5, <1>6, <1>8 DEF HeadersFollow, HeadersNext, HeadersTaken, HeadersAhead
<1>10. BodyFollows'
  <2>1. PlaceAt(http_response_body, app.body, 1) = <<current, 1>>
    BY <1>1, InvFacts DEF BodyFollows, BodyNext
  <2> QED BY <1>1, <1>4, <1>5, <1>6, <1>8, <2>1, InvFacts DEF BodyFollows, BodyNext
<1>11. OneRequestToSend' /\ SettledAsPlanned'
  BY <1>1, <1>4, <1>5, <1>6, <1>8, InvFacts DEF OneRequestToSend, SettledAsPlanned, NoneAsked
<1>12. StatusLineOfCurrent'
  BY <1>1, <1>4, <1>5, <1>6, <1>8, InvFacts DEF StatusLineOfCurrent
<1> QED BY <1>7, <1>8, <1>9, <1>10, <1>11, <1>12 DEF IInv

LEMMA InvSmDataCrlf == ASSUME IInv, SmDataCrlf PROVE IInv'
<1>1. /\ sm.state = "DATA_CRLF" /\ CanWrite(tx_aligner, InnerDepth)
      /\ sm' = [sm EXCEPT !.state = "DATA_BODY"] /\ tx_aligner' = Append(tx_aligner, Crlf)
      /\ http_response' = http_response
      /\ http_response_headers' = http_response_headers /\ http_response_body' = http_response_body
      /\ tcp_tx_req' = tcp_tx_req /\ tcp_tx_rsp' = tcp_tx_rsp
      /\ resp_status_code' = resp_status_code /\ resp_status_line' = resp_status_line
      /\ sc' = sc /\ planned' = planned /\ app' = app /\ settled' = settled /\ aligned' = aligned
  BY DEF SmDataCrlf, appFifos, tcpFifos, outside
<1>2. sm'.state = "DATA_BODY" /\ sm'.app_response = sm.app_response
  BY <1>1, InvFacts DEF SmOK
<1>3. TypeParts'
  <2>1. SmOK'
    BY <1>1, InvFacts DEF SmOK, SmStates
  <2>2. Crlf \in Word
    BY DEF Crlf, Word, Parts
  <2>3. AlignerOK'
    BY <1>1, <2>2, FifoAppend, InvFacts, ResponseAssumption DEF AlignerOK
  <2> QED BY <1>1, <2>1, <2>3, InvFacts
          DEF TypeParts, AppFifosOK, TcpFifosOK, StatusFifosOK, ScOK, PlannedOK, AppOK, SettledOK
<1>4. current' = current /\ RegistersLoaded' /\ ResponsesOffered'
  BY <1>1, <1>2, InvKept
<1>5. HeadersFollow'
  BY <1>1, <1>2, <1>4, InvFacts DEF HeadersFollow, HeadersNext, HeadersTaken, HeadersAhead
<1>6. BodyFollows'
  <2>1. PlaceAt(http_response_body, app.body, 1) = <<current, 1>>
    BY <1>1, InvFacts DEF BodyFollows, BodyNext
  <2> QED BY <1>1, <1>2, <1>4, <2>1, InvFacts DEF BodyFollows, BodyNext
<1>7. OneRequestToSend' /\ SettledAsPlanned'
  BY <1>1, <1>2, <1>4, InvFacts DEF OneRequestToSend, SettledAsPlanned, NoneAsked
<1>8. StatusLineOfCurrent'
  BY <1>1, <1>2, <1>4, InvFacts DEF StatusLineOfCurrent
<1> QED BY <1>3, <1>4, <1>5, <1>6, <1>7, <1>8 DEF IInv

LEMMA InvTakeBody == ASSUME IInv, SmDataBody \/ SmFlushBody PROVE IInv'
<1> DEFINE in    == Head(http_response_body)
           after == IF in.last THEN "IDLE" ELSE sm.state
           first == PlaceAt(http_response_body, app.body, 1)
<1>1. /\ sm.state \in {"DATA_BODY", "FLUSH_BODY"} /\ CanRead(http_response_body)
      /\ sm' = [sm EXCEPT !.state = after]
      /\ http_response_body' = Tail(http_response_body)
      /\ \/ tx_aligner' = tx_aligner
         \/ CanWrite(tx_aligner, InnerDepth) /\ tx_aligner' = Append(tx_aligner, in)
      /\ http_response' = http_response /\ http_response_headers' = http_response_headers
      /\ tcp_tx_req' = tcp_tx_req /\ tcp_tx_rsp' = tcp_tx_rsp
      /\ resp_status_code' = resp_status_code /\ resp_status_line' = resp_status_line
      /\ sc' = sc /\ planned' = planned /\ app' = app /\ settled' = settled /\ aligned' = aligned
  BY DEF SmDataBody, SmFlushBody, tcpFifos, innerFifos, outside
<1>2. /\ in \in Word /\ IsFifo(Tail(http_response_body), Word, PortDepth)
      /\ Existing(planned, "body", first) /\ in = WordAt(planned, "body", first)
      /\ Runs(planned, Tail(http_response_body), "body", app.body)
      /\ PlaceAt(Tail(http_response_body), app.body, 1) = After(planned, "body", first)
  <2>1. http_response_body \in Seq(Word) /\ http_response_body # <<>>
    BY <1>1, InvFacts DEF AppFifosOK, IsFifo, CanRead
  <2>2. Runs(planned, http_response_body, "body", app.body)
    BY InvFacts DEF BodyFollows
  <2>3. IsFifo(Tail(http_response_body), Word, PortDepth)
    BY <1>1, FifoTail, InvFacts, ResponseAssumption DEF AppFifosOK
  <2> QED BY <2>1, <2>2, <2>3, RunsTail, InvFacts DEF PlannedOK
<1>3. first[1] = current /\ first \in Nat \X Nat
  BY <1>1, <1>2, InvFacts DEF BodyFollows, BodyNext, Existing
<1>4. /\ in.last => After(planned, "body", first) = <<current + 1, 1>>
      /\ ~in.last => After(planned, "body", first)[1] = current
      /\ in.last \in BOOLEAN
  <2> HIDE DEF in, first
  <2>1. /\ in.last => After(planned, "body", first) = <<first[1] + 1, 1>>
        /\ ~in.last => After(planned, "body", first) = <<first[1], first[2] + 1>>
        /\ in.last \in BOOLEAN
    BY <1>2, AfterWord
  <2> QED BY <1>3, <2>1
<1> HIDE DEF in, first
<1>5. sm'.state = after /\ sm'.app_response = sm.app_response
  BY <1>1, InvFacts DEF SmOK
<1>6. TypeParts'
  <2>1. AppFifosOK'
    BY <1>1, <1>2, InvFacts DEF AppFifosOK
  <2>2. SmOK'
    BY <1>1, <1>4, InvFacts DEF SmOK, SmStates
  <2>3. AlignerOK'
    BY <1>1, <1>2, FifoAppend, InvFacts, ResponseAssumption DEF AlignerOK
  <2> QED BY <1>1, <2>1, <2>2, <2>3, InvFacts
          DEF TypeParts, TcpFifosOK, StatusFifosOK, ScOK, PlannedOK, AppOK, SettledOK
<1>7. current' = current /\ RegistersLoaded' /\ ResponsesOffered'
  BY <1>1, <1>5, InvKept
<1>8. HeadersFollow'
  BY <1>1, <1>4, <1>5, <1>7, InvFacts DEF HeadersFollow, HeadersNext, HeadersTaken, HeadersAhead
<1>9. BodyFollows'
  BY <1>1, <1>2, <1>4, <1>5, <1>7 DEF BodyFollows, BodyNext
<1>10. OneRequestToSend' /\ SettledAsPlanned'
  BY <1>1, <1>4, <1>5, <1>7, InvFacts DEF OneRequestToSend, SettledAsPlanned, NoneAsked
<1>11. StatusLineOfCurrent'
  BY <1>1, <1>4, <1>5, <1>7, InvFacts DEF StatusLineOfCurrent
<1> QED BY <1>6, <1>7, <1>8, <1>9, <1>10, <1>11 DEF IInv

\* The status line parser moves a code on, and nothing else.
LEMMA InvStatusCodeParser == ASSUME IInv, StatusCodeParser PROVE IInv'
<1>1. /\ sm' = sm /\ http_response' = http_response
      /\ http_response_headers' = http_response_headers /\ http_response_body' = http_response_body
      /\ tcp_tx_req' = tcp_tx_req /\ tcp_tx_rsp' = tcp_tx_rsp /\ tx_aligner' = tx_aligner
      /\ planned' = planned /\ app' = app /\ settled' = settled /\ aligned' = aligned
  BY DEF StatusCodeParser, ScIdle, ScReadInput, ScWriteOutput, appFifos, tcpFifos, innerFifos, outside
<1>2. current' = current /\ ResponsesOffered'
  BY <1>1, InvKept
<1>3. HeadersFollow' /\ BodyFollows' /\ OneRequestToSend' /\ SettledAsPlanned'
  BY <1>1, <1>2, InvFacts
  DEF HeadersFollow, BodyFollows, HeadersNext, BodyNext, OneRequestToSend, SettledAsPlanned, NoneAsked
<1>4. ASSUME StatusFifosOK', ScOK', RegistersLoaded', StatusLineOfCurrent' PROVE IInv'
  BY <1>1, <1>2, <1>3, <1>4, InvFacts
  DEF IInv, TypeParts, AppFifosOK, TcpFifosOK, SmOK, PlannedOK, AppOK, SettledOK, AlignerOK
<1> DEFINE Working == sm.state \in {"TCP_REQ", "TCP_RSP", "DATA_HTTP_STATUS", "FLUSH_HEADLINE"}
           code    == planned[current].status_code
<1>5. CASE ScIdle
  <2>1. /\ sc.state = "IDLE" /\ CanRead(resp_status_code) /\ sc' = [sc EXCEPT !.state = "READ_INPUT"]
        /\ resp_status_code' = resp_status_code /\ resp_status_line' = resp_status_line
    BY <1>5 DEF ScIdle, innerFifos
  <2>2. sc'.state = "READ_INPUT" /\ ScOK'
    BY <2>1, InvFacts DEF ScOK
  <2>3. StatusFifosOK' /\ RegistersLoaded'
    BY <1>1, <1>2, <2>1, <2>2, InvFacts DEF StatusFifosOK, RegistersLoaded
  <2>4. Working /\ resp_status_code = <<code>> /\ resp_status_line = <<>>
    BY <2>1, InvFacts DEF StatusLineOfCurrent, CanRead, SmOK, SmStates
  <2>5. StatusLineOfCurrent'
    BY <1>1, <1>2, <2>1, <2>2, <2>4 DEF StatusLineOfCurrent
  <2> QED BY <1>4, <2>2, <2>3, <2>5
<1>6. CASE ScReadInput
  <2>1. /\ sc.state = "READ_INPUT" /\ CanRead(resp_status_code)
        /\ sc' = [state |-> "WRITE_OUTPUT", status_code |-> Head(resp_status_code)]
        /\ resp_status_code' = Tail(resp_status_code) /\ resp_status_line' = resp_status_line
    BY <1>6 DEF ScReadInput
  <2>2. StatusFifosOK' /\ Head(resp_status_code) \in StatusCodes
    BY <2>1, FifoTail, InvFacts, ResponseAssumption DEF StatusFifosOK
  <2>3. ScOK' /\ RegistersLoaded'
    BY <1>1, <1>2, <2>1, <2>2, InvFacts DEF ScOK, RegistersLoaded
  <2>4. Working /\ resp_status_code = <<code>> /\ resp_status_line = <<>>
    BY <2>1, InvFacts DEF StatusLineOfCurrent, CanRead, SmOK, SmStates
  <2>5. resp_status_code' = <<>> /\ sc'.state = "WRITE_OUTPUT" /\ sc'.status_code = code
    BY <2>1, <2>4
  <2>6. StatusLineOfCurrent'
    BY <1>1, <1>2, <2>1, <2>4, <2>5 DEF StatusLineOfCurrent
  <2> QED BY <1>4, <2>2, <2>3, <2>6
<1>7. CASE ScWriteOutput
  <2>1. /\ sc.state = "WRITE_OUTPUT" /\ CanWrite(resp_status_line, InnerDepth)
        /\ sc' = [sc EXCEPT !.state = "IDLE"] /\ resp_status_code' = resp_status_code
        /\ resp_status_line' = Append(resp_status_line, StatusLine(sc.status_code))
    BY <1>7 DEF ScWriteOutput
  <2>2. StatusLine(sc.status_code) \in StatusLines
    BY <2>1, InvFacts DEF RegistersLoaded, StatusLines
  <2>3. StatusFifosOK'
    BY <2>1, <2>2, FifoAppend, InvFacts, ResponseAssumption DEF StatusFifosOK
  <2>4. sc'.state = "IDLE" /\ ScOK'
    BY <2>1, InvFacts DEF ScOK
  <2>5. RegistersLoaded'
    BY <1>1, <1>2, <2>4, InvFacts DEF RegistersLoaded
  <2>6. /\ Working /\ resp_status_code = <<>> /\ sc.status_code = code /\ resp_status_line = <<>>
    BY <2>1, InvFacts DEF StatusLineOfCurrent, SmOK, SmStates
  <2>7. resp_status_line' = <<StatusLine(code)>>
    BY <2>1, <2>6
  <2>8. StatusLineOfCurrent'
    BY <1>1, <1>2, <2>1, <2>4, <2>6, <2>7 DEF StatusLineOfCurrent
  <2> QED BY <1>4, <2>3, <2>4, <2>5, <2>8
<1> QED BY <1>5, <1>6, <1>7 DEF StatusCodeParser

LEMMA InvAlignerTake == ASSUME IInv, AlignerTake PROVE IInv'
<1>1. /\ CanRead(tx_aligner) /\ aligned' = Append(aligned, Head(tx_aligner))
      /\ tx_aligner' = Tail(tx_aligner)
      /\ sm' = sm /\ sc' = sc /\ http_response' = http_response
      /\ http_response_headers' = http_response_headers /\ http_response_body' = http_response_body
      /\ tcp_tx_req' = tcp_tx_req /\ tcp_tx_rsp' = tcp_tx_rsp
      /\ resp_status_code' = resp_status_code /\ resp_status_line' = resp_status_line
      /\ planned' = planned /\ app' = app /\ settled' = settled
  BY DEF AlignerTake, appFifos, tcpFifos
<1>2. current' = current /\ ResponsesOffered' /\ RegistersLoaded'
  BY <1>1, InvKept
<1>3. AlignerOK'
  BY <1>1, FifoTail, InvFacts, ResponseAssumption DEF AlignerOK
<1>4. TypeParts'
  BY <1>1, <1>3, InvFacts
  DEF TypeParts, AppFifosOK, TcpFifosOK, StatusFifosOK, SmOK, ScOK, PlannedOK, AppOK, SettledOK
<1>5. HeadersFollow' /\ BodyFollows' /\ OneRequestToSend' /\ SettledAsPlanned'
  BY <1>1, <1>2, InvFacts
  DEF HeadersFollow, BodyFollows, HeadersNext, BodyNext, OneRequestToSend, SettledAsPlanned, NoneAsked
<1>6. StatusLineOfCurrent'
  BY <1>1, <1>2, InvFacts DEF StatusLineOfCurrent
<1> QED BY <1>2, <1>4, <1>5, <1>6 DEF IInv

LEMMA InvAppResponse == ASSUME IInv, AppResponse PROVE IInv'
<1> DEFINE response == planned[app.responses + 1]
<1>1. /\ app.responses < MaxResponses /\ CanWrite(http_response, PortDepth)
      /\ http_response' = Append(http_response, response)
      /\ app' = [app EXCEPT !.responses = @ + 1]
      /\ sm' = sm /\ sc' = sc
      /\ http_response_headers' = http_response_headers /\ http_response_body' = http_response_body
      /\ tcp_tx_req' = tcp_tx_req /\ tcp_tx_rsp' = tcp_tx_rsp /\ tx_aligner' = tx_aligner
      /\ resp_status_code' = resp_status_code /\ resp_status_line' = resp_status_line
      /\ planned' = planned /\ settled' = settled /\ aligned' = aligned
  BY DEF AppResponse, tcpFifos, innerFifos
<1>2. response \in Response
  BY <1>1, InvFacts, ResponseAssumption DEF PlannedOK
<1>3. /\ app'.responses = app.responses + 1
      /\ app'.headers = app.headers /\ app'.body = app.body /\ AppOK'
  BY SMTT(30), <1>1, InvFacts DEF AppOK
<1>4. /\ Len(http_response') = Len(http_response) + 1
      /\ \A i \in 1 .. Len(http_response) : http_response'[i] = http_response[i]
      /\ http_response'[Len(http_response) + 1] = response
  BY <1>1, AppendFacts, InvFacts DEF AppFifosOK, IsFifo
<1>5. current' = current
  BY <1>3, <1>4, InvFacts DEF current
<1>6. TypeParts'
  <2>1. AppFifosOK'
    BY <1>1, <1>2, FifoAppend, InvFacts, ResponseAssumption DEF AppFifosOK
  <2> QED BY <1>1, <1>3, <2>1, InvFacts
          DEF TypeParts, TcpFifosOK, StatusFifosOK, SmOK, ScOK, PlannedOK, SettledOK, AlignerOK
<1>7. RegistersLoaded'
  BY <1>1, <1>5, InvFacts DEF RegistersLoaded
<1>8. ResponsesOffered'
  <2>1. app'.responses <= MaxResponses /\ Len(http_response') <= app'.responses
    BY <1>1, <1>3, <1>4, InvFacts, ResponseAssumption DEF ResponsesOffered
  <2>2. ASSUME NEW i \in 1 .. Len(http_response) + 1
        PROVE  http_response'[i] = planned[current + i]
    <3>1. CASE i \in 1 .. Len(http_response)
      BY <1>4, <3>1, InvFacts DEF ResponsesOffered
    <3>2. CASE i = Len(http_response) + 1
      BY <1>4, <3>2, InvFacts DEF current
    <3> QED BY <3>1, <3>2, InvFacts
  <2> QED BY <1>1, <1>4, <1>5, <2>1, <2>2 DEF ResponsesOffered
<1>9. HeadersFollow' /\ BodyFollows' /\ OneRequestToSend' /\ SettledAsPlanned'
  BY <1>1, <1>3, <1>5, InvFacts
  DEF HeadersFollow, BodyFollows, HeadersNext, BodyNext, OneRequestToSend, SettledAsPlanned, NoneAsked
<1>10. StatusLineOfCurrent'
  BY <1>1, <1>5, InvFacts DEF StatusLineOfCurrent
<1> QED BY <1>6, <1>7, <1>8, <1>9, <1>10 DEF IInv

LEMMA InvAppHeaders == ASSUME IInv, AppHeaders PROVE IInv'
<1> DEFINE end  == app.headers
           word == WordAt(planned, "headers", end)
           past == After(planned, "headers", end)
<1>1. /\ end[1] <= MaxResponses /\ CanWrite(http_response_headers, PortDepth)
      /\ http_response_headers' = Append(http_response_headers, word)
      /\ app' = [app EXCEPT !.headers = past]
      /\ sm' = sm /\ sc' = sc /\ http_response' = http_response /\ http_response_body' = http_response_body
      /\ tcp_tx_req' = tcp_tx_req /\ tcp_tx_rsp' = tcp_tx_rsp /\ tx_aligner' = tx_aligner
      /\ resp_status_code' = resp_status_code /\ resp_status_line' = resp_status_line
      /\ planned' = planned /\ settled' = settled /\ aligned' = aligned
  BY DEF AppHeaders, tcpFifos, innerFifos, WordAt, After, Size
<1>2. /\ word \in Word /\ Runs(planned, Append(http_response_headers, word), "headers", past)
      /\ PlaceAt(Append(http_response_headers, word), past, 1) = PlaceAt(http_response_headers, end, 1)
  <2>1. http_response_headers \in Seq(Word) /\ Runs(planned, http_response_headers, "headers", end)
    BY InvFacts DEF AppFifosOK, IsFifo, HeadersFollow
  <2> QED BY <1>1, <2>1, RunsAppend, InvFacts DEF PlannedOK
<1>3. past \in Nat \X Nat
  BY <1>2 DEF Runs
<1> HIDE DEF word, past
<1>4. /\ app' \in [responses : Nat, headers : Nat \X Nat, body : Nat \X Nat]
      /\ app'.responses = app.responses /\ app'.headers = past /\ app'.body = app.body
  BY <1>1, <1>3, InvFacts DEF AppOK
<1>5. TypeParts'
  <2>1. AppFifosOK'
    BY <1>1, <1>2, FifoAppend, InvFacts, ResponseAssumption DEF AppFifosOK
  <2> QED BY <1>1, <1>4, <2>1, InvFacts
          DEF TypeParts, TcpFifosOK, StatusFifosOK, SmOK, ScOK, PlannedOK, AppOK, SettledOK, AlignerOK
<1>6. current' = current /\ ResponsesOffered' /\ RegistersLoaded'
  BY <1>1, <1>4, InvKept
<1>7. HeadersFollow'
  BY <1>1, <1>2, <1>4, <1>6, InvFacts DEF HeadersFollow, HeadersNext
<1>8. BodyFollows' /\ OneRequestToSend' /\ SettledAsPlanned'
  BY <1>1, <1>4, <1>6, InvFacts DEF BodyFollows, BodyNext, OneRequestToSend, SettledAsPlanned, NoneAsked
<1>9. StatusLineOfCurrent'
  BY <1>1, <1>6, InvFacts DEF StatusLineOfCurrent
<1> QED BY <1>5, <1>6, <1>7, <1>8, <1>9 DEF IInv

LEMMA InvAppBody == ASSUME IInv, AppBody PROVE IInv'
<1> DEFINE end  == app.body
           word == WordAt(planned, "body", end)
           past == After(planned, "body", end)
<1>1. /\ end[1] <= MaxResponses /\ CanWrite(http_response_body, PortDepth)
      /\ http_response_body' = Append(http_response_body, word)
      /\ app' = [app EXCEPT !.body = past]
      /\ sm' = sm /\ sc' = sc /\ http_response' = http_response /\ http_response_headers' = http_response_headers
      /\ tcp_tx_req' = tcp_tx_req /\ tcp_tx_rsp' = tcp_tx_rsp /\ tx_aligner' = tx_aligner
      /\ resp_status_code' = resp_status_code /\ resp_status_line' = resp_status_line
      /\ planned' = planned /\ settled' = settled /\ aligned' = aligned
  BY DEF AppBody, tcpFifos, innerFifos, WordAt, After, Size
<1>2. /\ word \in Word /\ Runs(planned, Append(http_response_body, word), "body", past)
      /\ PlaceAt(Append(http_response_body, word), past, 1) = PlaceAt(http_response_body, end, 1)
  <2>1. http_response_body \in Seq(Word) /\ Runs(planned, http_response_body, "body", end)
    BY InvFacts DEF AppFifosOK, IsFifo, BodyFollows
  <2> QED BY <1>1, <2>1, RunsAppend, InvFacts DEF PlannedOK
<1>3. past \in Nat \X Nat
  BY <1>2 DEF Runs
<1> HIDE DEF word, past
<1>4. /\ app' \in [responses : Nat, headers : Nat \X Nat, body : Nat \X Nat]
      /\ app'.responses = app.responses /\ app'.body = past /\ app'.headers = app.headers
  BY <1>1, <1>3, InvFacts DEF AppOK
<1>5. TypeParts'
  <2>1. AppFifosOK'
    BY <1>1, <1>2, FifoAppend, InvFacts, ResponseAssumption DEF AppFifosOK
  <2> QED BY <1>1, <1>4, <2>1, InvFacts
          DEF TypeParts, TcpFifosOK, StatusFifosOK, SmOK, ScOK, PlannedOK, AppOK, SettledOK, AlignerOK
<1>6. current' = current /\ ResponsesOffered' /\ RegistersLoaded'
  BY <1>1, <1>4, InvKept
<1>7. BodyFollows'
  BY <1>1, <1>2, <1>4, <1>6, InvFacts DEF BodyFollows, BodyNext
<1>8. HeadersFollow' /\ OneRequestToSend' /\ SettledAsPlanned'
  BY <1>1, <1>4, <1>6, InvFacts DEF HeadersFollow, HeadersNext, OneRequestToSend, SettledAsPlanned, NoneAsked
<1>9. StatusLineOfCurrent'
  BY <1>1, <1>6, InvFacts DEF StatusLineOfCurrent
<1> QED BY <1>5, <1>6, <1>7, <1>8, <1>9 DEF IInv

\* What both answers of the TCP stack have in common: the request it answers is
\* the one of the response in work.
LEMMA RequestAnswered ==
  ASSUME IInv, CanRead(tcp_tx_req)
  PROVE  /\ sm.state = "TCP_RSP" /\ Len(settled) = current - 1
         /\ current \in 1 .. MaxResponses /\ planned[current] \in Response
         /\ tcp_tx_req = <<RequestFor(planned[current])>> /\ tcp_tx_rsp = <<>>
         /\ Head(tcp_tx_req) = RequestFor(planned[current]) /\ Tail(tcp_tx_req) = <<>>
<1>1. sm.state \in {"TCP_REQ", "TCP_RSP"} \/ sm.state \notin {"TCP_REQ", "TCP_RSP"}
  OBVIOUS
<1>2. /\ sm.state = "TCP_RSP" /\ Len(settled) = current - 1
      /\ tcp_tx_req = <<RequestFor(planned[current])>> /\ tcp_tx_rsp = <<>>
  BY <1>1, InvFacts DEF OneRequestToSend, NoneAsked, CanRead
<1>3. Head(tcp_tx_req) = RequestFor(planned[current]) /\ Tail(tcp_tx_req) = <<>>
  BY <1>2
<1> QED BY <1>2, <1>3, InvFacts DEF RegistersLoaded, PlannedOK

LEMMA InvTcpSettle == ASSUME IInv, TcpSettle PROVE IInv'
<1> DEFINE req == Head(tcp_tx_req)
<1>1. PICK error \in {0, 1} :
        /\ tcp_tx_rsp' = Append(tcp_tx_rsp, [sessionID |-> req.sessionID, error |-> error])
        /\ settled' = Append(settled, [sessionID |-> req.sessionID, length |-> req.length,
                                       outcome |-> IF error = 0 THEN "accepted" ELSE "closed"])
  BY DEF TcpSettle
<1> DEFINE settlement == [sessionID |-> req.sessionID, length |-> req.length,
                          outcome |-> IF error = 0 THEN "accepted" ELSE "closed"]
           answer     == [sessionID |-> req.sessionID, error |-> error]
<1>2. /\ CanRead(tcp_tx_req) /\ CanWrite(tcp_tx_rsp, PortDepth) /\ tcp_tx_req' = Tail(tcp_tx_req)
      /\ sm' = sm /\ sc' = sc /\ http_response' = http_response
      /\ http_response_headers' = http_response_headers /\ http_response_body' = http_response_body
      /\ tx_aligner' = tx_aligner
      /\ resp_status_code' = resp_status_code /\ resp_status_line' = resp_status_line
      /\ planned' = planned /\ app' = app /\ aligned' = aligned
  BY DEF TcpSettle, appFifos, innerFifos
<1>3. /\ sm.state = "TCP_RSP" /\ Len(settled) = current - 1
      /\ current \in 1 .. MaxResponses /\ planned[current] \in Response
      /\ tcp_tx_rsp = <<>> /\ req = RequestFor(planned[current]) /\ tcp_tx_req' = <<>>
  BY <1>2, RequestAnswered
<1>4. req \in TxRequest
  <2>1. Announced(planned[current]) \in Nat
    BY <1>3, AnnouncedType, ResponseDataAssumption
  <2> QED BY <1>3, <2>1 DEF RequestFor, TxRequest, Response
<1>5. settlement \in Settlement /\ answer \in TxAnswer
  BY <1>4 DEF Settlement, TxRequest, TxAnswer
<1>6. /\ Len(settled') = current
      /\ \A i \in 1 .. current - 1 : settled'[i] = settled[i]
      /\ settled'[current] = settlement
  <2>1. settled \in Seq(Settlement)
    BY InvFacts DEF SettledOK
  <2> QED BY <1>1, <1>3, <2>1, AppendFacts
<1>7. tcp_tx_rsp' = <<answer>> /\ Len(tcp_tx_rsp') = 1 /\ tcp_tx_rsp'[1].error = error
  BY <1>1, <1>3
<1>8. TypeParts'
  <2>1. TcpFifosOK'
    BY <1>1, <1>2, <1>5, FifoTail, FifoAppend, InvFacts, ResponseAssumption DEF TcpFifosOK
  <2>2. SettledOK'
    BY <1>1, <1>5, InvFacts DEF SettledOK
  <2> QED BY <1>2, <2>1, <2>2, InvFacts
          DEF TypeParts, AppFifosOK, StatusFifosOK, SmOK, ScOK, PlannedOK, AppOK, AlignerOK
<1>9. current' = current /\ ResponsesOffered' /\ RegistersLoaded'
  BY <1>2, InvKept
<1>10. HeadersFollow' /\ BodyFollows'
  BY <1>2, <1>9, InvFacts DEF HeadersFollow, BodyFollows, HeadersNext, BodyNext
<1>11. OneRequestToSend'
  BY <1>2, <1>3, <1>6, <1>7, <1>9 DEF OneRequestToSend
<1>12. SettledAsPlanned'
  <2> SUFFICES ASSUME NEW i \in 1 .. current
               PROVE  /\ settled'[i].sessionID = planned[i].sessionID
                      /\ settled'[i].length = Announced(planned[i])
    BY <1>2, <1>6 DEF SettledAsPlanned
  <2>1. CASE i \in 1 .. current - 1
    BY <1>3, <1>6, <2>1, InvFacts DEF SettledAsPlanned
  <2>2. CASE i = current
    BY <1>3, <1>6, <2>2 DEF RequestFor
  <2> QED BY <1>3, <2>1, <2>2
<1>13. StatusLineOfCurrent'
  BY <1>2, <1>9, InvFacts DEF StatusLineOfCurrent
<1> QED BY <1>8, <1>9, <1>10, <1>11, <1>12, <1>13 DEF IInv

LEMMA InvTcpRetry == ASSUME IInv, TcpRetry PROVE IInv'
<1>1. PICK error \in {2, 3} :
        tcp_tx_rsp' = Append(tcp_tx_rsp, [sessionID |-> Head(tcp_tx_req).sessionID, error |-> error])
  BY DEF TcpRetry
<1> DEFINE answer == [sessionID |-> Head(tcp_tx_req).sessionID, error |-> error]
<1>2. /\ CanRead(tcp_tx_req) /\ CanWrite(tcp_tx_rsp, PortDepth) /\ tcp_tx_req' = Tail(tcp_tx_req)
      /\ sm' = sm /\ sc' = sc /\ http_response' = http_response
      /\ http_response_headers' = http_response_headers /\ http_response_body' = http_response_body
      /\ tx_aligner' = tx_aligner /\ settled' = settled
      /\ resp_status_code' = resp_status_code /\ resp_status_line' = resp_status_line
      /\ planned' = planned /\ app' = app /\ aligned' = aligned
  BY DEF TcpRetry, appFifos, innerFifos, outside
<1>3. /\ sm.state = "TCP_RSP" /\ Len(settled) = current - 1 /\ planned[current] \in Response
      /\ tcp_tx_rsp = <<>> /\ tcp_tx_req' = <<>> /\ Head(tcp_tx_req) = RequestFor(planned[current])
  BY <1>2, RequestAnswered
<1>4. answer \in TxAnswer
  BY <1>3 DEF RequestFor, TxAnswer, Response
<1>5. tcp_tx_rsp' = <<answer>> /\ Len(tcp_tx_rsp') = 1 /\ tcp_tx_rsp'[1].error = error
  BY <1>1, <1>3
<1>6. TypeParts'
  <2>1. TcpFifosOK'
    BY <1>1, <1>2, <1>4, FifoTail, FifoAppend, InvFacts, ResponseAssumption DEF TcpFifosOK
  <2> QED BY <1>2, <2>1, InvFacts
          DEF TypeParts, AppFifosOK, StatusFifosOK, SmOK, ScOK, PlannedOK, AppOK, SettledOK, AlignerOK
<1>7. current' = current /\ ResponsesOffered' /\ RegistersLoaded'
  BY <1>2, InvKept
<1>8. HeadersFollow' /\ BodyFollows' /\ SettledAsPlanned'
  BY <1>2, <1>7, InvFacts DEF HeadersFollow, BodyFollows, HeadersNext, BodyNext, SettledAsPlanned
<1>9. OneRequestToSend'
  BY <1>2, <1>3, <1>5, <1>7 DEF OneRequestToSend
<1>10. StatusLineOfCurrent'
  BY <1>2, <1>7, InvFacts DEF StatusLineOfCurrent
<1> QED BY <1>6, <1>7, <1>8, <1>9, <1>10 DEF IInv

\* Nothing changes.
LEMMA InvStutter == ASSUME IInv, UNCHANGED vars PROVE IInv'
<1>1. /\ sm' = sm /\ sc' = sc /\ http_response' = http_response
      /\ http_response_headers' = http_response_headers /\ http_response_body' = http_response_body
      /\ tcp_tx_req' = tcp_tx_req /\ tcp_tx_rsp' = tcp_tx_rsp /\ tx_aligner' = tx_aligner
      /\ resp_status_code' = resp_status_code /\ resp_status_line' = resp_status_line
      /\ planned' = planned /\ app' = app /\ settled' = settled /\ aligned' = aligned
  BY DEF vars, appFifos, tcpFifos, innerFifos, outside
<1>2. current' = current /\ ResponsesOffered' /\ RegistersLoaded'
  BY <1>1, InvKept
<1>3. TypeParts'
  BY <1>1, InvFacts
  DEF TypeParts, AppFifosOK, TcpFifosOK, StatusFifosOK, SmOK, ScOK, PlannedOK, AppOK, SettledOK, AlignerOK
<1>4. HeadersFollow' /\ BodyFollows' /\ OneRequestToSend' /\ SettledAsPlanned'
  BY <1>1, <1>2, InvFacts
  DEF HeadersFollow, BodyFollows, HeadersNext, BodyNext, OneRequestToSend, SettledAsPlanned, NoneAsked
<1>5. StatusLineOfCurrent'
  BY <1>1, <1>2, InvFacts DEF StatusLineOfCurrent
<1> QED BY <1>2, <1>3, <1>4, <1>5 DEF IInv

\* Every step keeps the invariant.
LEMMA InvStep == IInv /\ [Next]_vars => IInv'
<1> SUFFICES ASSUME IInv, [Next]_vars PROVE IInv'
  OBVIOUS
<1>1. ASSUME StateMachine PROVE IInv'
  BY <1>1, InvSmIdle, InvSmTcpReq, InvSmTcpRsp, InvTakeStatusLine, InvTakeHeaders, InvSmDataCrlf,
     InvTakeBody DEF StateMachine
<1>2. ASSUME AppResponse \/ AppHeaders \/ AppBody PROVE IInv'
  BY <1>2, InvAppResponse, InvAppHeaders, InvAppBody
<1>3. ASSUME TcpSettle \/ TcpRetry PROVE IInv'
  BY <1>3, InvTcpSettle, InvTcpRetry
<1> QED BY <1>1, <1>2, <1>3, InvStatusCodeParser, InvAlignerTake, InvStutter DEF Next, Poll

\* The invariant holds in every reachable state.
LEMMA IInvariant == Spec => []IInv
<1> QED BY InvInit, InvStep, PTL DEF Spec

-----------------------------------------------------------------------------
(***************************************************************************)
(* The theorems                                                            *)
(***************************************************************************)

\* The type invariant in its parts.
LEMMA Typed == TypeOK <=> TypeParts
BY Zenon DEF TypeOK, PathTypeOK, TypeParts, AppFifosOK, TcpFifosOK, StatusFifosOK, StatusLines, SmOK, ScOK,
   PlannedOK, AppOK, Settlement, SettledOK, AlignerOK


\* Every register, FIFO and history variable keeps its type, and no FIFO of the
\* response path holds more than its depth.
THEOREM TypeCorrect == Spec => []TypeOK
<1>1. IInv => TypeOK
  BY Typed DEF IInv
<1> QED BY <1>1, IInvariant, PTL

\* The status line state_machine takes, to send or to flush, is the one of the
\* response it works on, whatever was put off or refused before.
THEOREM StatusLineKept == Spec => []StatusLineOfCurrent
<1>1. IInv => StatusLineOfCurrent
  BY DEF IInv
<1> QED BY <1>1, IInvariant, PTL

\* The next word of headers and of body is always one of the response in work,
\* until the last one is taken.
THEOREM PartsKept == Spec => []PartsOfCurrent
<1>1. ASSUME IInv PROVE PartsOfCurrent
  <2>1. http_response_headers \in Seq(Word) /\ http_response_body \in Seq(Word)
    BY <1>1, InvFacts DEF AppFifosOK, IsFifo
  <2>2. http_response_headers # <<>> =>
          Head(http_response_headers).rsp = PlaceAt(http_response_headers, app.headers, 1)[1]
    BY <2>1 DEF PlaceAt, Place
  <2>3. http_response_body # <<>> =>
          Head(http_response_body).rsp = PlaceAt(http_response_body, app.body, 1)[1]
    BY <2>1 DEF PlaceAt, Place
  <2>4. PlaceAt(http_response_headers, app.headers, 1)[1]
          = IF sm.state \in HeadersTaken THEN current + 1 ELSE current
    BY <1>1, InvFacts DEF HeadersFollow, HeadersNext, HeadersTaken, HeadersAhead, SmOK, SmStates
  <2>5. PlaceAt(http_response_body, app.body, 1)[1]
          = IF sm.state = "IDLE" THEN current + 1 ELSE current
    BY <1>1, InvFacts DEF BodyFollows, BodyNext
  <2> QED BY <2>2, <2>3, <2>4, <2>5 DEF PartsOfCurrent, HeadersTaken
<1> QED BY <1>1, IInvariant, PTL

\* Responses are settled one at a time, in order, each with its own session and
\* the length announced for it; a retry settles nothing.
THEOREM SettledInOrder == Spec => [](OneRequestToSend /\ SettledAsPlanned)
<1>1. IInv => OneRequestToSend /\ SettledAsPlanned
  BY DEF IInv
<1> QED BY <1>1, IInvariant, PTL

-----------------------------------------------------------------------------
(***************************************************************************)
(* The implementation of ResponseDelivery                                  *)
(***************************************************************************)

\* One sequence after another.
LEMMA ConcatFacts ==
  ASSUME NEW S, NEW s \in Seq(S), NEW t \in Seq(S)
  PROVE  /\ s \o t \in Seq(S) /\ Len(s) \in Nat /\ Len(t) \in Nat
         /\ Len(s \o t) = Len(s) + Len(t)
         /\ \A k \in 1 .. Len(s) : (s \o t)[k] = s[k]
         /\ \A k \in 1 .. Len(t) : (s \o t)[Len(s) + k] = t[k]
OBVIOUS

\* The words of a packet by their number.
LEMMA PacketWords ==
  ASSUME NEW n \in 1 .. MaxResponses, planned[n] \in Response
  PROVE  LET h == WordCount(planned[n].headers_size)
             b == WordCount(planned[n].body_size)
             packet == Delivery!Packet(n)
         IN  /\ h \in Nat \ {0} /\ b \in Nat \ {0} /\ Len(packet) = h + 1 + b
             /\ \A k \in 1 .. h : packet[k] = Middle(WordAt(planned, "headers", <<n, k>>))
             /\ packet[h + 1] = Crlf
             /\ \A k \in 1 .. b : packet[h + 1 + k] = WordAt(planned, "body", <<n, k>>)
<1> DEFINE h == WordCount(planned[n].headers_size)
           b == WordCount(planned[n].body_size)
           headers == [k \in 1 .. h |-> Middle(WordAt(planned, "headers", <<n, k>>))]
           body    == [k \in 1 .. b |-> WordAt(planned, "body", <<n, k>>)]
           packet  == Delivery!Packet(n)
<1>1. planned[n].headers_size \in Nat \ {0} /\ planned[n].body_size \in Nat \ {0}
  BY ResponseDataAssumption DEF Response
<1>2. h \in Nat \ {0} /\ b \in Nat \ {0}
  BY <1>1, WordCountFacts
<1>3. Delivery!HeadersWords(n) = headers
  BY DEF Delivery!HeadersWords, Delivery!WordCount, Delivery!Middle, Delivery!WordOf,
         WordCount, Middle, WordOf, WordAt, Size
<1>4. Delivery!BodyWords(n) = body
  BY DEF Delivery!BodyWords, Delivery!WordCount, Delivery!WordOf, WordCount, WordOf, WordAt, Size
<1>5. packet = headers \o <<Crlf>> \o body
  BY <1>3, <1>4 DEF Delivery!Packet, Delivery!Crlf, Crlf
<1> DEFINE W(k) == Middle(WordAt(planned, "headers", <<n, k>>))
           V(k) == WordAt(planned, "body", <<n, k>>)
<1> HIDE DEF h, b, packet, W, V
<1>6. headers = [k \in 1 .. h |-> W(k)] /\ body = [k \in 1 .. b |-> V(k)]
  BY DEF W, V
<1> DEFINE Words == {W(k) : k \in 1 .. h} \cup {V(k) : k \in 1 .. b} \cup {Crlf}
<1>7. /\ headers \in Seq(Words) /\ Len(headers) = h /\ \A k \in 1 .. h : headers[k] = W(k)
      /\ body \in Seq(Words) /\ Len(body) = b /\ \A k \in 1 .. b : body[k] = V(k)
      /\ Crlf \in Words
  BY <1>2, <1>6
<1> HIDE DEF headers, body, Words
<1>8. /\ Len(packet) = h + 1 + b
      /\ \A k \in 1 .. h : packet[k] = W(k)
      /\ packet[h + 1] = Crlf
      /\ \A k \in 1 .. b : packet[h + 1 + k] = V(k)
  <2> DEFINE all == headers \o <<Crlf>> \o body
  <2>1. /\ Len(all) = Len(headers) + 1 + Len(body)
        /\ \A k \in 1 .. Len(headers) : all[k] = headers[k]
        /\ all[Len(headers) + 1] = Crlf
        /\ \A k \in 1 .. Len(body) : all[Len(headers) + 1 + k] = body[k]
    <3> DEFINE front == headers \o <<Crlf>>
    <3>1. /\ front \in Seq(Words) /\ Len(front) = Len(headers) + 1 /\ Len(headers) \in Nat
          /\ \A k \in 1 .. Len(headers) : front[k] = headers[k]
          /\ front[Len(headers) + 1] = Crlf
      BY <1>7
    <3> HIDE DEF front
    <3>2. /\ Len(front \o body) = Len(front) + Len(body)
          /\ \A k \in 1 .. Len(front) : (front \o body)[k] = front[k]
          /\ \A k \in 1 .. Len(body) : (front \o body)[Len(front) + k] = body[k]
      <4>1. front \in Seq(Words) /\ body \in Seq(Words)
        BY <1>7, <3>1
      <4> QED BY <4>1, ConcatFacts
    <3> QED BY <3>1, <3>2 DEF front
  <2> HIDE DEF all
  <2> QED BY <1>5, <1>7, <2>1 DEF all
<1> QED BY <1>2, <1>8 DEF h, b, packet, W, V

\* The planned responses have lengths that the field can hold; they are chosen
\* once.
PlannedFit ==
  \A n \in 1 .. MaxResponses :
    planned[n].body_size + planned[n].headers_size + 2 < LengthValues
LEMMA PlannedFitInit == ASSUME LengthsFit, Init PROVE PlannedFit
BY DEF LengthsFit, Init, PlannedFit
LEMMA PlannedFitStep == ASSUME PlannedFit, [Next]_vars PROVE PlannedFit'
<1>1. planned' = planned
  BY DEF Next, StateMachine, SmIdle, SmTcpReq, SmTcpRsp, SmDataHttpStatus, SmDataHeaders, SmDataCrlf,
         SmDataBody, SmFlushHeadline, SmFlushHeaders, SmFlushBody, StatusCodeParser, ScIdle,
         ScReadInput, ScWriteOutput, AlignerTake, AppResponse, AppHeaders, AppBody, TcpSettle,
         TcpRetry, Poll, outside, vars
<1> QED BY <1>1 DEF PlannedFit

\* The bytes of a packet, where the length field can hold their number, are
\* those announced for it.
LEMMA PacketLength ==
  ASSUME NEW n \in 1 .. MaxResponses, planned[n] \in Response, PlannedFit
  PROVE  Delivery!PacketBytes(n) = Announced(planned[n])
<1> DEFINE hsize == planned[n].headers_size
           bsize == planned[n].body_size
           h == WordCount(hsize)
           b == WordCount(bsize)
           hwords == Delivery!HeadersWords(n)
           bwords == Delivery!BodyWords(n)
<1>1. hsize \in Nat \ {0} /\ bsize \in Nat \ {0}
  BY ResponseDataAssumption DEF Response
<1>2. h \in Nat \ {0} /\ b \in Nat \ {0}
  BY <1>1, WordCountFacts
<1>3. /\ hwords = [k \in 1 .. h |-> Middle(WordOf(n, "headers", k, hsize))]
      /\ bwords = [k \in 1 .. b |-> WordOf(n, "body", k, bsize)]
  BY DEF Delivery!HeadersWords, Delivery!BodyWords, Delivery!WordCount, Delivery!Middle,
         Delivery!WordOf, WordCount, Middle, WordOf
<1>4. /\ Len(hwords) = h /\ hwords[h] = Middle(WordOf(n, "headers", h, hsize))
      /\ Len(bwords) = b /\ bwords[b] = WordOf(n, "body", b, bsize)
  <2> HIDE DEF h, b, hwords, bwords, hsize, bsize
  <2> QED BY <1>2, <1>3
<1>5. /\ hwords[h].bytes = hsize - (h - 1) * WordBytes
      /\ bwords[b].bytes = bsize - (b - 1) * WordBytes
  <2>1. ~(h < h) /\ ~(b < b)
    BY <1>2
  <2> QED BY <1>4, <2>1 DEF Middle, WordOf
<1>6. (h - 1) * WordBytes \in Nat /\ (b - 1) * WordBytes \in Nat
  BY <1>2, ResponseDataAssumption
<1>7. /\ Delivery!PartBytes(hwords) = (h - 1) * WordBytes + hwords[h].bytes
      /\ Delivery!PartBytes(bwords) = (b - 1) * WordBytes + bwords[b].bytes
  BY <1>4 DEF Delivery!PartBytes
<1>8. Delivery!PartBytes(hwords) = hsize /\ Delivery!PartBytes(bwords) = bsize
  <2> DEFINE x == (h - 1) * WordBytes
             y == (b - 1) * WordBytes
  <2>1. x \in Nat /\ y \in Nat
    BY <1>6
  <2>2. /\ Delivery!PartBytes(hwords) = x + (hsize - x)
        /\ Delivery!PartBytes(bwords) = y + (bsize - y)
    BY <1>5, <1>7
  <2> HIDE DEF x, y
  <2> QED BY <1>1, <2>1, <2>2
<1>9. Delivery!PacketBytes(n) = hsize + 2 + bsize
  BY <1>8 DEF Delivery!PacketBytes, Delivery!Crlf
<1>10. hsize + 2 + bsize = bsize + hsize + 2 /\ bsize + hsize + 2 \in 0 .. LengthValues - 1
  BY <1>1, ResponseDataAssumption DEF PlannedFit
<1> DEFINE sum == bsize + hsize + 2
<1>11. sum % LengthValues = sum
  <2> HIDE DEF sum
  <2>1. sum \in 0 .. LengthValues - 1
    BY <1>10 DEF sum
  <2> QED BY <2>1, ResponseDataAssumption
<1> QED BY <1>9, <1>10, <1>11 DEF Announced

\* The next word of a stream, by its place.
LEMMA NextOfPlace ==
  ASSUME NEW fifo \in Seq(Word), NEW end
  PROVE  NextOf(fifo, end) = PlaceAt(fifo, end, 1)[2]
<1>1. CASE fifo = <<>>
  BY <1>1 DEF NextOf, PlaceAt
<1>2. CASE fifo # <<>>
  <2>1. 1 <= Len(fifo) /\ Head(fifo) = fifo[1]
    BY <1>2
  <2> QED BY <1>2, <2>1 DEF NextOf, PlaceAt, Place
<1> QED BY <1>1, <1>2

stream == aligned \o tx_aligner

\* A word written to the aligner is the next one of the stream; one the aligner
\* takes does not change it.
LEMMA StreamAppend ==
  ASSUME AlignerOK, NEW word \in Word, tx_aligner' = Append(tx_aligner, word), aligned' = aligned
  PROVE  stream' = Append(stream, word)
BY DEF AlignerOK, IsFifo, stream
\* The aligner moves a word along the stream.
LEMMA StreamTake ==
  ASSUME AlignerOK, tx_aligner # <<>>, tx_aligner' = Tail(tx_aligner),
         aligned' = Append(aligned, Head(tx_aligner))
  PROVE  stream' = stream
BY DEF AlignerOK, IsFifo, stream

\* Steps that send no word and settle nothing are stutters.
LEMMA Stutters ==
  ASSUME planned' = planned, settled' = settled, stream' = stream, NextToSend' = NextToSend
  PROVE  [Delivery!DNext]_(Delivery!avars)
BY DEF Delivery!avars, stream

\* The next word to send, state by state.
CrlfNumber == WordCount(planned[current].headers_size) + 1
NextRule ==
  /\ sm.state = "TCP_RSP" => NextToSend = IF AcceptedUnread THEN 1 ELSE 0
  /\ sm.state = "DATA_HTTP_STATUS" => NextToSend = 1
  /\ sm.state = "DATA_HEADERS" => NextToSend = NextOf(http_response_headers, app.headers)
  /\ sm.state = "DATA_CRLF" => NextToSend = CrlfNumber
  /\ sm.state = "DATA_BODY" => NextToSend = CrlfNumber + NextOf(http_response_body, app.body)
  /\ sm.state \notin {"TCP_RSP", "DATA_HTTP_STATUS", "DATA_HEADERS", "DATA_CRLF", "DATA_BODY"} =>
       NextToSend = 0
\* The word to send next, by the state of state_machine, before a step ...
LEMMA NextCases == NextRule
BY DEF NextRule, NextToSend, CrlfNumber

\* ... and after it.
LEMMA NextCasesAfter == NextRule'
BY NextCases, PTL

\* Before the first word is sent, and as long as no packet is being sent.
LEMMA StepBeforeSending ==
  ASSUME IInv, SmIdle \/ SmTcpReq \/ SmTcpRsp
  PROVE  [Delivery!DNext]_(Delivery!avars)
<1>1. planned' = planned /\ settled' = settled /\ stream' = stream
  BY DEF SmIdle, SmTcpReq, SmTcpRsp, outside, innerFifos, stream
<1>2. NextToSend' = NextToSend
  <2>1. CASE SmIdle
    <3>1. sm.state = "IDLE" /\ sm'.state = "TCP_REQ"
      BY <2>1 DEF SmIdle
    <3> QED BY <3>1, NextCases, NextCasesAfter DEF NextRule
  <2>2. CASE SmTcpReq
    <3>1. sm.state = "TCP_REQ" /\ sm'.state = "TCP_RSP" /\ tcp_tx_rsp' = tcp_tx_rsp
      BY <2>2, InvFacts DEF SmTcpReq, SmOK
    <3>2. ~AcceptedUnread'
      BY <3>1, InvFacts DEF AcceptedUnread, OneRequestToSend, NoneAsked
    <3> QED BY <3>1, <3>2, NextCases, NextCasesAfter DEF NextRule
  <2>3. CASE SmTcpRsp
    <3> DEFINE error == Head(tcp_tx_rsp).error
    <3>1. /\ sm.state = "TCP_RSP" /\ tcp_tx_rsp # <<>> /\ sm'.state = AfterRsp(error)
      BY <2>3, InvFacts DEF SmTcpRsp, SmOK, CanRead
    <3>2. error \in 0 .. 3
      <4>1. Head(tcp_tx_rsp) \in TxAnswer
        BY <3>1, FifoTail, InvFacts, ResponseAssumption DEF TcpFifosOK, CanRead
      <4> QED BY <4>1 DEF TxAnswer
    <3>3. AcceptedUnread <=> error = 0
      BY <3>1 DEF AcceptedUnread
    <3> HIDE DEF error
    <3>4. sm'.state = IF error = 0 THEN "DATA_HTTP_STATUS" ELSE IF error = 1 THEN "FLUSH_HEADLINE" ELSE "TCP_REQ"
      BY <3>1, <3>2 DEF AfterRsp
    <3> QED BY <3>1, <3>2, <3>3, <3>4, NextCases, NextCasesAfter DEF NextRule
  <2> QED BY <2>1, <2>2, <2>3
<1> QED BY <1>1, <1>2, Stutters

\* Taking the status line leaves the first word of headers the next to send, or
\* nothing to send when the response is flushed.
LEMMA StepTakeStatusLine ==
  ASSUME IInv, SmDataHttpStatus \/ SmFlushHeadline
  PROVE  [Delivery!DNext]_(Delivery!avars)
<1>1. /\ planned' = planned /\ settled' = settled /\ stream' = stream
      /\ http_response_headers' = http_response_headers /\ app' = app
  BY DEF SmDataHttpStatus, SmFlushHeadline, outside, appFifos, stream
<1>2. CASE SmDataHttpStatus
  <2>1. sm.state = "DATA_HTTP_STATUS" /\ sm'.state = "DATA_HEADERS"
    BY <1>2, InvFacts DEF SmDataHttpStatus, SmOK
  <2>2. NextOf(http_response_headers, app.headers) = 1
    <3>1. PlaceAt(http_response_headers, app.headers, 1) = <<current, 1>>
      BY <2>1, InvFacts DEF HeadersFollow, HeadersNext, HeadersAhead
    <3> QED BY <3>1, NextOfPlace, InvFacts DEF AppFifosOK, IsFifo
  <2>3. NextToSend' = NextToSend
    BY <1>1, <2>1, <2>2, NextCases, NextCasesAfter DEF NextRule
  <2> QED BY <1>1, <2>3, Stutters
<1>3. CASE SmFlushHeadline
  <2>1. sm.state = "FLUSH_HEADLINE" /\ sm'.state = "FLUSH_HEADERS"
    BY <1>3, InvFacts DEF SmFlushHeadline, SmOK
  <2>2. NextToSend' = NextToSend
    BY <2>1, NextCases, NextCasesAfter DEF NextRule
  <2> QED BY <1>1, <2>2, Stutters
<1> QED BY <1>2, <1>3

\* Flushed words are not sent.
LEMMA StepFlush ==
  ASSUME IInv, SmFlushHeaders \/ SmFlushBody
  PROVE  [Delivery!DNext]_(Delivery!avars)
<1>1. planned' = planned /\ settled' = settled /\ stream' = stream
  BY DEF SmFlushHeaders, SmFlushBody, outside, innerFifos, stream
<1>2. /\ sm.state \in {"FLUSH_HEADERS", "FLUSH_BODY"}
      /\ sm'.state \in {"FLUSH_HEADERS", "FLUSH_BODY", "IDLE"}
  BY InvFacts DEF SmFlushHeaders, SmFlushBody, AfterFlushed, SmOK
<1>3. NextToSend' = NextToSend
  BY <1>2, NextCases, NextCasesAfter DEF NextRule
<1> QED BY <1>1, <1>3, Stutters

\* What has to be shown of a step that sends a word.
LEMMA SendsWord ==
  ASSUME IInv, NEW word \in Word, NextToSend # 0, Len(settled) = current,
         planned' = planned, settled' = settled, aligned' = aligned,
         tx_aligner' = Append(tx_aligner, word),
         word = Delivery!Packet(current)[NextToSend],
         NextToSend' = IF NextToSend = Len(Delivery!Packet(current)) THEN 0 ELSE NextToSend + 1
  PROVE  [Delivery!DNext]_(Delivery!avars)
<1>1. stream' = Append(stream, word)
  BY StreamAppend, InvFacts
<1>2. Delivery!SendWord
  BY <1>1 DEF Delivery!SendWord, stream
<1> QED BY <1>2 DEF Delivery!DNext

\* While a packet is being sent, its response has been settled.
LEMMA SendingSettled ==
  ASSUME IInv, sm.state \in {"DATA_HEADERS", "DATA_CRLF", "DATA_BODY"}
  PROVE  /\ Len(settled) = current /\ current \in 1 .. MaxResponses /\ planned[current] \in Response
BY InvFacts DEF OneRequestToSend, RegistersLoaded, PlannedOK

\* A word of headers ...
LEMMA StepDataHeaders == ASSUME IInv, SmDataHeaders PROVE [Delivery!DNext]_(Delivery!avars)
<1> DEFINE in    == Head(http_response_headers)
           first == PlaceAt(http_response_headers, app.headers, 1)
           h     == WordCount(planned[current].headers_size)
           b     == WordCount(planned[current].body_size)
           k     == first[2]
<1>1. /\ sm.state = "DATA_HEADERS" /\ CanRead(http_response_headers)
      /\ sm'.state = IF in.last THEN "DATA_CRLF" ELSE "DATA_HEADERS"
      /\ tx_aligner' = Append(tx_aligner, Middle(in))
      /\ http_response_headers' = Tail(http_response_headers)
      /\ planned' = planned /\ app' = app /\ settled' = settled /\ aligned' = aligned
      /\ http_response' = http_response
  BY InvFacts DEF SmDataHeaders, SmOK, outside
<1>2. /\ Len(settled) = current /\ current \in 1 .. MaxResponses /\ planned[current] \in Response
      /\ current' = current
  BY <1>1, SendingSettled DEF current
<1>3. http_response_headers \in Seq(Word) /\ http_response_headers # <<>>
  BY <1>1, InvFacts DEF AppFifosOK, IsFifo, CanRead
<1>4. /\ in \in Word /\ Tail(http_response_headers) \in Seq(Word)
      /\ Existing(planned, "headers", first) /\ in = WordAt(planned, "headers", first)
      /\ PlaceAt(Tail(http_response_headers), app.headers, 1) = After(planned, "headers", first)
  <2>1. Runs(planned, http_response_headers, "headers", app.headers)
    BY InvFacts DEF HeadersFollow
  <2> QED BY <1>3, <2>1, RunsTail, InvFacts DEF PlannedOK
<1>5. first = <<current, k>> /\ k \in 1 .. h
  BY <1>1, <1>4, InvFacts DEF HeadersFollow, HeadersNext, HeadersTaken, HeadersAhead, Existing, Size
<1>6. NextToSend = k /\ CrlfNumber = h + 1 /\ CrlfNumber' = h + 1
  BY <1>1, <1>2, <1>3, NextCases, NextOfPlace DEF NextRule, CrlfNumber
<1>7. /\ NextOf(http_response_headers', app'.headers) = After(planned, "headers", first)[2]
  BY <1>1, <1>4, NextOfPlace
<1>8. /\ h \in Nat \ {0} /\ b \in Nat \ {0} /\ Len(Delivery!Packet(current)) = h + 1 + b
      /\ Delivery!Packet(current)[k] = Middle(WordAt(planned, "headers", <<current, k>>))
  BY <1>2, <1>5, PacketWords
<1>9. in.last <=> k = h
  <2>1. in.last <=> k = WordCount(Size(planned, first[1], "headers"))
    BY <1>4, AfterWord
  <2>2. first[1] = current
    BY <1>5
  <2> QED BY <2>1, <2>2 DEF Size
<1>10. ~in.last => After(planned, "headers", first)[2] = k + 1
  BY <1>4, AfterWord
<1> HIDE DEF in, first, h, b, k
<1>11. NextToSend' = k + 1
  BY <1>1, <1>5, <1>6, <1>7, <1>9, <1>10, NextCasesAfter DEF NextRule
<1>12. Middle(in) \in Word
  BY <1>4 DEF Middle, Word
<1>13. k # 0 /\ k # h + 1 + b
  BY <1>5, <1>8
<1>14. Middle(in) = Delivery!Packet(current)[NextToSend]
  BY <1>4, <1>5, <1>6, <1>8
<1> QED BY <1>1, <1>2, <1>6, <1>8, <1>11, <1>12, <1>13, <1>14, SendsWord

\* ... the CR LF ...
LEMMA StepDataCrlf == ASSUME IInv, SmDataCrlf PROVE [Delivery!DNext]_(Delivery!avars)
<1> DEFINE h == WordCount(planned[current].headers_size)
           b == WordCount(planned[current].body_size)
<1>1. /\ sm.state = "DATA_CRLF" /\ sm'.state = "DATA_BODY"
      /\ tx_aligner' = Append(tx_aligner, Crlf)
      /\ http_response_body' = http_response_body /\ http_response' = http_response
      /\ planned' = planned /\ app' = app /\ settled' = settled /\ aligned' = aligned
  BY InvFacts DEF SmDataCrlf, SmOK, outside, appFifos
<1>2. /\ Len(settled) = current /\ current \in 1 .. MaxResponses /\ planned[current] \in Response
      /\ current' = current
  BY <1>1, SendingSettled DEF current
<1>3. NextToSend = h + 1 /\ CrlfNumber' = h + 1
  BY <1>1, <1>2, NextCases DEF NextRule, CrlfNumber
<1>4. NextOf(http_response_body', app'.body) = 1
  <2>1. PlaceAt(http_response_body, app.body, 1) = <<current, 1>>
    BY <1>1, InvFacts DEF BodyFollows, BodyNext
  <2>2. http_response_body \in Seq(Word)
    BY InvFacts DEF AppFifosOK, IsFifo
  <2> QED BY <1>1, <2>1, <2>2, NextOfPlace
<1>5. /\ h \in Nat \ {0} /\ b \in Nat \ {0} /\ Len(Delivery!Packet(current)) = h + 1 + b
      /\ Delivery!Packet(current)[h + 1] = Crlf
  BY <1>2, PacketWords
<1> HIDE DEF h, b
<1>6. NextToSend' = (h + 1) + 1
  BY <1>1, <1>3, <1>4, NextCasesAfter DEF NextRule
<1>7. Crlf \in Word
  BY DEF Crlf, Word, Parts
<1>8. h + 1 # 0 /\ h + 1 # h + 1 + b
  BY <1>5
<1> QED BY <1>1, <1>2, <1>3, <1>5, <1>6, <1>7, <1>8, SendsWord

\* ... or a word of body is the next of its packet.
LEMMA StepDataBody == ASSUME IInv, SmDataBody PROVE [Delivery!DNext]_(Delivery!avars)
<1> DEFINE in    == Head(http_response_body)
           first == PlaceAt(http_response_body, app.body, 1)
           h     == WordCount(planned[current].headers_size)
           b     == WordCount(planned[current].body_size)
           k     == first[2]
<1>1. /\ sm.state = "DATA_BODY" /\ CanRead(http_response_body)
      /\ sm'.state = IF in.last THEN "IDLE" ELSE "DATA_BODY"
      /\ tx_aligner' = Append(tx_aligner, in)
      /\ http_response_body' = Tail(http_response_body)
      /\ planned' = planned /\ app' = app /\ settled' = settled /\ aligned' = aligned
      /\ http_response' = http_response
  BY InvFacts DEF SmDataBody, SmOK, outside
<1>2. /\ Len(settled) = current /\ current \in 1 .. MaxResponses /\ planned[current] \in Response
      /\ current' = current
  BY <1>1, SendingSettled DEF current
<1>3. http_response_body \in Seq(Word) /\ http_response_body # <<>>
  BY <1>1, InvFacts DEF AppFifosOK, IsFifo, CanRead
<1>4. /\ in \in Word /\ Tail(http_response_body) \in Seq(Word)
      /\ Existing(planned, "body", first) /\ in = WordAt(planned, "body", first)
      /\ PlaceAt(Tail(http_response_body), app.body, 1) = After(planned, "body", first)
  <2>1. Runs(planned, http_response_body, "body", app.body)
    BY InvFacts DEF BodyFollows
  <2> QED BY <1>3, <2>1, RunsTail, InvFacts DEF PlannedOK
<1>5. first = <<current, k>> /\ k \in 1 .. b
  BY <1>1, <1>4, InvFacts DEF BodyFollows, BodyNext, Existing, Size
<1>6. NextToSend = h + 1 + k /\ CrlfNumber' = h + 1
  BY <1>1, <1>2, <1>3, NextCases, NextOfPlace DEF NextRule, CrlfNumber
<1>7. NextOf(http_response_body', app'.body) = After(planned, "body", first)[2]
  BY <1>1, <1>4, NextOfPlace
<1>8. /\ h \in Nat \ {0} /\ b \in Nat \ {0} /\ Len(Delivery!Packet(current)) = h + 1 + b
      /\ Delivery!Packet(current)[h + 1 + k] = WordAt(planned, "body", <<current, k>>)
  BY <1>2, <1>5, PacketWords
<1>9. in.last <=> k = b
  <2>1. in.last <=> k = WordCount(Size(planned, first[1], "body"))
    BY <1>4, AfterWord
  <2>2. first[1] = current
    BY <1>5
  <2> QED BY <2>1, <2>2 DEF Size
<1>10. ~in.last => After(planned, "body", first)[2] = k + 1
  BY <1>4, AfterWord
<1> HIDE DEF in, first, h, b, k
<1>11. NextToSend' = IF k = b THEN 0 ELSE h + 1 + (k + 1)
  BY <1>1, <1>6, <1>7, <1>9, <1>10, NextCasesAfter DEF NextRule
<1>12. /\ h + 1 + k # 0 /\ h + 1 + (k + 1) = h + 1 + k + 1
       /\ (k = b <=> h + 1 + k = h + 1 + b)
  BY <1>5, <1>8
<1>13. in = Delivery!Packet(current)[NextToSend]
  BY <1>4, <1>5, <1>6, <1>8
<1> QED BY <1>1, <1>2, <1>4, <1>6, <1>8, <1>11, <1>12, <1>13, SendsWord

\* What the rest of the path does is not seen, but for the answers of the TCP
\* stack that settle a response.
LEMMA StepBeside ==
  ASSUME IInv, StatusCodeParser \/ AlignerTake \/ UNCHANGED vars
  PROVE  [Delivery!DNext]_(Delivery!avars)
<1>1. /\ sm' = sm /\ planned' = planned /\ settled' = settled /\ app' = app
      /\ http_response' = http_response /\ http_response_headers' = http_response_headers
      /\ http_response_body' = http_response_body /\ tcp_tx_rsp' = tcp_tx_rsp
  BY DEF StatusCodeParser, ScIdle, ScReadInput, ScWriteOutput, AlignerTake, vars, outside,
         appFifos, tcpFifos
<1>2. stream' = stream
  <2>1. CASE AlignerTake
    BY <2>1, StreamTake, InvFacts DEF AlignerTake, CanRead
  <2>2. CASE ~AlignerTake
    BY <2>2 DEF StatusCodeParser, ScIdle, ScReadInput, ScWriteOutput, vars, outside, innerFifos, stream
  <2> QED BY <2>1, <2>2
<1>3. NextToSend' = NextToSend
  BY <1>1 DEF NextToSend, NextOf, AcceptedUnread, current
<1> QED BY <1>1, <1>2, <1>3, Stutters

\* What the application writes is not sent yet.
LEMMA StepApp ==
  ASSUME IInv, AppResponse \/ AppHeaders \/ AppBody
  PROVE  [Delivery!DNext]_(Delivery!avars)
<1>1. /\ sm' = sm /\ planned' = planned /\ settled' = settled /\ stream' = stream
      /\ tcp_tx_rsp' = tcp_tx_rsp
  BY DEF AppResponse, AppHeaders, AppBody, tcpFifos, innerFifos, stream
<1>2. current' = current
  <2>1. CASE AppResponse
    <3>1. /\ Len(http_response') = Len(http_response) + 1 /\ app'.responses = app.responses + 1
      BY <2>1, AppendFacts, InvFacts DEF AppResponse, AppOK, AppFifosOK, IsFifo
    <3> QED BY <3>1, InvFacts DEF current
  <2>2. CASE AppHeaders \/ AppBody
    BY <2>2, InvFacts DEF AppHeaders, AppBody, AppOK, current
  <2> QED BY <2>1, <2>2
<1>3. NextOf(http_response_headers', app'.headers) = NextOf(http_response_headers, app.headers)
  <2>1. CASE AppHeaders
    <3> DEFINE word == WordAt(planned, "headers", app.headers)
               past == After(planned, "headers", app.headers)
    <3>1. /\ app.headers[1] <= MaxResponses
          /\ http_response_headers' = Append(http_response_headers, word) /\ app'.headers = past
      BY <2>1, InvFacts DEF AppHeaders, AppOK, WordAt, After, Size
    <3>2. http_response_headers \in Seq(Word) /\ Runs(planned, http_response_headers, "headers", app.headers)
      BY InvFacts DEF AppFifosOK, IsFifo, HeadersFollow
    <3>3. /\ word \in Word
          /\ PlaceAt(Append(http_response_headers, word), past, 1)
               = PlaceAt(http_response_headers, app.headers, 1)
      BY <3>1, <3>2, RunsAppend, InvFacts DEF PlannedOK
    <3> HIDE DEF word, past
    <3>4. Append(http_response_headers, word) \in Seq(Word)
      BY <3>2, <3>3
    <3> QED BY <3>1, <3>2, <3>3, <3>4, NextOfPlace
  <2>2. CASE AppResponse \/ AppBody
    BY <2>2, InvFacts DEF AppResponse, AppBody, AppOK
  <2> QED BY <2>1, <2>2
<1>4. NextOf(http_response_body', app'.body) = NextOf(http_response_body, app.body)
  <2>1. CASE AppBody
    <3> DEFINE word == WordAt(planned, "body", app.body)
               past == After(planned, "body", app.body)
    <3>1. /\ app.body[1] <= MaxResponses
          /\ http_response_body' = Append(http_response_body, word) /\ app'.body = past
      BY <2>1, InvFacts DEF AppBody, AppOK, WordAt, After, Size
    <3>2. http_response_body \in Seq(Word) /\ Runs(planned, http_response_body, "body", app.body)
      BY InvFacts DEF AppFifosOK, IsFifo, BodyFollows
    <3>3. /\ word \in Word
          /\ PlaceAt(Append(http_response_body, word), past, 1) = PlaceAt(http_response_body, app.body, 1)
      BY <3>1, <3>2, RunsAppend, InvFacts DEF PlannedOK
    <3> HIDE DEF word, past
    <3>4. Append(http_response_body, word) \in Seq(Word)
      BY <3>2, <3>3
    <3> QED BY <3>1, <3>2, <3>3, <3>4, NextOfPlace
  <2>2. CASE AppResponse \/ AppHeaders
    BY <2>2, InvFacts DEF AppResponse, AppHeaders, AppOK
  <2> QED BY <2>1, <2>2
<1>5. NextToSend' = NextToSend
  <2>1. CrlfNumber' = CrlfNumber /\ AcceptedUnread' = AcceptedUnread
    BY <1>1, <1>2 DEF CrlfNumber, AcceptedUnread
  <2> QED BY <1>1, <1>3, <1>4, <2>1, NextCases, NextCasesAfter DEF NextRule
<1> QED BY <1>1, <1>5, Stutters

\* A response that is put off changes nothing that the abstract path sees ...
LEMMA StepTcpRetry == ASSUME IInv, TcpRetry PROVE [Delivery!DNext]_(Delivery!avars)
<1>1. PICK error \in {2, 3} :
        tcp_tx_rsp' = Append(tcp_tx_rsp, [sessionID |-> Head(tcp_tx_req).sessionID, error |-> error])
  BY DEF TcpRetry
<1>2. sm' = sm /\ planned' = planned /\ settled' = settled /\ stream' = stream /\ CanRead(tcp_tx_req)
  BY DEF TcpRetry, outside, innerFifos, stream
<1>3. sm.state = "TCP_RSP" /\ tcp_tx_rsp = <<>>
  BY <1>2, RequestAnswered
<1>4. tcp_tx_rsp' # <<>> /\ Head(tcp_tx_rsp').error = error
  BY <1>1, <1>3
<1>5. ~AcceptedUnread /\ ~AcceptedUnread'
  BY <1>3, <1>4 DEF AcceptedUnread
<1>6. NextToSend' = NextToSend
  BY <1>2, <1>3, <1>5, NextCases, NextCasesAfter DEF NextRule
<1> QED BY <1>2, <1>6, Stutters

\* ... and one that is settled is settled there, to be sent if it was accepted.
LEMMA StepTcpSettle == ASSUME IInv, PlannedFit, TcpSettle PROVE [Delivery!DNext]_(Delivery!avars)
<1> DEFINE req == Head(tcp_tx_req)
<1>1. PICK error \in {0, 1} :
        /\ tcp_tx_rsp' = Append(tcp_tx_rsp, [sessionID |-> req.sessionID, error |-> error])
        /\ settled' = Append(settled, [sessionID |-> req.sessionID, length |-> req.length,
                                       outcome |-> IF error = 0 THEN "accepted" ELSE "closed"])
  BY DEF TcpSettle
<1>2. /\ sm' = sm /\ planned' = planned /\ aligned' = aligned /\ tx_aligner' = tx_aligner
      /\ CanRead(tcp_tx_req)
  BY DEF TcpSettle, innerFifos
<1>3. /\ sm.state = "TCP_RSP" /\ Len(settled) = current - 1
      /\ current \in 1 .. MaxResponses /\ planned[current] \in Response
      /\ tcp_tx_rsp = <<>> /\ req = RequestFor(planned[current])
  BY <1>2, RequestAnswered
<1>4. tcp_tx_rsp' # <<>> /\ Head(tcp_tx_rsp').error = error
  BY <1>1, <1>3
<1>5. ~AcceptedUnread /\ (AcceptedUnread' <=> error = 0)
  BY <1>3, <1>4 DEF AcceptedUnread
<1>6. NextToSend = 0 /\ NextToSend' = IF error = 0 THEN 1 ELSE 0
  BY <1>2, <1>3, <1>5, NextCases, NextCasesAfter DEF NextRule
<1>7. Len(planned) = MaxResponses
  BY InvFacts, ResponseAssumption DEF PlannedOK
<1>8. Len(settled) + 1 = current /\ Len(settled) < Len(planned)
  BY <1>3, <1>7, ResponseAssumption
<1> DEFINE outcome == IF error = 0 THEN "accepted" ELSE "closed"
<1>9. /\ req.sessionID = planned[Len(settled) + 1].sessionID
      /\ req.length = Delivery!PacketBytes(Len(settled) + 1)
  BY <1>3, <1>8, PacketLength DEF RequestFor
<1>10. outcome \in {"accepted", "closed"} /\ (outcome = "accepted" <=> error = 0)
  OBVIOUS
<1>11. settled' = Append(settled, [sessionID |-> req.sessionID, length |-> req.length, outcome |-> outcome])
  BY <1>1
<1> HIDE DEF outcome, req
<1>12. Delivery!Settle
  BY <1>2, <1>6, <1>8, <1>9, <1>10, <1>11 DEF Delivery!Settle
<1> QED BY <1>12 DEF Delivery!DNext

\* Every step is one of ResponseDelivery or leaves what it sees alone.
LEMMA DeliveryStep == ASSUME IInv, PlannedFit, [Next]_vars PROVE [Delivery!DNext]_(Delivery!avars)
<1>1. ASSUME StateMachine PROVE [Delivery!DNext]_(Delivery!avars)
  BY <1>1, StepBeforeSending, StepTakeStatusLine, StepDataHeaders, StepDataCrlf, StepDataBody,
     StepFlush DEF StateMachine
<1> QED BY <1>1, StepBeside, StepApp, StepTcpRetry, StepTcpSettle DEF Next, Poll

\* The response path implements ResponseDelivery: each response is settled once,
\* with its own session and the length of its packet, and exactly the packets
\* of the accepted ones go to the aligner, whole and in order.  The hypothesis
\* is needed: a packet whose length does not fit in the field is announced cut.
THEOREM ImplementsDelivery == ASSUME LengthsFit PROVE Spec => RefinesDelivery
<1>1. Init => Delivery!DInit
  <2> SUFFICES ASSUME Init PROVE Delivery!DInit
    OBVIOUS
  <2>1. NextToSend = 0
    BY NextCases DEF NextRule, Init
  <2> QED BY <2>1 DEF Init, Delivery!DInit
<1>2. IInv /\ PlannedFit /\ [Next]_vars => [Delivery!DNext]_(Delivery!avars)
  BY DeliveryStep
<1>3. Init => PlannedFit
  BY PlannedFitInit
<1>4. PlannedFit /\ [Next]_vars => PlannedFit'
  BY PlannedFitStep
<1> QED BY <1>1, <1>2, <1>3, <1>4, IInvariant, PTL DEF Spec, RefinesDelivery, Delivery!DSpec
=============================================================================
