----------------------- MODULE RequestProcessorProofs -----------------------
(***************************************************************************)
(* Theorems about RequestProcessor, for every word size, every set of      *)
(* sessions, lengths and lines, every FIFO depth and any number of         *)
(* notifications.                                                          *)
(***************************************************************************)
EXTENDS RequestProcessor, FiniteSetTheorems, TLAPS

\* Registers that are about to be used have been written since the reset.
RegistersWritten ==
  /\ sm.state \in {"HANDSHAKE", "DATA_HEADLINE", "DATA_PAYLOAD"} =>
       sm.sessionID \in Sessions /\ sm.hasHeaders \in BOOLEAN /\ sm.hasBody \in BOOLEAN
  /\ hp.state # "INPUT_READ" =>
       hp.sessionID \in Sessions /\ hp.hasHeaders \in BOOLEAN /\ hp.hasBody \in BOOLEAN
  /\ hp.state \in {"EXTRACT_ENDPOINT", "OUTPUT_WRITE"} => hp.method \in HttpMethods
  /\ pp.state \in {"HEADER_WRITE", "BODY_WRITE"} => pp.line \in Beat

\* A transfer being delivered has been recorded.
TransferKnown ==
  rx_left > 0 => served # <<>> /\ rx_left <= BeatCount(served[Len(served)].length)

TypeInv == TypeOK /\ RegistersWritten /\ TransferKnown

\* The decoder always returns a member of HttpMethod.
LEMMA MethodParserType == ASSUME NEW line PROVE method_parser(line) \in HttpMethods
<1> DEFINE matching == {i \in 1 .. METHOD_COUNT : RowMatches(i, line)}
<1>1. \E v \in {0} \cup matching : \A i \in matching : i <= v
  <2> HIDE DEF RowMatches
  <2> QED BY SMT DEF METHOD_COUNT
<1> DEFINE value == CHOOSE v \in {0} \cup matching : \A i \in matching : i <= v
<1>2. value \in 0 .. 7
  BY <1>1 DEF METHOD_COUNT
<1> HIDE DEF value
<1>3. HttpMethod(value) \in HttpMethods
  BY <1>2 DEF HttpMethod, HttpMethods
<1> QED BY <1>3 DEF method_parser, value, matching

\* A transfer of at least one byte takes at least one beat.
LEMMA BeatCountPositive ==
  ASSUME NEW length \in Nat \ {0} PROVE BeatCount(length) \in Nat \ {0}
BY WordBytesAssumption, SMT DEF BeatCount
\* A beat of a transfer is a beat.
LEMMA BeatOfType ==
  ASSUME NEW m \in Transfer, NEW n \in Nat, NEW k \in Nat
  PROVE  BeatOf(m, n, k) \in Beat
<1>1. (IF k = 1 THEN m.line ELSE Blank) \in Texts
  BY DEF Texts, Transfer
<1> HIDE DEF Texts
<1> QED BY <1>1 DEF BeatOf, Beat, Data

-----------------------------------------------------------------------------
(***************************************************************************)
(* FIFOs                                                                   *)
(***************************************************************************)

\* A FIFO that has room takes one more element of its type ...
LEMMA FifoAppend ==
  ASSUME NEW S, NEW depth \in Nat, NEW fifo, NEW e \in S,
         IsFifo(fifo, S, depth), CanWrite(fifo, depth)
  PROVE  IsFifo(Append(fifo, e), S, depth)
BY DEF IsFifo, CanWrite

\* ... and loses its head.
LEMMA FifoTail ==
  ASSUME NEW S, NEW depth \in Nat, NEW fifo,
         IsFifo(fifo, S, depth), CanRead(fifo)
  PROVE  IsFifo(Tail(fifo), S, depth) /\ Head(fifo) \in S
BY DEF IsFifo, CanRead

\* What is left of a sequence ...
LEMMA TailFacts ==
  ASSUME NEW S, NEW s \in Seq(S), s # <<>>
  PROVE  /\ Len(s) \in Nat \ {0} /\ Head(s) = s[1]
         /\ Tail(s) \in Seq(S) /\ Len(Tail(s)) = Len(s) - 1
         /\ \A i \in 1 .. Len(s) - 1 : Tail(s)[i] = s[i + 1]
         /\ Len(s) = 1 => Tail(s) = <<>>
OBVIOUS

\* ... and what is added to one.
LEMMA AppendFacts ==
  ASSUME NEW S, NEW s \in Seq(S), NEW e
  PROVE  /\ Len(s) \in Nat /\ Len(Append(s, e)) = Len(s) + 1
         /\ \A i \in 1 .. Len(s) : Append(s, e)[i] = s[i]
         /\ Append(s, e)[Len(s) + 1] = e
OBVIOUS

\* The last element is the one just added.
LEMMA LastOfAppend ==
  ASSUME NEW S, NEW s \in Seq(S), NEW e \in S
  PROVE  Append(s, e) # <<>> /\ Append(s, e)[Len(Append(s, e))] = e
OBVIOUS

-----------------------------------------------------------------------------
(***************************************************************************)
(* Type correctness                                                        *)
(***************************************************************************)

\* Every FIFO is empty and every register has its type at the start.
LEMMA TypeInit == Init => TypeInv
<1> SUFFICES ASSUME Init PROVE TypeInv
  OBVIOUS
<1> USE DepthAssumption DEF Init, IsFifo
<1>1. TcpFifosOK /\ InFifosOK /\ AppFifosOK
  BY DEF TcpFifosOK, InFifosOK, AppFifosOK
<1>2. SmOK /\ HpOK /\ PpOK
  BY DEF SmOK, HpOK, PpOK
<1>3. EnvironmentOK
  BY DEF EnvironmentOK
<1>4. RegistersWritten /\ TransferKnown
  BY DEF RegistersWritten, TransferKnown
<1> QED BY <1>1, <1>2, <1>3, <1>4 DEF TypeInv, TypeOK

\* Every step keeps the types and the depths.
LEMMA TypeStep == TypeInv /\ [Next]_vars => TypeInv'
<1> SUFFICES ASSUME TypeInv, [Next]_vars PROVE TypeInv'
  OBVIOUS
<1> USE DepthAssumption DEF TypeInv, TypeOK
<1>1. CASE SmIdle
  <2> USE <1>1 DEF SmIdle
  <2>1. SmOK'
    BY DEF SmOK
  <2>2. RegistersWritten'
    BY DEF RegistersWritten, SmOK, tcpStack
  <2>3. TcpFifosOK' /\ InFifosOK' /\ AppFifosOK' /\ EnvironmentOK' /\ HpOK' /\ PpOK' /\ TransferKnown'
    BY DEF TcpFifosOK, InFifosOK, AppFifosOK, EnvironmentOK, HpOK, PpOK, TransferKnown, tcpFifos, inFifos, appFifos, tcpStack, tcpStack
  <2> QED BY <2>1, <2>2, <2>3
<1>2. CASE SmNotificationData
  <2> USE <1>2 DEF SmNotificationData
  <2>1. Head(tcp_notification) \in Notification
    BY FifoTail DEF TcpFifosOK
  <2>2. Head(tcp_notification) \in ReadRequest
    BY <2>1 DEF ReadRequest, Notification
  <2>3. TcpFifosOK'
    BY <2>2, FifoTail, FifoAppend DEF TcpFifosOK
  <2>4. SmOK'
    BY <2>2, WordBytesAssumption, LengthsAssumption DEF SmOK, ReadRequest, AnnouncesHeaders, AnnouncesBody
  <2>5. RegistersWritten'
    BY <2>2, WordBytesAssumption, LengthsAssumption DEF RegistersWritten, tcpStack, ReadRequest, AnnouncesHeaders, AnnouncesBody
  <2>6. InFifosOK' /\ AppFifosOK' /\ EnvironmentOK' /\ HpOK' /\ PpOK' /\ TransferKnown'
    BY DEF InFifosOK, AppFifosOK, EnvironmentOK, HpOK, PpOK, TransferKnown, inFifos, appFifos, tcpStack, tcpStack
  <2> QED BY <2>3, <2>4, <2>5, <2>6
<1>3. CASE SmNotificationEmpty
  <2> USE <1>3 DEF SmNotificationEmpty
  <2>1. TcpFifosOK'
    BY FifoTail DEF TcpFifosOK
  <2>2. SmOK'
    BY DEF SmOK
  <2>3. RegistersWritten'
    BY DEF RegistersWritten, SmOK, tcpStack
  <2>4. InFifosOK' /\ AppFifosOK' /\ EnvironmentOK' /\ HpOK' /\ PpOK' /\ TransferKnown'
    BY DEF InFifosOK, AppFifosOK, EnvironmentOK, HpOK, PpOK, TransferKnown, inFifos, appFifos, tcpStack, tcpStack
  <2> QED BY <2>1, <2>2, <2>3, <2>4
<1>4. CASE SmHandshake
  <2> USE <1>4 DEF SmHandshake
  <2>1. TcpFifosOK'
    BY FifoTail DEF TcpFifosOK
  <2>2. SmOK'
    BY DEF SmOK
  <2>3. RegistersWritten'
    BY DEF RegistersWritten, SmOK, tcpStack
  <2>4. InFifosOK' /\ AppFifosOK' /\ EnvironmentOK' /\ HpOK' /\ PpOK' /\ TransferKnown'
    BY DEF InFifosOK, AppFifosOK, EnvironmentOK, HpOK, PpOK, TransferKnown, inFifos, appFifos, tcpStack, tcpStack
  <2> QED BY <2>1, <2>2, <2>3, <2>4
<1>5. CASE SmDataHeadline
  <2> USE <1>5 DEF SmDataHeadline, AfterBeat
  <2>1. Head(tcp_rx_data) \in Beat /\ TcpFifosOK'
    BY FifoTail DEF TcpFifosOK
  <2>2. [line |-> Head(tcp_rx_data).data, sessionID |-> sm.sessionID,
         hasHeaders |-> sm.hasHeaders, hasBody |-> sm.hasBody] \in HeadlineIn
    BY <2>1 DEF HeadlineIn, Beat, RegistersWritten
  <2>3. InFifosOK'
    BY <2>2, FifoAppend DEF InFifosOK
  <2>4. SmOK'
    BY DEF SmOK
  <2>5. RegistersWritten'
    BY DEF RegistersWritten, SmOK, tcpStack
  <2>6. AppFifosOK' /\ EnvironmentOK' /\ HpOK' /\ PpOK' /\ TransferKnown'
    BY DEF AppFifosOK, EnvironmentOK, HpOK, PpOK, TransferKnown, appFifos, tcpStack, tcpStack
  <2> QED BY <2>1, <2>3, <2>4, <2>5, <2>6
<1>6. CASE SmDataPayload
  <2> USE <1>6 DEF SmDataPayload, AfterBeat
  <2>1. Head(tcp_rx_data) \in Beat /\ TcpFifosOK'
    BY FifoTail DEF TcpFifosOK
  <2>2. InFifosOK'
    BY <2>1, FifoAppend DEF InFifosOK
  <2>3. SmOK'
    BY DEF SmOK
  <2>4. RegistersWritten'
    BY DEF RegistersWritten, SmOK, tcpStack
  <2>5. AppFifosOK' /\ EnvironmentOK' /\ HpOK' /\ PpOK' /\ TransferKnown'
    BY DEF AppFifosOK, EnvironmentOK, HpOK, PpOK, TransferKnown, appFifos, tcpStack, tcpStack
  <2> QED BY <2>1, <2>2, <2>3, <2>4, <2>5
<1>7. CASE HpInputRead
  <2> USE <1>7 DEF HpInputRead, HeadlineLoaded
  <2>1. Head(headline_in) \in HeadlineIn /\ InFifosOK'
    BY FifoTail DEF InFifosOK
  <2>2. HpOK'
    BY <2>1 DEF HpOK, HeadlineIn
  <2>3. RegistersWritten'
    BY <2>1 DEF RegistersWritten, HpOK, HeadlineIn, tcpStack
  <2>4. TcpFifosOK' /\ AppFifosOK' /\ EnvironmentOK' /\ SmOK' /\ PpOK' /\ TransferKnown'
    BY DEF TcpFifosOK, AppFifosOK, EnvironmentOK, SmOK, PpOK, TransferKnown, tcpFifos, appFifos, tcpStack, tcpStack
  <2> QED BY <2>1, <2>2, <2>3, <2>4
<1>8. CASE HpParseMethod
  <2> USE <1>8 DEF HpParseMethod
  <2>1. HpOK'
    BY MethodParserType DEF HpOK
  <2>2. RegistersWritten'
    BY MethodParserType DEF RegistersWritten, HpOK, tcpStack
  <2>3. TcpFifosOK' /\ InFifosOK' /\ AppFifosOK' /\ EnvironmentOK' /\ SmOK' /\ PpOK' /\ TransferKnown'
    BY DEF TcpFifosOK, InFifosOK, AppFifosOK, EnvironmentOK, SmOK, PpOK, TransferKnown, tcpFifos, inFifos, appFifos, tcpStack, tcpStack
  <2> QED BY <2>1, <2>2, <2>3
<1>9. CASE HpExtractEndpoint
  <2> USE <1>9 DEF HpExtractEndpoint
  <2>1. HpOK'
    BY DEF HpOK
  <2>2. RegistersWritten'
    BY DEF RegistersWritten, HpOK, tcpStack
  <2>3. TcpFifosOK' /\ InFifosOK' /\ AppFifosOK' /\ EnvironmentOK' /\ SmOK' /\ PpOK' /\ TransferKnown'
    BY DEF TcpFifosOK, InFifosOK, AppFifosOK, EnvironmentOK, SmOK, PpOK, TransferKnown, tcpFifos, inFifos, appFifos, tcpStack, tcpStack
  <2> QED BY <2>1, <2>2, <2>3
<1>10. CASE HpOutputWrite
  <2> USE <1>10 DEF HpOutputWrite
  <2>1. [method |-> hp.method, sessionID |-> hp.sessionID,
         hasHeaders |-> hp.hasHeaders, hasBody |-> hp.hasBody] \in HeadlineOut
    BY DEF HeadlineOut, RegistersWritten
  <2>2. InFifosOK'
    BY <2>1, FifoAppend DEF InFifosOK
  <2>3. HpOK'
    BY DEF HpOK
  <2>4. RegistersWritten'
    BY DEF RegistersWritten, HpOK, tcpStack
  <2>5. TcpFifosOK' /\ AppFifosOK' /\ EnvironmentOK' /\ SmOK' /\ PpOK' /\ TransferKnown'
    BY DEF TcpFifosOK, AppFifosOK, EnvironmentOK, SmOK, PpOK, TransferKnown, tcpFifos, appFifos, tcpStack, tcpStack
  <2> QED BY <2>2, <2>3, <2>4, <2>5
<1>11. CASE RequestIssuer
  <2> USE <1>11 DEF RequestIssuer
  <2>1. Head(headline_out) \in HeadlineOut /\ InFifosOK'
    BY FifoTail DEF InFifosOK
  <2>2. [meta |-> [method |-> Head(headline_out).method, sessionID |-> Head(headline_out).sessionID],
         method |-> Head(headline_out).method, hasHeaders |-> Head(headline_out).hasHeaders,
         hasBody |-> Head(headline_out).hasBody] \in Request
    BY <2>1 DEF Request, HeadlineOut
  <2>3. AppFifosOK'
    BY <2>2, FifoAppend DEF AppFifosOK
  <2>4. RegistersWritten'
    BY DEF RegistersWritten, tcpStack
  <2>5. TcpFifosOK' /\ EnvironmentOK' /\ SmOK' /\ HpOK' /\ PpOK' /\ TransferKnown'
    BY DEF TcpFifosOK, EnvironmentOK, SmOK, HpOK, PpOK, TransferKnown, tcpFifos, tcpStack, tcpStack
  <2> QED BY <2>1, <2>3, <2>4, <2>5
<1>12. CASE PpHeaderRead
  <2> USE <1>12 DEF PpHeaderRead
  <2>1. Head(payload_in) \in Beat /\ InFifosOK'
    BY FifoTail DEF InFifosOK
  <2>2. PpOK'
    BY <2>1 DEF PpOK
  <2>3. RegistersWritten'
    BY <2>1 DEF RegistersWritten, PpOK, tcpStack
  <2>4. TcpFifosOK' /\ AppFifosOK' /\ EnvironmentOK' /\ SmOK' /\ HpOK' /\ TransferKnown'
    BY DEF TcpFifosOK, AppFifosOK, EnvironmentOK, SmOK, HpOK, TransferKnown, tcpFifos, appFifos, tcpStack, tcpStack
  <2> QED BY <2>1, <2>2, <2>3, <2>4
<1>13. CASE PpHeaderWrite
  <2> USE <1>13 DEF PpHeaderWrite, HeaderBeat
  <2>1. [pp.line EXCEPT !.last = TRUE] \in Beat
    BY DEF RegistersWritten, Beat
  <2>2. AppFifosOK'
    BY <2>1, FifoAppend DEF AppFifosOK
  <2>3. PpOK'
    BY <2>1 DEF PpOK
  <2>4. RegistersWritten'
    BY DEF RegistersWritten, PpOK, tcpStack
  <2>5. TcpFifosOK' /\ InFifosOK' /\ EnvironmentOK' /\ SmOK' /\ HpOK' /\ TransferKnown'
    BY DEF TcpFifosOK, InFifosOK, EnvironmentOK, SmOK, HpOK, TransferKnown, tcpFifos, inFifos, tcpStack, tcpStack
  <2> QED BY <2>2, <2>3, <2>4, <2>5
<1>14. CASE PpBodyRead
  <2> USE <1>14 DEF PpBodyRead
  <2>1. Head(payload_in) \in Beat /\ InFifosOK'
    BY FifoTail DEF InFifosOK
  <2>2. PpOK'
    BY <2>1 DEF PpOK
  <2>3. RegistersWritten'
    BY <2>1 DEF RegistersWritten, PpOK, tcpStack
  <2>4. TcpFifosOK' /\ AppFifosOK' /\ EnvironmentOK' /\ SmOK' /\ HpOK' /\ TransferKnown'
    BY DEF TcpFifosOK, AppFifosOK, EnvironmentOK, SmOK, HpOK, TransferKnown, tcpFifos, appFifos, tcpStack, tcpStack
  <2> QED BY <2>1, <2>2, <2>3, <2>4
<1>15. CASE PpBodyWrite
  <2> USE <1>15 DEF PpBodyWrite
  <2>1. AppFifosOK'
    BY FifoAppend DEF AppFifosOK, RegistersWritten
  <2>2. PpOK'
    BY DEF PpOK
  <2>3. RegistersWritten'
    BY DEF RegistersWritten, PpOK, tcpStack
  <2>4. TcpFifosOK' /\ InFifosOK' /\ EnvironmentOK' /\ SmOK' /\ HpOK' /\ TransferKnown'
    BY DEF TcpFifosOK, InFifosOK, EnvironmentOK, SmOK, HpOK, TransferKnown, tcpFifos, inFifos, tcpStack, tcpStack
  <2> QED BY <2>1, <2>2, <2>3, <2>4
<1>16. CASE TcpNotify
  <2> USE <1>16 DEF TcpNotify
  <2>1. PICK n \in Notification : notified' = Append(notified, n) /\ tcp_notification' = Append(tcp_notification, n)
    BY <1>16
  <2>2. TcpFifosOK'
    BY <2>1, FifoAppend DEF TcpFifosOK
  <2>3. EnvironmentOK'
    BY <2>1 DEF EnvironmentOK
  <2>4. RegistersWritten'
    BY DEF RegistersWritten
  <2>5. InFifosOK' /\ AppFifosOK' /\ SmOK' /\ HpOK' /\ PpOK' /\ TransferKnown'
    BY DEF InFifosOK, AppFifosOK, SmOK, HpOK, PpOK, TransferKnown, inFifos, appFifos, tcpStack
  <2> QED BY <2>2, <2>3, <2>4, <2>5
<1>17. CASE TcpAccept
  <2> USE <1>17 DEF TcpAccept
  <2>1. Head(tcp_rx_req) \in ReadRequest
    BY FifoTail DEF TcpFifosOK
  <2>2. Head(tcp_rx_req).length \in Nat \ {0}
    BY <2>1, LengthsAssumption DEF ReadRequest
  <2>3. TcpFifosOK'
    BY <2>2, FifoTail, FifoAppend DEF TcpFifosOK
  <2>4. PICK line \in Lines : served' = Append(served, [sessionID |-> Head(tcp_rx_req).sessionID,
         length |-> Head(tcp_rx_req).length, line |-> line])
    BY <1>17
  <2>5. [sessionID |-> Head(tcp_rx_req).sessionID,
         length |-> Head(tcp_rx_req).length, line |-> line] \in Transfer
    BY <2>1 DEF ReadRequest, Transfer
  <2>6. rx_left' \in Nat
    BY <2>2, BeatCountPositive
  <2>7. served \in Seq(Transfer)
    BY DEF EnvironmentOK
  <2>8. served' # <<>> /\ served'[Len(served')] = [sessionID |-> Head(tcp_rx_req).sessionID,
         length |-> Head(tcp_rx_req).length, line |-> line]
    BY <2>4, <2>5, <2>7, LastOfAppend
  <2>9. rx_left' = BeatCount(served'[Len(served')].length)
    BY <2>8
  <2>10. EnvironmentOK'
    BY <2>4, <2>5, <2>6 DEF EnvironmentOK
  <2>11. TransferKnown'
    BY <2>6, <2>8, <2>9 DEF TransferKnown
  <2>12. RegistersWritten'
    BY DEF RegistersWritten
  <2>13. InFifosOK' /\ AppFifosOK' /\ SmOK' /\ HpOK' /\ PpOK'
    BY DEF InFifosOK, AppFifosOK, SmOK, HpOK, PpOK, inFifos, appFifos
  <2> QED BY <2>3, <2>10, <2>11, <2>12, <2>13
<1>18. CASE TcpDeliver
  <2> USE <1>18 DEF TcpDeliver
  <2>1. served[Len(served)] \in Transfer /\ Len(served) \in Nat
    BY DEF EnvironmentOK, TransferKnown
  <2>2. served[Len(served)].length \in Nat \ {0}
    BY <2>1, LengthsAssumption DEF Transfer
  <2>3. BeatCount(served[Len(served)].length) \in Nat /\ rx_left \in Nat
        /\ rx_left <= BeatCount(served[Len(served)].length)
    BY <2>2, BeatCountPositive DEF TransferKnown, EnvironmentOK
  <2>4. BeatCount(served[Len(served)].length) - rx_left + 1 \in Nat
    BY <2>3
  <2>5. BeatOf(served[Len(served)], Len(served),
           BeatCount(served[Len(served)].length) - rx_left + 1) \in Beat
    BY <2>1, <2>4, BeatOfType
  <2>6. TcpFifosOK'
    BY <2>5, FifoAppend DEF TcpFifosOK
  <2>7. EnvironmentOK'
    BY DEF EnvironmentOK
  <2>8. TransferKnown'
    BY <2>3 DEF TransferKnown
  <2>9. RegistersWritten'
    BY DEF RegistersWritten
  <2>10. InFifosOK' /\ AppFifosOK' /\ SmOK' /\ HpOK' /\ PpOK'
    BY DEF InFifosOK, AppFifosOK, SmOK, HpOK, PpOK, inFifos, appFifos
  <2> QED BY <2>6, <2>7, <2>8, <2>9, <2>10
<1>19. CASE AppRequest
  <2> USE <1>19 DEF AppRequest
  <2>1. Head(http_request) \in Request /\ AppFifosOK'
    BY FifoTail DEF AppFifosOK
  <2>2. Append(app.requests, Head(http_request)) \in Seq(Request)
    BY <2>1 DEF EnvironmentOK
  <2>3. EnvironmentOK'
    BY <2>2 DEF EnvironmentOK, tcpStack
  <2>4. RegistersWritten'
    BY DEF RegistersWritten, tcpStack
  <2>5. TcpFifosOK' /\ InFifosOK' /\ SmOK' /\ HpOK' /\ PpOK' /\ TransferKnown'
    BY DEF TcpFifosOK, InFifosOK, SmOK, HpOK, PpOK, TransferKnown, tcpFifos, inFifos, tcpStack
  <2> QED BY <2>1, <2>3, <2>4, <2>5
<1>20. CASE AppHeaders
  <2> USE <1>20 DEF AppHeaders
  <2>1. Head(http_request_headers) \in Beat /\ AppFifosOK'
    BY FifoTail DEF AppFifosOK
  <2>2. Append(app.headers, Head(http_request_headers)) \in Seq(Beat)
    BY <2>1 DEF EnvironmentOK
  <2>3. EnvironmentOK'
    BY <2>2 DEF EnvironmentOK, tcpStack
  <2>4. RegistersWritten'
    BY DEF RegistersWritten, tcpStack
  <2>5. TcpFifosOK' /\ InFifosOK' /\ SmOK' /\ HpOK' /\ PpOK' /\ TransferKnown'
    BY DEF TcpFifosOK, InFifosOK, SmOK, HpOK, PpOK, TransferKnown, tcpFifos, inFifos, tcpStack
  <2> QED BY <2>1, <2>3, <2>4, <2>5
<1>21. CASE AppBody
  <2> USE <1>21 DEF AppBody
  <2>1. Head(http_request_body) \in Beat /\ AppFifosOK'
    BY FifoTail DEF AppFifosOK
  <2>2. Append(app.body, Head(http_request_body)) \in Seq(Beat)
    BY <2>1 DEF EnvironmentOK
  <2>3. EnvironmentOK'
    BY <2>2 DEF EnvironmentOK, tcpStack
  <2>4. RegistersWritten'
    BY DEF RegistersWritten, tcpStack
  <2>5. TcpFifosOK' /\ InFifosOK' /\ SmOK' /\ HpOK' /\ PpOK' /\ TransferKnown'
    BY DEF TcpFifosOK, InFifosOK, SmOK, HpOK, PpOK, TransferKnown, tcpFifos, inFifos, tcpStack
  <2> QED BY <2>1, <2>3, <2>4, <2>5
<1>22. CASE UNCHANGED vars
  <2> USE <1>22 DEF vars, tcpFifos, inFifos, appFifos, tcpStack
  <2>1. TcpFifosOK' /\ InFifosOK' /\ AppFifosOK' /\ EnvironmentOK'
    BY DEF TcpFifosOK, InFifosOK, AppFifosOK, EnvironmentOK
  <2>2. SmOK' /\ HpOK' /\ PpOK' /\ RegistersWritten' /\ TransferKnown'
    BY DEF SmOK, HpOK, PpOK, RegistersWritten, TransferKnown
  <2> QED BY <2>1, <2>2
<1> QED
  BY <1>1, <1>2, <1>3, <1>4, <1>5, <1>6, <1>7, <1>8, <1>9, <1>10, <1>11, <1>12, <1>13, <1>14, <1>15, <1>16, <1>17, <1>18, <1>19, <1>20, <1>21, <1>22
  DEF Next, StateMachine, HeadlineParser, PayloadParser, Poll

\* Every reachable state is of the declared types and no FIFO overflows.
THEOREM TypeCorrect == Spec => []TypeOK
<1>1. Init => TypeInv
  BY TypeInit
<1>2. TypeInv /\ [Next]_vars => TypeInv'
  BY TypeStep
<1>3. TypeInv => TypeOK
  BY DEF TypeInv
<1> QED BY <1>1, <1>2, <1>3, PTL DEF Spec
-----------------------------------------------------------------------------
(***************************************************************************)
(* Order of the requests                                                   *)
(***************************************************************************)

IInv == TypeInv /\ OneTransferAtATime /\ RequestPipeline

\* No transfer yet.
LEMMA OrderInit == Init => OneTransferAtATime /\ RequestPipeline
<1> SUFFICES ASSUME Init PROVE OneTransferAtATime /\ RequestPipeline
  OBVIOUS
<1> USE DEF Init
<1>1. OneTransferAtATime
  BY DEF OneTransferAtATime
<1>2. EveryTransferInOneStage
  BY DEF EveryTransferInOneStage, Awaited, queued, read, parsed, issued, taken
<1>3. RequestsTaken /\ RequestsIssued
  BY DEF RequestsTaken, RequestsIssued, taken
<1>4. HeadlinesOut /\ HeadlineHeld /\ HeadlinesIn
  BY DEF HeadlinesOut, HeadlineHeld, HeadlinesIn
<1>5. RequestAwaited /\ BeatsInFlight
  BY DEF RequestAwaited, BeatsInFlight, Awaited
<1> QED BY <1>1, <1>2, <1>3, <1>4, <1>5 DEF RequestPipeline

\* Steps outside the request pipeline and its TCP transfer leave it alone.
LEMMA OrderFrame ==
  ASSUME OneTransferAtATime, RequestPipeline,
         app'.requests = app.requests, http_request' = http_request,
         headline_out' = headline_out, hp' = hp, headline_in' = headline_in,
         sm' = sm, tcp_rx_req' = tcp_rx_req, tcp_rx_rsp' = tcp_rx_rsp,
         tcp_rx_data' = tcp_rx_data, rx_left' = rx_left, served' = served
  PROVE  OneTransferAtATime' /\ RequestPipeline'
<1>1. OneTransferAtATime'
  BY DEF OneTransferAtATime
<1>2. taken' = taken /\ issued' = issued /\ parsed' = parsed /\ read' = read /\ queued' = queued
  BY DEF queued, read, parsed, issued, taken
<1>3. Awaited' = Awaited
  BY DEF Awaited
<1>4. EveryTransferInOneStage' /\ RequestsTaken' /\ RequestsIssued'
  BY <1>2, <1>3 DEF RequestPipeline, EveryTransferInOneStage, RequestsTaken, RequestsIssued
<1>5. HeadlinesOut' /\ HeadlineHeld' /\ HeadlinesIn'
  BY <1>2 DEF RequestPipeline, HeadlinesOut, HeadlineHeld, HeadlinesIn, MetaOf
<1>6. RequestAwaited' /\ BeatsInFlight'
  BY <1>3 DEF RequestPipeline, RequestAwaited, BeatsInFlight, MetaOf
<1> QED BY <1>1, <1>4, <1>5, <1>6 DEF RequestPipeline

\* Steps that leave the request stages alone preserve what they hold.
LEMMA StagesFrame ==
  ASSUME RequestPipeline,
         app'.requests = app.requests, http_request' = http_request,
         headline_out' = headline_out, hp' = hp, headline_in' = headline_in,
         served' = served
  PROVE  /\ queued' = queued
         /\ RequestsTaken' /\ RequestsIssued' /\ HeadlinesOut' /\ HeadlineHeld' /\ HeadlinesIn'
<1>1. taken' = taken /\ issued' = issued /\ parsed' = parsed /\ read' = read /\ queued' = queued
  BY DEF queued, read, parsed, issued, taken
<1>2. RequestsTaken' /\ RequestsIssued'
  BY <1>1 DEF RequestPipeline, RequestsTaken, RequestsIssued
<1>3. HeadlinesOut' /\ HeadlineHeld' /\ HeadlinesIn'
  BY <1>1 DEF RequestPipeline, HeadlinesOut, HeadlineHeld, HeadlinesIn, MetaOf
<1> QED BY <1>1, <1>2, <1>3

\* The stages are counted in the order in which a transfer passes them.
LEMMA StageCounts ==
  ASSUME TypeOK
  PROVE  /\ taken \in Nat /\ issued \in Nat /\ parsed \in Nat /\ read \in Nat /\ queued \in Nat
         /\ Len(served) \in Nat
         /\ Len(http_request) \in Nat /\ Len(headline_out) \in Nat /\ Len(headline_in) \in Nat
<1> USE DEF TypeOK, IsFifo
<1>1. taken \in Nat
  BY DEF EnvironmentOK, taken
<1>2. Len(http_request) \in Nat /\ Len(headline_out) \in Nat /\ Len(headline_in) \in Nat
  BY DEF AppFifosOK, InFifosOK
<1>3. Len(served) \in Nat
  BY DEF EnvironmentOK
<1>4. issued \in Nat /\ parsed \in Nat
  BY <1>1, <1>2 DEF issued, parsed
<1>5. read \in Nat
  BY <1>4 DEF read
<1> QED BY <1>1, <1>2, <1>3, <1>4, <1>5 DEF queued

\* What is known of the latest transfer.
LEMMA LatestTransfer ==
  ASSUME EnvironmentOK, served # <<>>
  PROVE  /\ Len(served) \in Nat \ {0} /\ served[Len(served)] \in Transfer
         /\ served[Len(served)].length \in Nat \ {0}
         /\ BeatCount(served[Len(served)].length) \in Nat \ {0}
<1>1. Len(served) \in Nat \ {0} /\ served[Len(served)] \in Transfer
  BY DEF EnvironmentOK
<1>2. served[Len(served)].length \in Nat \ {0}
  BY <1>1, LengthsAssumption DEF Transfer
<1> QED BY <1>1, <1>2, BeatCountPositive

-----------------------------------------------------------------------------
(***************************************************************************)
(* Each step of state_machine and of the TCP stack preserves the pipeline. *)
(***************************************************************************)

OrderInv == OneTransferAtATime /\ RequestPipeline

\* The facts every step starts from.
LEMMA IInvFacts ==
  ASSUME IInv
  PROVE  /\ TypeOK /\ RegistersWritten /\ TransferKnown /\ OneTransferAtATime /\ RequestPipeline
         /\ TcpFifosOK /\ InFifosOK /\ AppFifosOK /\ SmOK /\ HpOK /\ EnvironmentOK
         /\ EveryTransferInOneStage /\ RequestsTaken /\ RequestsIssued /\ HeadlinesOut
         /\ HeadlineHeld /\ HeadlinesIn /\ RequestAwaited /\ BeatsInFlight
BY DEF IInv, TypeInv, TypeOK, RequestPipeline

LEMMA OrderSmIdle == ASSUME IInv, SmIdle PROVE OrderInv'
<1>1. sm.state = "IDLE" /\ sm'.state = "NOTIFICATION"
  BY IInvFacts DEF SmIdle, SmOK
<1>2. /\ tcp_rx_req' = tcp_rx_req /\ tcp_rx_rsp' = tcp_rx_rsp /\ tcp_rx_data' = tcp_rx_data
      /\ rx_left' = rx_left /\ served' = served
      /\ app'.requests = app.requests /\ http_request' = http_request /\ hp' = hp
      /\ headline_out' = headline_out /\ headline_in' = headline_in
  BY DEF SmIdle, tcpFifos, tcpStack, appFifos, inFifos
<1>3. tcp_rx_req = <<>> /\ tcp_rx_rsp = <<>> /\ tcp_rx_data = <<>> /\ rx_left = 0
  BY <1>1, IInvFacts DEF OneTransferAtATime
<1>4. OneTransferAtATime'
  BY <1>1, <1>2, <1>3 DEF OneTransferAtATime
<1>5. ~Awaited /\ ~Awaited'
  BY <1>1 DEF Awaited
<1>6. /\ queued' = queued
      /\ RequestsTaken' /\ RequestsIssued' /\ HeadlinesOut' /\ HeadlineHeld' /\ HeadlinesIn'
  BY <1>2, StagesFrame, IInvFacts
<1>7. EveryTransferInOneStage'
  BY <1>2, <1>5, <1>6, IInvFacts DEF EveryTransferInOneStage
<1>8. RequestAwaited' /\ BeatsInFlight'
  BY <1>1, <1>2, <1>3, <1>5 DEF RequestAwaited, BeatsInFlight
<1> QED BY <1>4, <1>6, <1>7, <1>8 DEF OrderInv, RequestPipeline

LEMMA OrderSmNotificationEmpty == ASSUME IInv, SmNotificationEmpty PROVE OrderInv'
<1>1. sm.state = "NOTIFICATION" /\ sm'.state = "IDLE"
  BY IInvFacts DEF SmNotificationEmpty, SmOK
<1>2. /\ tcp_rx_req' = tcp_rx_req /\ tcp_rx_rsp' = tcp_rx_rsp /\ tcp_rx_data' = tcp_rx_data
      /\ rx_left' = rx_left /\ served' = served
      /\ app'.requests = app.requests /\ http_request' = http_request /\ hp' = hp
      /\ headline_out' = headline_out /\ headline_in' = headline_in
  BY DEF SmNotificationEmpty, tcpStack, appFifos, inFifos
<1>3. tcp_rx_req = <<>> /\ tcp_rx_rsp = <<>> /\ tcp_rx_data = <<>> /\ rx_left = 0
  BY <1>1, IInvFacts DEF OneTransferAtATime
<1>4. OneTransferAtATime'
  BY <1>1, <1>2, <1>3 DEF OneTransferAtATime
<1>5. ~Awaited /\ ~Awaited'
  BY <1>1 DEF Awaited
<1>6. /\ queued' = queued
      /\ RequestsTaken' /\ RequestsIssued' /\ HeadlinesOut' /\ HeadlineHeld' /\ HeadlinesIn'
  BY <1>2, StagesFrame, IInvFacts
<1>7. EveryTransferInOneStage'
  BY <1>2, <1>5, <1>6, IInvFacts DEF EveryTransferInOneStage
<1>8. RequestAwaited' /\ BeatsInFlight'
  BY <1>1, <1>2, <1>3, <1>5 DEF RequestAwaited, BeatsInFlight
<1> QED BY <1>4, <1>6, <1>7, <1>8 DEF OrderInv, RequestPipeline

LEMMA OrderSmNotificationData == ASSUME IInv, SmNotificationData PROVE OrderInv'
<1>1. /\ sm.state = "NOTIFICATION" /\ sm'.state = "HANDSHAKE"
      /\ tcp_rx_req' = Append(tcp_rx_req, Head(tcp_notification))
      /\ MetaOf(sm', Head(tcp_notification))
  BY DEF SmNotificationData, MetaOf
<1>2. /\ tcp_rx_rsp' = tcp_rx_rsp /\ tcp_rx_data' = tcp_rx_data
      /\ rx_left' = rx_left /\ served' = served
      /\ app'.requests = app.requests /\ http_request' = http_request /\ hp' = hp
      /\ headline_out' = headline_out /\ headline_in' = headline_in
  BY DEF SmNotificationData, tcpStack, appFifos, inFifos
<1>3. tcp_rx_req = <<>> /\ tcp_rx_rsp = <<>> /\ tcp_rx_data = <<>> /\ rx_left = 0
  BY <1>1, IInvFacts DEF OneTransferAtATime
<1>4. tcp_rx_req' = <<Head(tcp_notification)>>
  BY <1>1, <1>3
<1>5. OneTransferAtATime'
  BY <1>1, <1>2, <1>3, <1>4 DEF OneTransferAtATime
<1>6. ~Awaited /\ ~Awaited'
  BY <1>1, <1>2, <1>3 DEF Awaited
<1>7. /\ queued' = queued
      /\ RequestsTaken' /\ RequestsIssued' /\ HeadlinesOut' /\ HeadlineHeld' /\ HeadlinesIn'
  BY <1>2, StagesFrame, IInvFacts
<1>8. EveryTransferInOneStage'
  BY <1>2, <1>6, <1>7, IInvFacts DEF EveryTransferInOneStage
<1>9. RequestAwaited'
  BY <1>1, <1>4, <1>6 DEF RequestAwaited, MetaOf
<1>10. BeatsInFlight'
  BY <1>1, <1>2, <1>3, <1>6 DEF BeatsInFlight
<1> QED BY <1>5, <1>7, <1>8, <1>9, <1>10 DEF OrderInv, RequestPipeline

LEMMA OrderSmHandshake == ASSUME IInv, SmHandshake PROVE OrderInv'
<1>1. /\ sm.state = "HANDSHAKE" /\ sm'.state = "DATA_HEADLINE"
      /\ sm'.sessionID = sm.sessionID
      /\ sm'.hasHeaders = sm.hasHeaders /\ sm'.hasBody = sm.hasBody
      /\ tcp_rx_rsp # <<>> /\ tcp_rx_rsp' = Tail(tcp_rx_rsp)
  BY IInvFacts DEF SmHandshake, SmOK, CanRead
<1>2. /\ tcp_rx_req' = tcp_rx_req /\ tcp_rx_data' = tcp_rx_data
      /\ rx_left' = rx_left /\ served' = served
      /\ app'.requests = app.requests /\ http_request' = http_request /\ hp' = hp
      /\ headline_out' = headline_out /\ headline_in' = headline_in
  BY DEF SmHandshake, tcpStack, appFifos, inFifos
<1>3. Awaited /\ Awaited'
  BY <1>1 DEF Awaited
<1>4. tcp_rx_req = <<>> /\ Len(tcp_rx_rsp) = 1
  BY <1>1, IInvFacts DEF OneTransferAtATime
<1>5. tcp_rx_rsp' = <<>>
  BY <1>1, <1>4, TailFacts, IInvFacts DEF TcpFifosOK, IsFifo
<1>6. served # <<>>
  BY <1>3, StageCounts, IInvFacts DEF EveryTransferInOneStage
<1>7. Len(tcp_rx_data) + rx_left > 0
  BY <1>3, <1>6, LatestTransfer, IInvFacts DEF BeatsInFlight
<1>8. OneTransferAtATime'
  BY <1>1, <1>2, <1>4, <1>5, <1>7, IInvFacts DEF OneTransferAtATime
<1>9. /\ queued' = queued
      /\ RequestsTaken' /\ RequestsIssued' /\ HeadlinesOut' /\ HeadlineHeld' /\ HeadlinesIn'
  BY <1>2, StagesFrame, IInvFacts
<1>10. EveryTransferInOneStage'
  BY <1>2, <1>3, <1>9, IInvFacts DEF EveryTransferInOneStage
<1>11. RequestAwaited'
  BY <1>1, <1>2, <1>3, IInvFacts DEF RequestAwaited, MetaOf
<1>12. BeatsInFlight'
  BY <1>1, <1>2, <1>3, IInvFacts DEF BeatsInFlight
<1> QED BY <1>8, <1>9, <1>10, <1>11, <1>12 DEF OrderInv, RequestPipeline

\* The beat state_machine reads is the next one of the latest transfer, and the
\* last one exactly when no other is on its way.
LEMMA NextBeat ==
  ASSUME TcpFifosOK, EnvironmentOK, BeatsInFlight, tcp_rx_data # <<>>, served # <<>>
  PROVE  LET m == served[Len(served)]
             raw == Head(tcp_rx_data)
         IN /\ Len(tcp_rx_data) \in Nat \ {0} /\ rx_left \in Nat
            /\ raw = BeatOf(m, Len(served),
                            BeatCount(m.length) - rx_left - Len(tcp_rx_data) + 1)
            /\ raw.last <=> Len(tcp_rx_data) + rx_left = 1
<1> DEFINE m == served[Len(served)]
           k == BeatCount(m.length) - rx_left - Len(tcp_rx_data) + 1
<1>1. /\ Len(tcp_rx_data) \in Nat \ {0} /\ Head(tcp_rx_data) = tcp_rx_data[1]
  BY TailFacts DEF TcpFifosOK, IsFifo
<1>2. rx_left \in Nat
  BY DEF EnvironmentOK
<1>3. Head(tcp_rx_data) = BeatOf(m, Len(served), k)
  BY <1>1 DEF BeatsInFlight
<1>4. BeatOf(m, Len(served), k).last <=> k = BeatCount(m.length)
  BY DEF BeatOf
<1>5. BeatCount(m.length) \in Nat
  BY LatestTransfer
<1>6. k = BeatCount(m.length) <=> Len(tcp_rx_data) + rx_left = 1
  <2> HIDE DEF m
  <2> QED BY <1>1, <1>2, <1>5
<1> QED BY <1>1, <1>2, <1>3, <1>4, <1>6

\* Taking a beat keeps the transfer's state as the state machine leaves it.
LEMMA BeatTaken ==
  ASSUME IInv, served # <<>>, tcp_rx_data # <<>>,
         sm.state \in {"DATA_HEADLINE", "DATA_PAYLOAD"},
         sm'.state = (IF Head(tcp_rx_data).last THEN "IDLE" ELSE "DATA_PAYLOAD"),
         tcp_rx_data' = Tail(tcp_rx_data), tcp_rx_req' = tcp_rx_req,
         tcp_rx_rsp' = tcp_rx_rsp, rx_left' = rx_left, served' = served
  PROVE  OneTransferAtATime' /\ RequestAwaited' /\ BeatsInFlight'
<1>1. tcp_rx_req = <<>> /\ tcp_rx_rsp = <<>>
  BY IInvFacts DEF OneTransferAtATime
<1>2. /\ Len(tcp_rx_data) \in Nat \ {0} /\ rx_left \in Nat
      /\ Head(tcp_rx_data).last <=> Len(tcp_rx_data) + rx_left = 1
  BY NextBeat, IInvFacts
<1>3. /\ Len(tcp_rx_data') = Len(tcp_rx_data) - 1
      /\ \A i \in 1 .. Len(tcp_rx_data) - 1 : tcp_rx_data'[i] = tcp_rx_data[i + 1]
      /\ Len(tcp_rx_data) = 1 => tcp_rx_data' = <<>>
  BY TailFacts, IInvFacts DEF TcpFifosOK, IsFifo
<1>4. \A i \in 1 .. Len(tcp_rx_data') : tcp_rx_data'[i].data.req = Len(served)
  BY <1>2, <1>3, IInvFacts DEF OneTransferAtATime
<1>5. OneTransferAtATime'
  <2>1. CASE Head(tcp_rx_data).last
    <3>1. tcp_rx_data' = <<>> /\ rx_left = 0
      BY <1>2, <1>3, <2>1
    <3>2. sm'.state = "IDLE"
      BY <2>1
    <3> QED BY <1>1, <1>4, <3>1, <3>2 DEF OneTransferAtATime
  <2>2. CASE ~Head(tcp_rx_data).last
    <3>1. Len(tcp_rx_data') + rx_left > 0
      BY <1>2, <1>3, <2>2
    <3>2. sm'.state = "DATA_PAYLOAD"
      BY <2>2
    <3> QED BY <1>1, <1>4, <3>1, <3>2 DEF OneTransferAtATime
  <2> QED BY <2>1, <2>2
<1>6. sm'.state \in {"IDLE", "DATA_PAYLOAD"} /\ ~Awaited'
  BY DEF Awaited
<1>7. RequestAwaited'
  BY <1>6 DEF RequestAwaited
<1>8. BeatsInFlight'
  <2> DEFINE m == served[Len(served)]
             Pos(i) == BeatCount(m.length) - rx_left - Len(tcp_rx_data') + i
  <2> SUFFICES ASSUME NEW i \in 1 .. Len(tcp_rx_data')
               PROVE  tcp_rx_data'[i] = BeatOf(m, Len(served), Pos(i))
    BY <1>6 DEF BeatsInFlight
  <2>1. /\ i + 1 \in 1 .. Len(tcp_rx_data) /\ tcp_rx_data'[i] = tcp_rx_data[i + 1]
    BY <1>2, <1>3
  <2>2. tcp_rx_data[i + 1] =
          BeatOf(m, Len(served), BeatCount(m.length) - rx_left - Len(tcp_rx_data) + (i + 1))
    BY <2>1, IInvFacts DEF BeatsInFlight
  <2>3. BeatCount(m.length) \in Nat
    BY LatestTransfer, IInvFacts
  <2>4. BeatCount(m.length) - rx_left - Len(tcp_rx_data) + (i + 1) = Pos(i)
    <3> DEFINE b == BeatCount(m.length)
    <3>1. /\ i \in Nat /\ Len(tcp_rx_data') = Len(tcp_rx_data) - 1
          /\ Len(tcp_rx_data) \in Nat /\ rx_left \in Nat
      BY <1>2, <1>3
    <3>2. b \in Nat
      BY <2>3
    <3> HIDE DEF b
    <3>3. b - rx_left - Len(tcp_rx_data) + (i + 1) = b - rx_left - Len(tcp_rx_data') + i
      BY <3>1, <3>2
    <3> QED BY <3>3 DEF b
  <2> QED BY <2>1, <2>2, <2>4
<1> QED BY <1>5, <1>7, <1>8

LEMMA OrderSmDataPayload == ASSUME IInv, SmDataPayload PROVE OrderInv'
<1>1. /\ sm.state = "DATA_PAYLOAD" /\ tcp_rx_data # <<>>
      /\ sm'.state = (IF Head(tcp_rx_data).last THEN "IDLE" ELSE "DATA_PAYLOAD")
      /\ tcp_rx_data' = Tail(tcp_rx_data)
  BY IInvFacts DEF SmDataPayload, AfterBeat, SmOK, CanRead
<1>2. /\ tcp_rx_req' = tcp_rx_req /\ tcp_rx_rsp' = tcp_rx_rsp
      /\ rx_left' = rx_left /\ served' = served
      /\ app'.requests = app.requests /\ http_request' = http_request /\ hp' = hp
      /\ headline_out' = headline_out /\ headline_in' = headline_in
  BY DEF SmDataPayload, AfterBeat, tcpStack, appFifos
<1>3. served # <<>>
  BY <1>1, IInvFacts DEF BeatsInFlight
<1>4. OneTransferAtATime' /\ RequestAwaited' /\ BeatsInFlight'
  BY <1>1, <1>2, <1>3, BeatTaken
<1>5. ~Awaited /\ ~Awaited'
  BY <1>1 DEF Awaited
<1>6. /\ queued' = queued
      /\ RequestsTaken' /\ RequestsIssued' /\ HeadlinesOut' /\ HeadlineHeld' /\ HeadlinesIn'
  BY <1>2, StagesFrame, IInvFacts
<1>7. EveryTransferInOneStage'
  BY <1>2, <1>5, <1>6, IInvFacts DEF EveryTransferInOneStage
<1> QED BY <1>4, <1>6, <1>7 DEF OrderInv, RequestPipeline

LEMMA OrderSmDataHeadline == ASSUME IInv, SmDataHeadline PROVE OrderInv'
<1> DEFINE raw == Head(tcp_rx_data)
           m   == served[Len(served)]
           pkt == [line |-> raw.data, sessionID |-> sm.sessionID,
                   hasHeaders |-> sm.hasHeaders, hasBody |-> sm.hasBody]
<1>1. /\ sm.state = "DATA_HEADLINE" /\ tcp_rx_data # <<>>
      /\ sm'.state = (IF raw.last THEN "IDLE" ELSE "DATA_PAYLOAD")
      /\ tcp_rx_data' = Tail(tcp_rx_data)
      /\ headline_in' = Append(headline_in, pkt)
  BY IInvFacts DEF SmDataHeadline, AfterBeat, SmOK, CanRead
<1>2. /\ tcp_rx_req' = tcp_rx_req /\ tcp_rx_rsp' = tcp_rx_rsp
      /\ rx_left' = rx_left /\ served' = served
      /\ app'.requests = app.requests /\ http_request' = http_request /\ hp' = hp
      /\ headline_out' = headline_out
  BY DEF SmDataHeadline, AfterBeat, tcpStack, appFifos
<1>3. Awaited /\ ~Awaited'
  BY <1>1 DEF Awaited
<1>4. /\ Len(served) = queued + 1 /\ queued \in Nat /\ read \in Nat
      /\ Len(headline_in) \in Nat
  BY <1>3, StageCounts, IInvFacts DEF EveryTransferInOneStage
<1>5. served # <<>>
  BY <1>4
<1>6. OneTransferAtATime' /\ RequestAwaited' /\ BeatsInFlight'
  BY <1>1, <1>2, <1>5, BeatTaken
<1>7. raw = BeatOf(m, Len(served), 1)
  <2>1. /\ Len(tcp_rx_data) \in Nat \ {0} /\ rx_left \in Nat
        /\ raw = BeatOf(m, Len(served), BeatCount(m.length) - rx_left - Len(tcp_rx_data) + 1)
    BY <1>1, <1>5, NextBeat, IInvFacts
  <2>2. BeatCount(m.length) = Len(tcp_rx_data) + rx_left
    BY <1>3, IInvFacts DEF BeatsInFlight
  <2>3. BeatCount(m.length) - rx_left - Len(tcp_rx_data) + 1 = 1
    <3> HIDE DEF m
    <3> QED BY <2>1, <2>2
  <2> QED BY <2>1, <2>3
<1>8. raw.data.text = m.line
  BY <1>7 DEF BeatOf
<1>9. taken' = taken /\ issued' = issued /\ parsed' = parsed /\ read' = read
  BY <1>2 DEF taken, issued, parsed, read
<1>10. /\ Len(headline_in') = Len(headline_in) + 1
       /\ \A i \in 1 .. Len(headline_in) : headline_in'[i] = headline_in[i]
       /\ headline_in'[Len(headline_in) + 1] = pkt
  BY <1>1, AppendFacts, IInvFacts DEF InFifosOK, IsFifo
<1>11. EveryTransferInOneStage'
  BY <1>2, <1>3, <1>4, <1>9, <1>10 DEF EveryTransferInOneStage, queued
<1>12. RequestsTaken' /\ RequestsIssued'
  BY <1>2, <1>9, IInvFacts DEF RequestsTaken, RequestsIssued
<1>13. HeadlinesOut' /\ HeadlineHeld'
  BY <1>2, <1>9, IInvFacts DEF HeadlinesOut, HeadlineHeld, MetaOf
<1>14. HeadlinesIn'
  <2> SUFFICES ASSUME NEW i \in 1 .. Len(headline_in) + 1
               PROVE  /\ MetaOf(headline_in'[i], served[read + i])
                      /\ headline_in'[i].line.text = served[read + i].line
    BY <1>2, <1>9, <1>10 DEF HeadlinesIn, MetaOf
  <2>1. CASE i \in 1 .. Len(headline_in)
    BY <1>10, <2>1, IInvFacts DEF HeadlinesIn
  <2>2. CASE i = Len(headline_in) + 1
    <3>1. served[read + i] = m
      BY <1>4, <2>2 DEF queued
    <3>2. MetaOf(sm, m)
      BY <1>3, IInvFacts DEF RequestAwaited
    <3>3. headline_in'[i] = pkt
      BY <1>10, <2>2
    <3> QED BY <1>8, <3>1, <3>2, <3>3 DEF MetaOf
  <2> QED BY <1>4, <2>1, <2>2
<1> QED BY <1>6, <1>11, <1>12, <1>13, <1>14 DEF OrderInv, RequestPipeline

LEMMA OrderTcpAccept == ASSUME IInv, TcpAccept PROVE OrderInv'
<1> DEFINE req == Head(tcp_rx_req)
<1>1. /\ rx_left = 0 /\ tcp_rx_req # <<>>
      /\ rx_left' = BeatCount(req.length)
      /\ tcp_rx_rsp' = Append(tcp_rx_rsp, req.length) /\ tcp_rx_req' = Tail(tcp_rx_req)
  BY DEF TcpAccept, CanRead
<1>2. PICK line \in Lines :
        served' = Append(served, [sessionID |-> req.sessionID, length |-> req.length, line |-> line])
  BY DEF TcpAccept
<1>3. /\ tcp_rx_data' = tcp_rx_data /\ sm' = sm
      /\ app'.requests = app.requests /\ http_request' = http_request /\ hp' = hp
      /\ headline_out' = headline_out /\ headline_in' = headline_in
  BY DEF TcpAccept, appFifos, inFifos
<1>4. /\ sm.state = "HANDSHAKE" /\ Len(tcp_rx_req) = 1
      /\ tcp_rx_rsp = <<>> /\ tcp_rx_data = <<>>
  BY <1>1, IInvFacts DEF OneTransferAtATime, SmOK
<1>5. tcp_rx_req' = <<>> /\ req = tcp_rx_req[1]
  BY <1>1, <1>4, TailFacts, IInvFacts DEF TcpFifosOK, IsFifo
<1>6. Len(tcp_rx_rsp') = 1 /\ tcp_rx_rsp' # <<>>
  BY <1>1, <1>4
<1>7. OneTransferAtATime'
  BY <1>3, <1>4, <1>5, <1>6 DEF OneTransferAtATime
<1>8. ~Awaited /\ Awaited'
  BY <1>3, <1>4, <1>6 DEF Awaited
<1>9. /\ Len(served) \in Nat /\ Len(served') = Len(served) + 1
      /\ \A i \in 1 .. Len(served) : served'[i] = served[i]
      /\ served'[Len(served) + 1] =
           [sessionID |-> req.sessionID, length |-> req.length, line |-> line]
  BY <1>2, AppendFacts, IInvFacts DEF EnvironmentOK
<1>10. taken' = taken /\ issued' = issued /\ parsed' = parsed /\ read' = read /\ queued' = queued
  BY <1>3 DEF taken, issued, parsed, read, queued
<1>11. EveryTransferInOneStage'
  BY <1>8, <1>9, <1>10, StageCounts, IInvFacts DEF EveryTransferInOneStage
<1>12. Len(served) = queued
  BY <1>8, StageCounts, IInvFacts DEF EveryTransferInOneStage
<1>13. /\ taken \in Nat /\ issued \in Nat /\ parsed \in Nat /\ read \in Nat
       /\ taken + Len(http_request) <= Len(served)
       /\ issued + Len(headline_out) <= Len(served)
       /\ hp.state # "INPUT_READ" => parsed + 1 <= Len(served)
       /\ read + Len(headline_in) <= Len(served)
       /\ Len(http_request) \in Nat /\ Len(headline_out) \in Nat /\ Len(headline_in) \in Nat
  <2>1. /\ taken \in Nat /\ issued \in Nat /\ parsed \in Nat /\ read \in Nat
        /\ Len(http_request) \in Nat /\ Len(headline_out) \in Nat /\ Len(headline_in) \in Nat
    BY StageCounts, IInvFacts
  <2>2. issued = taken + Len(http_request)
    BY DEF issued
  <2>3. parsed = issued + Len(headline_out)
    BY DEF parsed
  <2>4. read \in {parsed, parsed + 1} /\ (hp.state # "INPUT_READ" => read = parsed + 1)
    BY <2>1 DEF read
  <2>5. Len(served) = read + Len(headline_in)
    BY <1>12 DEF queued
  <2> QED BY <2>1, <2>2, <2>3, <2>4, <2>5
<1>14. RequestsTaken'
  <2>1. \A i \in 1 .. taken : served'[i] = served[i]
    BY <1>9, <1>13
  <2>2. taken' = taken /\ app'.requests = app.requests
    BY <1>3, <1>10
  <2>3. RequestsTaken
    BY IInvFacts
  <2> QED BY <2>1, <2>2, <2>3 DEF RequestsTaken
<1>15. RequestsIssued'
  <2>1. \A i \in 1 .. Len(http_request) : served'[taken + i] = served[taken + i]
    <3>1. taken \in Nat /\ Len(http_request) \in Nat /\ taken + Len(http_request) <= Len(served)
      BY <1>13
    <3>2. \A i \in 1 .. Len(http_request) : taken + i \in 1 .. Len(served)
      BY <1>9, <3>1
    <3> QED BY <1>9, <3>2
  <2>2. taken' = taken /\ http_request' = http_request
    BY <1>3, <1>10
  <2>3. RequestsIssued
    BY IInvFacts
  <2> QED BY <2>1, <2>2, <2>3 DEF RequestsIssued
<1>16. HeadlinesOut'
  <2>1. \A i \in 1 .. Len(headline_out) : served'[issued + i] = served[issued + i]
    <3>1. issued \in Nat /\ Len(headline_out) \in Nat /\ issued + Len(headline_out) <= Len(served)
      BY <1>13
    <3>2. \A i \in 1 .. Len(headline_out) : issued + i \in 1 .. Len(served)
      BY <1>9, <3>1
    <3> QED BY <1>9, <3>2
  <2>2. issued' = issued /\ headline_out' = headline_out
    BY <1>3, <1>10
  <2>3. HeadlinesOut
    BY IInvFacts
  <2> QED BY <2>1, <2>2, <2>3 DEF HeadlinesOut, MetaOf
<1>17. HeadlinesIn'
  <2>1. \A i \in 1 .. Len(headline_in) : served'[read + i] = served[read + i]
    <3>1. read \in Nat /\ Len(headline_in) \in Nat /\ read + Len(headline_in) <= Len(served)
      BY <1>13
    <3>2. \A i \in 1 .. Len(headline_in) : read + i \in 1 .. Len(served)
      BY <1>9, <3>1
    <3> QED BY <1>9, <3>2
  <2>2. read' = read /\ headline_in' = headline_in
    BY <1>3, <1>10
  <2>3. HeadlinesIn
    BY IInvFacts
  <2> QED BY <2>1, <2>2, <2>3 DEF HeadlinesIn, MetaOf
<1>18. HeadlineHeld'
  <2>1. hp.state # "INPUT_READ" => served'[parsed + 1] = served[parsed + 1]
    BY <1>9, <1>13
  <2>2. parsed' = parsed /\ hp' = hp
    BY <1>3, <1>10
  <2>3. HeadlineHeld
    BY IInvFacts
  <2> QED BY <2>1, <2>2, <2>3 DEF HeadlineHeld, MetaOf
<1>19. RequestAwaited'
  BY <1>1, <1>3, <1>4, <1>5, <1>9, IInvFacts DEF RequestAwaited, MetaOf
<1>20. BeatsInFlight'
  <2>1. req \in ReadRequest
    BY <1>1, FifoTail, IInvFacts, DepthAssumption DEF TcpFifosOK, CanRead
  <2>2. BeatCount(req.length) \in Nat
    BY <2>1, BeatCountPositive, LengthsAssumption DEF ReadRequest
  <2>3. served'[Len(served')].length = req.length
    BY <1>9
  <2>4. Len(tcp_rx_data') = 0 /\ sm'.state = "HANDSHAKE"
    BY <1>3, <1>4
  <2> QED BY <1>1, <2>2, <2>3, <2>4 DEF BeatsInFlight
<1> QED
  BY <1>7, <1>11, <1>14, <1>15, <1>16, <1>17, <1>18, <1>19, <1>20 DEF OrderInv, RequestPipeline

LEMMA OrderTcpDeliver == ASSUME IInv, TcpDeliver PROVE OrderInv'
<1> DEFINE m == served[Len(served)]
<1>1. /\ rx_left > 0 /\ rx_left' = rx_left - 1
      /\ tcp_rx_data' = Append(tcp_rx_data,
           BeatOf(m, Len(served), BeatCount(m.length) - rx_left + 1))
  BY DEF TcpDeliver
<1>2. /\ tcp_rx_req' = tcp_rx_req /\ tcp_rx_rsp' = tcp_rx_rsp /\ sm' = sm /\ served' = served
      /\ app'.requests = app.requests /\ http_request' = http_request /\ hp' = hp
      /\ headline_out' = headline_out /\ headline_in' = headline_in
  BY DEF TcpDeliver, appFifos, inFifos
<1>3. /\ sm.state \in {"HANDSHAKE", "DATA_HEADLINE", "DATA_PAYLOAD"}
      /\ tcp_rx_req = <<>> /\ served # <<>> /\ rx_left \in Nat
  BY <1>1, IInvFacts DEF OneTransferAtATime, SmOK, TransferKnown, EnvironmentOK
<1>4. /\ Len(tcp_rx_data) \in Nat /\ Len(tcp_rx_data') = Len(tcp_rx_data) + 1
      /\ \A i \in 1 .. Len(tcp_rx_data) : tcp_rx_data'[i] = tcp_rx_data[i]
      /\ tcp_rx_data'[Len(tcp_rx_data) + 1] =
           BeatOf(m, Len(served), BeatCount(m.length) - rx_left + 1)
  BY <1>1, AppendFacts, IInvFacts DEF TcpFifosOK, IsFifo
<1>5. BeatCount(m.length) \in Nat
  BY <1>3, LatestTransfer, IInvFacts
<1>6. Len(tcp_rx_data') + rx_left' = Len(tcp_rx_data) + rx_left
  BY <1>1, <1>3, <1>4
<1>7. \A i \in 1 .. Len(tcp_rx_data') : tcp_rx_data'[i].data.req = Len(served')
  <2>1. tcp_rx_data'[Len(tcp_rx_data) + 1].data.req = Len(served)
    BY <1>4 DEF BeatOf
  <2> QED BY <1>2, <1>4, <2>1, IInvFacts DEF OneTransferAtATime
<1>8. OneTransferAtATime'
  BY <1>2, <1>3, <1>4, <1>6, <1>7, IInvFacts DEF OneTransferAtATime
<1>9. Awaited' = Awaited
  BY <1>2 DEF Awaited
<1>10. /\ queued' = queued
       /\ RequestsTaken' /\ RequestsIssued' /\ HeadlinesOut' /\ HeadlineHeld' /\ HeadlinesIn'
  BY <1>2, StagesFrame, IInvFacts
<1>11. EveryTransferInOneStage'
  BY <1>2, <1>9, <1>10, IInvFacts DEF EveryTransferInOneStage
<1>12. RequestAwaited'
  BY <1>2, <1>9, IInvFacts DEF RequestAwaited, MetaOf
<1>13. BeatsInFlight'
  <2> SUFFICES ASSUME NEW i \in 1 .. Len(tcp_rx_data')
               PROVE  tcp_rx_data'[i] =
                        BeatOf(m, Len(served),
                               BeatCount(m.length) - rx_left' - Len(tcp_rx_data') + i)
    BY <1>2, <1>6, <1>9, IInvFacts DEF BeatsInFlight
  <2> DEFINE b == BeatCount(m.length)
  <2>1. b - rx_left' - Len(tcp_rx_data') + i = b - rx_left - Len(tcp_rx_data) + i
    <3>1. b \in Nat /\ i \in Nat
      BY <1>4, <1>5
    <3> HIDE DEF b
    <3> QED BY <1>1, <1>3, <1>4, <3>1
  <2>2. CASE i \in 1 .. Len(tcp_rx_data)
    BY <1>4, <2>1, <2>2, IInvFacts DEF BeatsInFlight
  <2>3. CASE i = Len(tcp_rx_data) + 1
    <3>1. b - rx_left - Len(tcp_rx_data) + i = b - rx_left + 1
      <4>1. b \in Nat
        BY <1>5
      <4> HIDE DEF b
      <4> QED BY <1>3, <1>4, <2>3, <4>1
    <3> QED BY <1>4, <2>1, <2>3, <3>1
  <2> QED BY <1>4, <2>2, <2>3
<1> QED BY <1>8, <1>10, <1>11, <1>12, <1>13 DEF OrderInv, RequestPipeline

-----------------------------------------------------------------------------
(***************************************************************************)
(* Each step of headline_parser, request_issuer and the application moves  *)
(* a transfer from one stage to the next.                                  *)
(***************************************************************************)

\* Steps that leave state_machine and the TCP stack alone keep the transfer.
LEMMA TransferFrame ==
  ASSUME IInv, sm' = sm, tcp_rx_req' = tcp_rx_req, tcp_rx_rsp' = tcp_rx_rsp,
         tcp_rx_data' = tcp_rx_data, rx_left' = rx_left, served' = served
  PROVE  /\ OneTransferAtATime' /\ RequestAwaited' /\ BeatsInFlight'
         /\ (queued' = queued => EveryTransferInOneStage')
<1>1. OneTransferAtATime'
  BY IInvFacts DEF OneTransferAtATime
<1>2. Awaited' = Awaited
  BY DEF Awaited
<1>3. RequestAwaited'
  BY <1>2, IInvFacts DEF RequestAwaited, MetaOf
<1>4. BeatsInFlight'
  BY <1>2, IInvFacts DEF BeatsInFlight
<1>5. queued' = queued => EveryTransferInOneStage'
  BY <1>2, IInvFacts DEF EveryTransferInOneStage
<1> QED BY <1>1, <1>3, <1>4, <1>5

LEMMA OrderHpInputRead == ASSUME IInv, HpInputRead PROVE OrderInv'
<1> DEFINE raw == Head(headline_in)
<1>1. /\ hp.state = "INPUT_READ" /\ hp'.state = "PARSE_METHOD" /\ hp'.line = raw.line
      /\ hp'.sessionID = raw.sessionID /\ hp'.hasHeaders = raw.hasHeaders
      /\ hp'.hasBody = raw.hasBody
      /\ headline_in # <<>> /\ headline_in' = Tail(headline_in)
  BY IInvFacts DEF HpInputRead, HeadlineLoaded, HpOK, CanRead
<1>2. /\ sm' = sm /\ tcp_rx_req' = tcp_rx_req /\ tcp_rx_rsp' = tcp_rx_rsp
      /\ tcp_rx_data' = tcp_rx_data /\ rx_left' = rx_left /\ served' = served
      /\ app'.requests = app.requests /\ http_request' = http_request
      /\ headline_out' = headline_out
  BY DEF HpInputRead, HeadlineLoaded, tcpFifos, tcpStack, appFifos
<1>3. /\ Len(headline_in) \in Nat \ {0} /\ raw = headline_in[1]
      /\ Len(headline_in') = Len(headline_in) - 1
      /\ \A i \in 1 .. Len(headline_in) - 1 : headline_in'[i] = headline_in[i + 1]
  BY <1>1, TailFacts, IInvFacts DEF InFifosOK, IsFifo
<1>4. taken' = taken /\ issued' = issued /\ parsed' = parsed
  BY <1>2 DEF taken, issued, parsed
<1>5. parsed \in Nat /\ read = parsed /\ read' = parsed + 1
  BY <1>1, <1>4, StageCounts, IInvFacts DEF read
<1>6. queued' = queued
  BY <1>3, <1>5 DEF queued
<1>7. OneTransferAtATime' /\ RequestAwaited' /\ BeatsInFlight' /\ EveryTransferInOneStage'
  BY <1>2, <1>6, TransferFrame
<1>8. RequestsTaken' /\ RequestsIssued'
  BY <1>2, <1>4, IInvFacts DEF RequestsTaken, RequestsIssued
<1>9. HeadlinesOut'
  BY <1>2, <1>4, IInvFacts DEF HeadlinesOut, MetaOf
<1>10. HeadlineHeld'
  <2>1. MetaOf(raw, served[parsed + 1]) /\ raw.line.text = served[parsed + 1].line
    BY <1>3, <1>5, IInvFacts DEF HeadlinesIn
  <2>2. raw \in HeadlineIn
    BY <1>1, FifoTail, DepthAssumption, IInvFacts DEF InFifosOK, CanRead
  <2>3. raw.line \in Data
    BY <2>2 DEF HeadlineIn
  <2> QED BY <1>1, <1>2, <1>4, <2>1, <2>3 DEF HeadlineHeld, MetaOf
<1>11. HeadlinesIn'
  <2> SUFFICES ASSUME NEW i \in 1 .. Len(headline_in) - 1
               PROVE  /\ MetaOf(headline_in[i + 1], served[read + (i + 1)])
                      /\ headline_in[i + 1].line.text = served[read + (i + 1)].line
    BY <1>2, <1>3, <1>5 DEF HeadlinesIn, MetaOf
  <2>1. i + 1 \in 1 .. Len(headline_in)
    BY <1>3
  <2> QED BY <2>1, IInvFacts DEF HeadlinesIn
<1> QED BY <1>7, <1>8, <1>9, <1>10, <1>11 DEF OrderInv, RequestPipeline

LEMMA OrderHpParseMethod == ASSUME IInv, HpParseMethod PROVE OrderInv'
<1>1. /\ hp.state = "PARSE_METHOD" /\ hp'.state = "EXTRACT_ENDPOINT"
      /\ hp'.method = method_parser(hp.line.text)
      /\ hp'.sessionID = hp.sessionID /\ hp'.hasHeaders = hp.hasHeaders
      /\ hp'.hasBody = hp.hasBody
  BY IInvFacts DEF HpParseMethod, HpOK
<1>2. /\ sm' = sm /\ tcp_rx_req' = tcp_rx_req /\ tcp_rx_rsp' = tcp_rx_rsp
      /\ tcp_rx_data' = tcp_rx_data /\ rx_left' = rx_left /\ served' = served
      /\ app'.requests = app.requests /\ http_request' = http_request
      /\ headline_out' = headline_out /\ headline_in' = headline_in
  BY DEF HpParseMethod, tcpFifos, tcpStack, appFifos, inFifos
<1>3. taken' = taken /\ issued' = issued /\ parsed' = parsed /\ read' = read /\ queued' = queued
  BY <1>1, <1>2 DEF taken, issued, parsed, read, queued
<1>4. OneTransferAtATime' /\ RequestAwaited' /\ BeatsInFlight' /\ EveryTransferInOneStage'
  BY <1>2, <1>3, TransferFrame
<1>5. RequestsTaken' /\ RequestsIssued' /\ HeadlinesOut' /\ HeadlinesIn'
  BY <1>2, <1>3, IInvFacts DEF RequestsTaken, RequestsIssued, HeadlinesOut, HeadlinesIn, MetaOf
<1>6. HeadlineHeld'
  BY <1>1, <1>2, <1>3, IInvFacts DEF HeadlineHeld, MetaOf
<1> QED BY <1>4, <1>5, <1>6 DEF OrderInv, RequestPipeline

LEMMA OrderHpExtractEndpoint == ASSUME IInv, HpExtractEndpoint PROVE OrderInv'
<1>1. /\ hp.state = "EXTRACT_ENDPOINT" /\ hp'.state = "OUTPUT_WRITE"
      /\ hp'.method = hp.method
      /\ hp'.sessionID = hp.sessionID /\ hp'.hasHeaders = hp.hasHeaders
      /\ hp'.hasBody = hp.hasBody
  BY IInvFacts DEF HpExtractEndpoint, HpOK
<1>2. /\ sm' = sm /\ tcp_rx_req' = tcp_rx_req /\ tcp_rx_rsp' = tcp_rx_rsp
      /\ tcp_rx_data' = tcp_rx_data /\ rx_left' = rx_left /\ served' = served
      /\ app'.requests = app.requests /\ http_request' = http_request
      /\ headline_out' = headline_out /\ headline_in' = headline_in
  BY DEF HpExtractEndpoint, tcpFifos, tcpStack, appFifos, inFifos
<1>3. taken' = taken /\ issued' = issued /\ parsed' = parsed /\ read' = read /\ queued' = queued
  BY <1>1, <1>2 DEF taken, issued, parsed, read, queued
<1>4. OneTransferAtATime' /\ RequestAwaited' /\ BeatsInFlight' /\ EveryTransferInOneStage'
  BY <1>2, <1>3, TransferFrame
<1>5. RequestsTaken' /\ RequestsIssued' /\ HeadlinesOut' /\ HeadlinesIn'
  BY <1>2, <1>3, IInvFacts DEF RequestsTaken, RequestsIssued, HeadlinesOut, HeadlinesIn, MetaOf
<1>6. HeadlineHeld'
  BY <1>1, <1>2, <1>3, IInvFacts DEF HeadlineHeld, MetaOf
<1> QED BY <1>4, <1>5, <1>6 DEF OrderInv, RequestPipeline

LEMMA OrderHpOutputWrite == ASSUME IInv, HpOutputWrite PROVE OrderInv'
<1> DEFINE result == [method |-> hp.method, sessionID |-> hp.sessionID,
                      hasHeaders |-> hp.hasHeaders, hasBody |-> hp.hasBody]
<1>1. /\ hp.state = "OUTPUT_WRITE" /\ hp'.state = "INPUT_READ"
      /\ headline_out' = Append(headline_out, result)
  BY IInvFacts DEF HpOutputWrite, HpOK
<1>2. /\ sm' = sm /\ tcp_rx_req' = tcp_rx_req /\ tcp_rx_rsp' = tcp_rx_rsp
      /\ tcp_rx_data' = tcp_rx_data /\ rx_left' = rx_left /\ served' = served
      /\ app'.requests = app.requests /\ http_request' = http_request
      /\ headline_in' = headline_in
  BY DEF HpOutputWrite, tcpFifos, tcpStack, appFifos
<1>3. /\ Len(headline_out) \in Nat /\ Len(headline_out') = Len(headline_out) + 1
      /\ \A i \in 1 .. Len(headline_out) : headline_out'[i] = headline_out[i]
      /\ headline_out'[Len(headline_out) + 1] = result
  BY <1>1, AppendFacts, IInvFacts DEF InFifosOK, IsFifo
<1>4. taken' = taken /\ issued' = issued
  BY <1>2 DEF taken, issued
<1>5. /\ issued \in Nat /\ parsed = issued + Len(headline_out)
      /\ parsed' = issued + Len(headline_out')
  BY <1>4, StageCounts, IInvFacts DEF parsed
<1>6. parsed' = parsed + 1 /\ read' = parsed' /\ read = parsed + 1
  BY <1>1, <1>3, <1>5 DEF read
<1>7. queued' = queued /\ read' = read
  BY <1>2, <1>6 DEF queued
<1>8. OneTransferAtATime' /\ RequestAwaited' /\ BeatsInFlight' /\ EveryTransferInOneStage'
  BY <1>2, <1>7, TransferFrame
<1>9. RequestsTaken' /\ RequestsIssued'
  BY <1>2, <1>4, IInvFacts DEF RequestsTaken, RequestsIssued
<1>10. HeadlinesOut'
  <2> DEFINE Right(h, i) == /\ MetaOf(h, served[issued + i])
                            /\ h.method = method_parser(served[issued + i].line)
  <2> SUFFICES ASSUME NEW i \in 1 .. Len(headline_out) + 1 PROVE Right(headline_out'[i], i)
    BY <1>2, <1>3, <1>4 DEF HeadlinesOut, MetaOf
  <2>1. CASE i \in 1 .. Len(headline_out)
    BY <1>3, <2>1, IInvFacts DEF HeadlinesOut
  <2>2. CASE i = Len(headline_out) + 1
    <3>1. issued + i = parsed + 1
      BY <1>3, <1>5, <2>2
    <3>2. /\ MetaOf(hp, served[parsed + 1])
          /\ hp.method = method_parser(served[parsed + 1].line)
      BY <1>1, IInvFacts DEF HeadlineHeld
    <3> QED BY <1>3, <2>2, <3>1, <3>2 DEF MetaOf
  <2> QED BY <1>3, <2>1, <2>2
<1>11. HeadlineHeld'
  BY <1>1 DEF HeadlineHeld
<1>12. HeadlinesIn'
  BY <1>2, <1>7, IInvFacts DEF HeadlinesIn, MetaOf
<1> QED BY <1>8, <1>9, <1>10, <1>11, <1>12 DEF OrderInv, RequestPipeline

LEMMA OrderRequestIssuer == ASSUME IInv, RequestIssuer PROVE OrderInv'
<1> DEFINE headline == Head(headline_out)
           request  == [meta       |-> [method    |-> headline.method,
                                        sessionID |-> headline.sessionID],
                        method     |-> headline.method,
                        hasHeaders |-> headline.hasHeaders,
                        hasBody    |-> headline.hasBody]
<1>1. /\ headline_out # <<>> /\ headline_out' = Tail(headline_out)
      /\ http_request' = Append(http_request, request)
  BY DEF RequestIssuer, CanRead
<1>2. /\ sm' = sm /\ tcp_rx_req' = tcp_rx_req /\ tcp_rx_rsp' = tcp_rx_rsp
      /\ tcp_rx_data' = tcp_rx_data /\ rx_left' = rx_left /\ served' = served
      /\ app'.requests = app.requests /\ hp' = hp /\ headline_in' = headline_in
  BY DEF RequestIssuer, tcpFifos, tcpStack
<1>3. /\ Len(headline_out) \in Nat \ {0} /\ headline = headline_out[1]
      /\ Len(headline_out') = Len(headline_out) - 1
      /\ \A i \in 1 .. Len(headline_out) - 1 : headline_out'[i] = headline_out[i + 1]
  BY <1>1, TailFacts, IInvFacts DEF InFifosOK, IsFifo
<1>4. /\ Len(http_request) \in Nat /\ Len(http_request') = Len(http_request) + 1
      /\ \A i \in 1 .. Len(http_request) : http_request'[i] = http_request[i]
      /\ http_request'[Len(http_request) + 1] = request
  BY <1>1, AppendFacts, IInvFacts DEF AppFifosOK, IsFifo
<1>5. taken \in Nat /\ taken' = taken
  BY <1>2, StageCounts, IInvFacts DEF taken
<1>6. issued = taken + Len(http_request) /\ issued' = issued + 1 /\ issued \in Nat
  BY <1>4, <1>5 DEF issued
<1>7. parsed' = parsed
  BY <1>3, <1>6 DEF parsed
<1>8. read' = read /\ queued' = queued
  BY <1>2, <1>7 DEF read, queued
<1>9. OneTransferAtATime' /\ RequestAwaited' /\ BeatsInFlight' /\ EveryTransferInOneStage'
  BY <1>2, <1>8, TransferFrame
<1>10. RequestsTaken'
  BY <1>2, <1>5, IInvFacts DEF RequestsTaken
<1>11. RequestsIssued'
  <2> SUFFICES ASSUME NEW i \in 1 .. Len(http_request) + 1
               PROVE  http_request'[i] = RequestFor(served[taken + i])
    BY <1>2, <1>4, <1>5 DEF RequestsIssued
  <2>1. CASE i \in 1 .. Len(http_request)
    BY <1>4, <2>1, IInvFacts DEF RequestsIssued
  <2>2. CASE i = Len(http_request) + 1
    <3>1. taken + i = issued + 1
      BY <1>4, <1>5, <1>6, <2>2
    <3>2. /\ MetaOf(headline, served[issued + 1])
          /\ headline.method = method_parser(served[issued + 1].line)
      BY <1>3, IInvFacts DEF HeadlinesOut
    <3>3. request = RequestFor(served[issued + 1])
      BY <3>2 DEF RequestFor, MetaOf
    <3> QED BY <1>4, <2>2, <3>1, <3>3
  <2> QED BY <1>4, <2>1, <2>2
<1>12. HeadlinesOut'
  <2> DEFINE Right(h, k) == MetaOf(h, served[k]) /\ h.method = method_parser(served[k].line)
  <2> SUFFICES ASSUME NEW i \in 1 .. Len(headline_out) - 1
               PROVE  Right(headline_out'[i], issued' + i)
    BY <1>2, <1>3 DEF HeadlinesOut, MetaOf
  <2>1. i + 1 \in 1 .. Len(headline_out)
    BY <1>3
  <2>2. headline_out'[i] = headline_out[i + 1]
    BY <1>3
  <2>3. issued' + i = issued + (i + 1)
    <3>1. i \in Nat
      BY <1>3
    <3>2. issued \in Nat /\ issued' = issued + 1
      BY <1>6
    <3> QED BY <3>1, <3>2
  <2>4. Right(headline_out[i + 1], issued + (i + 1))
    BY <2>1, IInvFacts DEF HeadlinesOut
  <2> QED BY <2>2, <2>3, <2>4
<1>13. HeadlineHeld' /\ HeadlinesIn'
  BY <1>2, <1>7, <1>8, IInvFacts DEF HeadlineHeld, HeadlinesIn, MetaOf
<1> QED BY <1>9, <1>10, <1>11, <1>12, <1>13 DEF OrderInv, RequestPipeline

LEMMA OrderAppRequest == ASSUME IInv, AppRequest PROVE OrderInv'
<1> DEFINE request == Head(http_request)
<1>1. /\ http_request # <<>> /\ http_request' = Tail(http_request)
      /\ app'.requests = Append(app.requests, request)
  BY IInvFacts DEF AppRequest, CanRead, EnvironmentOK
<1>2. /\ sm' = sm /\ tcp_rx_req' = tcp_rx_req /\ tcp_rx_rsp' = tcp_rx_rsp
      /\ tcp_rx_data' = tcp_rx_data /\ rx_left' = rx_left /\ served' = served
      /\ hp' = hp /\ headline_in' = headline_in /\ headline_out' = headline_out
  BY DEF AppRequest, tcpFifos, tcpStack, inFifos
<1>3. /\ Len(http_request) \in Nat \ {0} /\ request = http_request[1]
      /\ Len(http_request') = Len(http_request) - 1
      /\ \A i \in 1 .. Len(http_request) - 1 : http_request'[i] = http_request[i + 1]
  BY <1>1, TailFacts, IInvFacts DEF AppFifosOK, IsFifo
<1>4. app.requests \in Seq(Request)
  BY IInvFacts DEF EnvironmentOK
<1>5. /\ taken \in Nat /\ taken' = taken + 1
      /\ \A i \in 1 .. taken : app'.requests[i] = app.requests[i]
      /\ app'.requests[taken + 1] = request
  BY <1>1, <1>4, AppendFacts DEF taken
<1>6. issued' = issued
  BY <1>3, <1>5 DEF issued
<1>7. parsed' = parsed /\ read' = read /\ queued' = queued
  BY <1>2, <1>6 DEF parsed, read, queued
<1>8. OneTransferAtATime' /\ RequestAwaited' /\ BeatsInFlight' /\ EveryTransferInOneStage'
  BY <1>2, <1>7, TransferFrame
<1>9. RequestsTaken'
  <2>1. request = RequestFor(served[taken + 1])
    BY <1>3, IInvFacts DEF RequestsIssued
  <2> QED BY <1>2, <1>5, <2>1, IInvFacts DEF RequestsTaken
<1>10. RequestsIssued'
  <2> SUFFICES ASSUME NEW i \in 1 .. Len(http_request) - 1
               PROVE  http_request[i + 1] = RequestFor(served[taken + (i + 1)])
    BY <1>2, <1>3, <1>5 DEF RequestsIssued
  <2>1. i + 1 \in 1 .. Len(http_request)
    BY <1>3
  <2> QED BY <2>1, IInvFacts DEF RequestsIssued
<1>11. HeadlinesOut' /\ HeadlineHeld' /\ HeadlinesIn'
  BY <1>2, <1>6, <1>7, IInvFacts DEF HeadlinesOut, HeadlineHeld, HeadlinesIn, MetaOf
<1> QED BY <1>8, <1>9, <1>10, <1>11 DEF OrderInv, RequestPipeline

-----------------------------------------------------------------------------
(***************************************************************************)
(* The theorems                                                            *)
(***************************************************************************)

\* Every step keeps the transfers in order.
LEMMA OrderStep == IInv /\ [Next]_vars => OrderInv'
<1> SUFFICES ASSUME IInv, [Next]_vars PROVE OrderInv'
  OBVIOUS
<1>1. ASSUME PayloadParser \/ TcpNotify \/ AppHeaders \/ AppBody \/ UNCHANGED vars
      PROVE  OrderInv'
  <2>1. /\ app'.requests = app.requests /\ http_request' = http_request
        /\ headline_out' = headline_out /\ hp' = hp /\ headline_in' = headline_in
        /\ sm' = sm /\ tcp_rx_req' = tcp_rx_req /\ tcp_rx_rsp' = tcp_rx_rsp
        /\ tcp_rx_data' = tcp_rx_data /\ rx_left' = rx_left /\ served' = served
    BY <1>1, IInvFacts
    DEF PayloadParser, PpHeaderRead, PpHeaderWrite, PpBodyRead, PpBodyWrite, TcpNotify,
        AppHeaders, AppBody, vars, tcpFifos, inFifos, appFifos, tcpStack, EnvironmentOK
  <2> QED BY <2>1, OrderFrame, IInvFacts DEF OrderInv
<1>2. ASSUME StateMachine PROVE OrderInv'
  BY <1>2, OrderSmIdle, OrderSmNotificationData, OrderSmNotificationEmpty, OrderSmHandshake,
     OrderSmDataHeadline, OrderSmDataPayload DEF StateMachine
<1>3. ASSUME HeadlineParser PROVE OrderInv'
  BY <1>3, OrderHpInputRead, OrderHpParseMethod, OrderHpExtractEndpoint, OrderHpOutputWrite
  DEF HeadlineParser
<1> QED
  BY <1>1, <1>2, <1>3, OrderRequestIssuer, OrderTcpAccept, OrderTcpDeliver, OrderAppRequest
  DEF Next, Poll

\* The invariant holds in every reachable state.
LEMMA IInvariant == Spec => []IInv
<1>1. Init => IInv
  BY TypeInit, OrderInit DEF IInv
<1>2. IInv /\ [Next]_vars => IInv'
  BY TypeStep, OrderStep DEF IInv, OrderInv
<1> QED BY <1>1, <1>2, PTL DEF Spec

\* At most one transfer is in flight between state_machine and the TCP stack.
THEOREM OneTransfer == Spec => []OneTransferAtATime
<1>1. IInv => OneTransferAtATime
  BY DEF IInv
<1> QED BY <1>1, IInvariant, PTL

\* Every transfer the TCP stack accepted is in exactly one stage of the request
\* pipeline, whose registers and FIFOs hold what is its own.
THEOREM TransfersKeepTheirStage == Spec => []RequestPipeline
<1>1. IInv => RequestPipeline
  BY DEF IInv
<1> QED BY <1>1, IInvariant, PTL

\* What the stages hold makes the requests offered those of their transfers.
LEMMA OfferedRequests == ASSUME IInv PROVE RequestsMatchServed
<1>1. app.requests \in Seq(Request) /\ http_request \in Seq(Request)
  BY IInvFacts DEF EnvironmentOK, AppFifosOK, IsFifo
<1>2. /\ taken \in Nat /\ Len(http_request) \in Nat
      /\ Len(offeredRequests) = taken + Len(http_request)
      /\ \A i \in 1 .. taken : offeredRequests[i] = app.requests[i]
      /\ \A i \in 1 .. Len(http_request) : offeredRequests[taken + i] = http_request[i]
  BY <1>1 DEF offeredRequests, taken
<1>3. Len(offeredRequests) <= Len(served)
  <2>1. queued <= Len(served)
    BY StageCounts, IInvFacts DEF EveryTransferInOneStage
  <2>2. issued <= queued
    <3>1. parsed <= read /\ issued <= parsed
      BY StageCounts, IInvFacts DEF parsed, read
    <3> QED BY <3>1, StageCounts, IInvFacts DEF queued
  <2> QED BY <1>2, <2>1, <2>2, StageCounts, IInvFacts DEF issued
<1>4. ASSUME NEW i \in 1 .. Len(offeredRequests)
      PROVE  offeredRequests[i] = RequestFor(served[i])
  <2>1. CASE i \in 1 .. taken
    BY <1>2, <2>1, IInvFacts DEF RequestsTaken
  <2>2. CASE i \notin 1 .. taken
    <3> DEFINE k == i - taken
    <3>1. k \in 1 .. Len(http_request) /\ i = taken + k
      BY <1>2, <2>2
    <3>2. http_request[k] = RequestFor(served[taken + k])
      BY <3>1, IInvFacts DEF RequestsIssued
    <3> HIDE DEF k
    <3> QED BY <1>2, <3>1, <3>2
  <2> QED BY <2>1, <2>2
<1> QED BY <1>3, <1>4 DEF RequestsMatchServed

\* The i-th request offered is the one of the i-th transfer the TCP stack served,
\* with its method, session and flags.
THEOREM RequestsInOrder == Spec => []RequestsMatchServed
<1>1. IInv => RequestsMatchServed
  BY OfferedRequests
<1> QED BY <1>1, IInvariant, PTL

-----------------------------------------------------------------------------
(***************************************************************************)
(* The TCP stack is asked for what was notified.                           *)
(***************************************************************************)

\* How many of the first n numbers are in a set: one more, if n + 1 is.
LEMMA CountFacts ==
  ASSUME NEW T, NEW n \in Nat
  PROVE  LET N(m) == {j \in 1 .. m : j \in T}
         IN  /\ Cardinality(N(0)) = 0 /\ Cardinality(N(n)) \in Nat
             /\ Cardinality(N(n + 1)) = IF n + 1 \in T THEN Cardinality(N(n)) + 1
                                        ELSE Cardinality(N(n))
<1> DEFINE N(m) == {j \in 1 .. m : j \in T}
<1>1. N(0) = {}
  OBVIOUS
<1>2. IsFiniteSet(N(n))
  <2>1. IsFiniteSet(1 .. n)
    BY FS_Interval
  <2>2. N(n) \in SUBSET (1 .. n)
    OBVIOUS
  <2> QED BY <2>1, <2>2, FS_Subset
<1>3. /\ n + 1 \notin N(n)
      /\ N(n + 1) = IF n + 1 \in T THEN N(n) \cup {n + 1} ELSE N(n)
  OBVIOUS
<1> HIDE DEF N
<1>4. Cardinality(N(0)) = 0
  BY <1>1, FS_EmptySet
<1>5. Cardinality(N(n)) \in Nat
  BY <1>2, FS_CardinalityType
<1>6. Cardinality(N(n) \cup {n + 1}) = Cardinality(N(n)) + 1
  BY <1>2, <1>3, FS_AddElement
<1>7. Cardinality(N(n + 1)) = IF n + 1 \in T THEN Cardinality(N(n)) + 1 ELSE Cardinality(N(n))
  BY <1>3, <1>6
<1> QED BY <1>4, <1>5, <1>7 DEF N

\* One of them that is in the set has a place among them.
LEMMA CountRank ==
  ASSUME NEW T, NEW n \in Nat, NEW i \in 1 .. n, i \in T
  PROVE  Cardinality({j \in 1 .. i : j \in T}) \in 1 .. Cardinality({j \in 1 .. n : j \in T})
<1> DEFINE N(m) == {j \in 1 .. m : j \in T}
<1>1. IsFiniteSet(N(n)) /\ N(i) \in SUBSET N(n) /\ N(i) # {}
  <2>1. IsFiniteSet(1 .. n)
    BY FS_Interval
  <2>2. N(n) \in SUBSET (1 .. n) /\ N(i) \in SUBSET N(n) /\ i \in N(i)
    OBVIOUS
  <2> QED BY <2>1, <2>2, FS_Subset
<1> HIDE DEF N
<1>2. IsFiniteSet(N(i)) /\ Cardinality(N(i)) <= Cardinality(N(n))
  BY <1>1, FS_Subset
<1>3. Cardinality(N(i)) \in Nat /\ Cardinality(N(n)) \in Nat /\ Cardinality(N(i)) # 0
  BY <1>1, <1>2, FS_CardinalityType, FS_EmptySet
<1>4. Cardinality(N(i)) \in 1 .. Cardinality(N(n))
  BY <1>2, <1>3
<1> QED BY <1>4 DEF N

\* One more notification counts if it announces bytes.
LEMMA AnnouncedFacts ==
  ASSUME NEW s, NEW n \in Nat
  PROVE  /\ AnnouncedUpTo(s, 0) = 0 /\ AnnouncedUpTo(s, n) \in Nat
         /\ AnnouncedUpTo(s, n + 1) = IF NonEmpty(s[n + 1]) THEN AnnouncedUpTo(s, n) + 1
                                      ELSE AnnouncedUpTo(s, n)
<1> DEFINE T == {j \in Nat : NonEmpty(s[j])}
<1>1. \A m \in Nat : AnnouncedUpTo(s, m) = Cardinality({j \in 1 .. m : j \in T})
  <2> SUFFICES ASSUME NEW m \in Nat
               PROVE  AnnouncedUpTo(s, m) = Cardinality({j \in 1 .. m : j \in T})
    OBVIOUS
  <2>1. {j \in 1 .. m : j \in T} = {j \in 1 .. m : NonEmpty(s[j])}
    OBVIOUS
  <2> QED BY <2>1 DEF AnnouncedUpTo
<1>2. n + 1 \in T <=> NonEmpty(s[n + 1])
  OBVIOUS
<1> HIDE DEF T
<1>3. /\ Cardinality({j \in 1 .. 0 : j \in T}) = 0
      /\ Cardinality({j \in 1 .. n : j \in T}) \in Nat
      /\ Cardinality({j \in 1 .. n + 1 : j \in T})
           = IF n + 1 \in T THEN Cardinality({j \in 1 .. n : j \in T}) + 1
             ELSE Cardinality({j \in 1 .. n : j \in T})
  BY CountFacts
<1>4. /\ AnnouncedUpTo(s, 0) = Cardinality({j \in 1 .. 0 : j \in T})
      /\ AnnouncedUpTo(s, n) = Cardinality({j \in 1 .. n : j \in T})
      /\ AnnouncedUpTo(s, n + 1) = Cardinality({j \in 1 .. n + 1 : j \in T})
  BY <1>1
<1> QED BY <1>2, <1>3, <1>4

\* A notification that announces bytes has a number, no greater than how many do.
LEMMA AnnouncedRank ==
  ASSUME NEW s, NEW n \in Nat, NEW i \in 1 .. n, NonEmpty(s[i])
  PROVE  AnnouncedUpTo(s, i) \in 1 .. AnnouncedUpTo(s, n)
<1> DEFINE T == {j \in Nat : NonEmpty(s[j])}
<1>1. /\ {j \in 1 .. n : j \in T} = {j \in 1 .. n : NonEmpty(s[j])}
      /\ {j \in 1 .. i : j \in T} = {j \in 1 .. i : NonEmpty(s[j])}
      /\ i \in T
  OBVIOUS
<1> HIDE DEF T
<1> QED BY <1>1, CountRank DEF AnnouncedUpTo

\* The numbers depend on the notifications up to them only.
LEMMA AnnouncedPrefix ==
  ASSUME NEW s, NEW t, NEW n \in Nat, \A j \in 1 .. n : t[j] = s[j]
  PROVE  \A i \in 0 .. n : AnnouncedUpTo(t, i) = AnnouncedUpTo(s, i)
<1> SUFFICES ASSUME NEW i \in 0 .. n PROVE AnnouncedUpTo(t, i) = AnnouncedUpTo(s, i)
  OBVIOUS
<1>1. {j \in 1 .. i : NonEmpty(t[j])} = {j \in 1 .. i : NonEmpty(s[j])}
  OBVIOUS
<1> QED BY <1>1 DEF AnnouncedUpTo

\* What ServedAsNotified says of the number of notifications taken.
Noticed(n) ==
  /\ Len(notified) = n + Len(tcp_notification)
  /\ \A i \in 1 .. Len(tcp_notification) : tcp_notification[i] = notified[n + i]
  /\ Len(readRequests) = AnnouncedUpTo(notified, n)
  /\ \A i \in 1 .. n : NonEmpty(notified[i]) => readRequests[AnnouncedUpTo(notified, i)] = notified[i]

\* The property is that such a number exists.
LEMMA NoticedIsServed ==
  ASSUME IInv
  PROVE  ServedAsNotified <=> \E n \in Nat : Noticed(n)
<1>1. tcp_notification \in Seq(Notification) /\ notified \in Seq(Notification)
  BY IInvFacts DEF TcpFifosOK, IsFifo, EnvironmentOK
<1>2. ASSUME NEW n \in Nat, Noticed(n) PROVE n \in 0 .. Len(notified)
  BY <1>1, <1>2 DEF Noticed
<1> QED BY <1>1, <1>2 DEF ServedAsNotified, Noticed

\* The reads asked for are those accepted, then the one that waits.
ReadsMade(s, q) ==
  [i \in 1 .. Len(s) |-> [sessionID |-> s[i].sessionID, length |-> s[i].length]] \o q
ReadsAre(r, s, q) ==
  /\ r \in Seq(ReadRequest) /\ Len(r) = Len(s) + Len(q)
  /\ \A i \in 1 .. Len(s) : r[i] = [sessionID |-> s[i].sessionID, length |-> s[i].length]
  /\ \A i \in 1 .. Len(q) : r[Len(s) + i] = q[i]

\* This is how they are put together ...
LEMMA ReadsOf ==
  ASSUME NEW s \in Seq(Transfer), NEW q \in Seq(ReadRequest)
  PROVE  ReadsAre(ReadsMade(s, q), s, q)
<1>1. PICK n \in Nat : n = Len(s)
  OBVIOUS
<1> DEFINE f == [i \in 1 .. n |-> [sessionID |-> s[i].sessionID, length |-> s[i].length]]
<1>2. /\ f \in Seq(ReadRequest) /\ Len(f) = n
      /\ \A i \in 1 .. n : f[i] = [sessionID |-> s[i].sessionID, length |-> s[i].length]
  <2>1. \A i \in 1 .. n : s[i] \in Transfer
    BY <1>1
  <2>2. \A i \in 1 .. n : f[i] \in ReadRequest
    BY <2>1 DEF Transfer, ReadRequest
  <2> QED BY <2>2
<1>3. ReadsMade(s, q) = f \o q
  BY <1>1 DEF ReadsMade
<1> HIDE DEF f
<1>4. /\ f \o q \in Seq(ReadRequest) /\ Len(f \o q) = n + Len(q)
      /\ \A i \in 1 .. n : (f \o q)[i] = f[i]
      /\ \A i \in 1 .. Len(q) : (f \o q)[n + i] = q[i]
  <2>1. f \in Seq(ReadRequest) /\ Len(f) = n
    BY <1>2
  <2>2. f \o q \in Seq(ReadRequest) /\ Len(f \o q) = Len(f) + Len(q)
    BY <2>1
  <2>3. \A i \in 1 .. Len(f) : (f \o q)[i] = f[i]
    BY <2>1
  <2>4. \A i \in 1 .. Len(q) : (f \o q)[Len(f) + i] = q[i]
    BY <2>1
  <2> QED BY <2>1, <2>2, <2>3, <2>4
<1> QED BY <1>1, <1>2, <1>3, <1>4 DEF ReadsAre

\* ... and what they are, with their types.
LEMMA ReadRequestsFacts ==
  ASSUME IInv
  PROVE  /\ served \in Seq(Transfer) /\ tcp_rx_req \in Seq(ReadRequest)
         /\ tcp_notification \in Seq(Notification) /\ notified \in Seq(Notification)
         /\ ReadsAre(readRequests, served, tcp_rx_req)
<1>1. /\ served \in Seq(Transfer) /\ tcp_rx_req \in Seq(ReadRequest)
      /\ tcp_notification \in Seq(Notification) /\ notified \in Seq(Notification)
  BY IInvFacts DEF TcpFifosOK, IsFifo, EnvironmentOK
<1>2. readRequests = ReadsMade(served, tcp_rx_req)
  BY DEF readRequests, ReadsMade
<1> QED BY <1>1, <1>2, ReadsOf

\* The same after a step.
LEMMA ReadRequestsNext ==
  ASSUME IInv'
  PROVE  /\ served' \in Seq(Transfer) /\ tcp_rx_req' \in Seq(ReadRequest)
         /\ tcp_notification' \in Seq(Notification) /\ notified' \in Seq(Notification)
         /\ ReadsAre(readRequests', served', tcp_rx_req')
<1>1. /\ served' \in Seq(Transfer) /\ tcp_rx_req' \in Seq(ReadRequest)
      /\ tcp_notification' \in Seq(Notification) /\ notified' \in Seq(Notification)
  BY DEF IInv, TypeInv, TypeOK, TcpFifosOK, IsFifo, EnvironmentOK
<1>2. readRequests' = ReadsMade(served', tcp_rx_req')
  BY DEF readRequests, ReadsMade
<1> QED BY <1>1, <1>2, ReadsOf

\* The same for the state after a step.
LEMMA NoticedIsServedNext ==
  ASSUME IInv', NEW n \in Nat, Noticed(n)' PROVE ServedAsNotified'
<1>1. tcp_notification' \in Seq(Notification) /\ notified' \in Seq(Notification)
  BY ReadRequestsNext
<1>2. n \in 0 .. Len(notified')
  BY <1>1 DEF Noticed
<1> QED BY <1>2 DEF ServedAsNotified, Noticed

\* A step that takes no notification and asks for nothing.
LEMMA NoticedFrame ==
  ASSUME notified' = notified, tcp_notification' = tcp_notification,
         readRequests' = readRequests, NEW n, Noticed(n)
  PROVE  Noticed(n)'
BY DEF Noticed

\* One more notification waits.
LEMMA NoticedTcpNotify == ASSUME IInv, IInv', TcpNotify, NEW n \in Nat, Noticed(n) PROVE Noticed(n)'
<1>1. PICK m \in Notification :
        /\ notified' = Append(notified, m) /\ tcp_notification' = Append(tcp_notification, m)
  BY DEF TcpNotify
<1>2. PICK w \in Nat : w = Len(tcp_notification)
  BY ReadRequestsFacts
<1>3. /\ Len(notified) = n + w
      /\ \A i \in 1 .. w : tcp_notification[i] = notified[n + i]
      /\ Len(readRequests) = AnnouncedUpTo(notified, n)
      /\ \A i \in 1 .. n : NonEmpty(notified[i]) =>
           readRequests[AnnouncedUpTo(notified, i)] = notified[i]
  BY <1>2 DEF Noticed
<1>4. /\ Len(notified') = n + w + 1 /\ Len(tcp_notification') = w + 1
      /\ \A i \in 1 .. n + w : notified'[i] = notified[i]
      /\ \A i \in 1 .. w : tcp_notification'[i] = tcp_notification[i]
      /\ notified'[n + w + 1] = m /\ tcp_notification'[w + 1] = m
  <2>1. /\ Len(notified') = Len(notified) + 1 /\ notified'[Len(notified) + 1] = m
        /\ \A i \in 1 .. Len(notified) : notified'[i] = notified[i]
    BY <1>1, ReadRequestsFacts, AppendFacts
  <2>2. /\ Len(tcp_notification') = w + 1 /\ tcp_notification'[w + 1] = m
        /\ \A i \in 1 .. w : tcp_notification'[i] = tcp_notification[i]
    BY <1>1, <1>2, ReadRequestsFacts, AppendFacts
  <2> QED BY <1>3, <2>1, <2>2
<1>5. \A i \in 0 .. n : AnnouncedUpTo(notified', i) = AnnouncedUpTo(notified, i)
  <2>1. \A i \in 1 .. n : notified'[i] = notified[i]
    BY <1>4
  <2> QED BY <2>1, AnnouncedPrefix
<1>6. readRequests' = readRequests
  BY DEF TcpNotify, readRequests
<1>7. \A i \in 1 .. Len(tcp_notification') : tcp_notification'[i] = notified'[n + i]
  <2> SUFFICES ASSUME NEW i \in 1 .. w + 1 PROVE tcp_notification'[i] = notified'[n + i]
    BY <1>4
  <2>1. CASE i \in 1 .. w
    <3>1. n + i \in 1 .. n + w
      BY <2>1
    <3> QED BY <1>3, <1>4, <2>1, <3>1
  <2>2. CASE i = w + 1
    <3>1. n + i = n + w + 1
      BY <2>2
    <3> QED BY <1>4, <2>2, <3>1
  <2> QED BY <2>1, <2>2
<1>8. \A i \in 1 .. n : NonEmpty(notified'[i]) =>
        readRequests'[AnnouncedUpTo(notified', i)] = notified'[i]
  BY <1>3, <1>4, <1>5, <1>6
<1>9. Len(notified') = n + Len(tcp_notification')
  BY <1>4
<1>10. Len(readRequests') = AnnouncedUpTo(notified', n)
  BY <1>3, <1>5, <1>6
<1> QED BY <1>7, <1>8, <1>9, <1>10 DEF Noticed

\* The first notification that waits is taken: it is the next one of all.
LEMMA NoticedHead ==
  ASSUME IInv, tcp_notification # <<>>, tcp_notification' = Tail(tcp_notification),
         notified' = notified, NEW n \in Nat, Noticed(n)
  PROVE  /\ Head(tcp_notification) = notified[n + 1]
         /\ Len(notified') = (n + 1) + Len(tcp_notification')
         /\ \A i \in 1 .. Len(tcp_notification') : tcp_notification'[i] = notified'[n + 1 + i]
<1>1. PICK w \in Nat \ {0} : w = Len(tcp_notification)
  BY ReadRequestsFacts, TailFacts
<1>2. /\ Head(tcp_notification) = tcp_notification[1] /\ Len(tcp_notification') = w - 1
      /\ \A i \in 1 .. w - 1 : tcp_notification'[i] = tcp_notification[i + 1]
  BY <1>1, ReadRequestsFacts, TailFacts
<1>3. Len(notified) = n + w /\ \A i \in 1 .. w : tcp_notification[i] = notified[n + i]
  BY <1>1 DEF Noticed
<1>4. /\ \A i \in 1 .. w - 1 : i + 1 \in 1 .. w /\ n + (i + 1) = n + 1 + i
      /\ 1 \in 1 .. w /\ n + w = (n + 1) + (w - 1)
  OBVIOUS
<1>5. \A i \in 1 .. w - 1 : tcp_notification'[i] = notified'[n + 1 + i]
  <2> SUFFICES ASSUME NEW i \in 1 .. w - 1 PROVE tcp_notification'[i] = notified[n + 1 + i]
    OBVIOUS
  <2>1. tcp_notification[i + 1] = notified[n + (i + 1)]
    BY <1>3, <1>4
  <2> QED BY <1>2, <1>4, <2>1
<1>6. Head(tcp_notification) = notified[n + 1]
  BY <1>2, <1>3, <1>4
<1> QED BY <1>2, <1>3, <1>4, <1>5, <1>6

\* One without bytes is dropped.
LEMMA NoticedEmpty ==
  ASSUME IInv, SmNotificationEmpty, NEW n \in Nat, Noticed(n) PROVE Noticed(n + 1)'
<1>1. /\ tcp_notification # <<>> /\ tcp_notification' = Tail(tcp_notification)
      /\ notified' = notified /\ readRequests' = readRequests
      /\ Head(tcp_notification).length = 0
  BY DEF SmNotificationEmpty, CanRead, tcpStack, readRequests
<1>2. /\ Head(tcp_notification) = notified[n + 1]
      /\ Len(notified') = (n + 1) + Len(tcp_notification')
      /\ \A i \in 1 .. Len(tcp_notification') : tcp_notification'[i] = notified'[n + 1 + i]
  BY <1>1, NoticedHead
<1>3. ~NonEmpty(notified[n + 1])
  BY <1>1, <1>2 DEF NonEmpty
<1>4. AnnouncedUpTo(notified, n + 1) = AnnouncedUpTo(notified, n)
  BY <1>3, AnnouncedFacts
<1>5. \A i \in 1 .. n + 1 : i \in 1 .. n \/ i = n + 1
  OBVIOUS
<1> QED BY <1>1, <1>2, <1>3, <1>4, <1>5 DEF Noticed

\* One with bytes becomes the next read request, whose number it has.
LEMMA NoticedData ==
  ASSUME IInv, IInv', SmNotificationData, NEW n \in Nat, Noticed(n) PROVE Noticed(n + 1)'
<1>1. /\ tcp_notification # <<>> /\ tcp_notification' = Tail(tcp_notification)
      /\ notified' = notified /\ served' = served
      /\ Head(tcp_notification).length # 0
      /\ tcp_rx_req' = Append(tcp_rx_req, Head(tcp_notification))
  BY DEF SmNotificationData, CanRead, tcpStack
<1>2. /\ Head(tcp_notification) = notified[n + 1]
      /\ Len(notified') = (n + 1) + Len(tcp_notification')
      /\ \A i \in 1 .. Len(tcp_notification') : tcp_notification'[i] = notified'[n + 1 + i]
  BY <1>1, NoticedHead
<1>3. NonEmpty(notified[n + 1])
  BY <1>1, <1>2 DEF NonEmpty
<1>4. PICK r \in Nat : r = AnnouncedUpTo(notified, n)
  BY AnnouncedFacts
<1>5. AnnouncedUpTo(notified, n + 1) = r + 1
  BY <1>3, <1>4, AnnouncedFacts
<1>6. /\ Len(readRequests') = r + 1 /\ readRequests'[r + 1] = notified[n + 1]
      /\ \A i \in 1 .. r : readRequests'[i] = readRequests[i]
  <2>1. /\ readRequests = [i \in 1 .. Len(served) |-> [sessionID |-> served[i].sessionID,
                                                      length    |-> served[i].length]] \o tcp_rx_req
        /\ Len(readRequests) = r
    BY <1>4 DEF readRequests, Noticed
  <2>2. PICK s \in Nat, q \in Nat : s = Len(served) /\ q = Len(tcp_rx_req)
    BY ReadRequestsFacts DEF ReadsAre
  <2>3. /\ Len(tcp_rx_req') = q + 1 /\ tcp_rx_req'[q + 1] = notified[n + 1]
        /\ \A i \in 1 .. q : tcp_rx_req'[i] = tcp_rx_req[i]
    BY <1>1, <1>2, <2>2, ReadRequestsFacts, AppendFacts
  <2>4. r = s + q
    BY <2>1, <2>2, ReadRequestsFacts DEF ReadsAre
  <2>5. /\ Len(readRequests') = s + (q + 1)
        /\ \A i \in 1 .. s : readRequests'[i] = [sessionID |-> served[i].sessionID,
                                                length    |-> served[i].length]
        /\ \A i \in 1 .. q + 1 : readRequests'[s + i] = tcp_rx_req'[i]
    BY <1>1, <2>2, <2>3, ReadRequestsNext DEF ReadsAre
  <2>6. readRequests'[r + 1] = notified[n + 1]
    <3>1. r + 1 = s + (q + 1) /\ q + 1 \in 1 .. q + 1
      BY <2>4
    <3> QED BY <2>3, <2>5, <3>1
  <2>7. ASSUME NEW i \in 1 .. r PROVE readRequests'[i] = readRequests[i]
    <3>1. CASE i \in 1 .. s
      BY <2>2, <2>5, <3>1, ReadRequestsFacts DEF ReadsAre
    <3>2. CASE i \notin 1 .. s
      <4>1. PICK k \in 1 .. q : i = s + k
        <5>1. i - s \in 1 .. q /\ i = s + (i - s)
          BY <2>4, <3>2
        <5> QED BY <5>1
      <4>2. k \in 1 .. q + 1
        OBVIOUS
      <4> QED BY <2>2, <2>3, <2>5, <4>1, <4>2, ReadRequestsFacts DEF ReadsAre
    <3> QED BY <3>1, <3>2
  <2> QED BY <2>4, <2>5, <2>6, <2>7
<1>7. ASSUME NEW i \in 1 .. n + 1, NonEmpty(notified'[i])
      PROVE  readRequests'[AnnouncedUpTo(notified', i)] = notified'[i]
  <2>1. CASE i \in 1 .. n
    <3>1. AnnouncedUpTo(notified, i) \in 1 .. r
      BY <1>1, <1>4, <1>7, <2>1, AnnouncedRank
    <3> QED BY <1>1, <1>6, <1>7, <2>1, <3>1 DEF Noticed
  <2>2. CASE i = n + 1
    BY <1>1, <1>5, <1>6, <2>2
  <2> QED BY <2>1, <2>2
<1>8. Len(readRequests') = AnnouncedUpTo(notified', n + 1)
  BY <1>1, <1>5, <1>6
<1> QED BY <1>2, <1>7, <1>8 DEF Noticed

\* A request that is accepted stays in its place.
LEMMA AcceptedStaysRead == ASSUME IInv, IInv', TcpAccept PROVE readRequests' = readRequests
<1>1. /\ tcp_rx_req # <<>> /\ tcp_rx_req' = Tail(tcp_rx_req)
      /\ \E line : served' = Append(served, [sessionID |-> Head(tcp_rx_req).sessionID,
                                             length    |-> Head(tcp_rx_req).length, line |-> line])
  BY DEF TcpAccept, CanRead
<1>2. PICK s \in Nat, q \in Nat \ {0} : s = Len(served) /\ q = Len(tcp_rx_req)
  BY <1>1, ReadRequestsFacts, TailFacts
<1>3. /\ Len(served') = s + 1 /\ \A i \in 1 .. s : served'[i] = served[i]
      /\ served'[s + 1].sessionID = tcp_rx_req[1].sessionID
      /\ served'[s + 1].length = tcp_rx_req[1].length
  BY <1>1, <1>2, ReadRequestsFacts, TailFacts, AppendFacts
<1>4. /\ Len(tcp_rx_req') = q - 1 /\ \A i \in 1 .. q - 1 : tcp_rx_req'[i] = tcp_rx_req[i + 1]
  BY <1>1, <1>2, ReadRequestsFacts, TailFacts
<1>5. /\ Len(readRequests') = (s + 1) + (q - 1)
      /\ \A i \in 1 .. s + 1 : readRequests'[i] = [sessionID |-> served'[i].sessionID,
                                                  length    |-> served'[i].length]
      /\ \A i \in 1 .. q - 1 : readRequests'[(s + 1) + i] = tcp_rx_req'[i]
  BY <1>3, <1>4, ReadRequestsNext DEF ReadsAre
<1>6. Len(readRequests') = Len(readRequests)
  <2>1. (s + 1) + (q - 1) = s + q
    OBVIOUS
  <2> QED BY <1>2, <1>5, <2>1, ReadRequestsFacts DEF ReadsAre
<1>7. ASSUME NEW i \in 1 .. s + q PROVE readRequests'[i] = readRequests[i]
  <2>1. CASE i \in 1 .. s
    <3>1. i \in 1 .. s + 1
      BY <2>1
    <3>2. readRequests'[i] = [sessionID |-> served'[i].sessionID, length |-> served'[i].length]
      BY <1>5, <3>1
    <3>3. readRequests[i] = [sessionID |-> served[i].sessionID, length |-> served[i].length]
      BY <1>2, <2>1, ReadRequestsFacts DEF ReadsAre
    <3> QED BY <1>3, <2>1, <3>2, <3>3
  <2>2. CASE i = s + 1
    <3>1. tcp_rx_req[1] \in ReadRequest /\ 1 \in 1 .. q
      BY <1>2, ReadRequestsFacts DEF ReadsAre
    <3>2. tcp_rx_req[1] = [sessionID |-> tcp_rx_req[1].sessionID, length |-> tcp_rx_req[1].length]
      BY <3>1 DEF ReadRequest
    <3>3. readRequests'[s + 1] = tcp_rx_req[1]
      BY <1>3, <1>5, <3>2
    <3>4. readRequests[s + 1] = tcp_rx_req[1]
      BY <1>2, <3>1, ReadRequestsFacts DEF ReadsAre
    <3> QED BY <2>2, <3>3, <3>4
  <2>3. CASE i \in s + 2 .. s + q
    <3>1. PICK k \in 1 .. q - 1 : i = (s + 1) + k /\ i = s + (k + 1) /\ k + 1 \in 1 .. q
      <4>1. LET k == i - (s + 1) IN
              k \in 1 .. q - 1 /\ i = (s + 1) + k /\ i = s + (k + 1) /\ k + 1 \in 1 .. q
        BY <2>3
      <4> QED BY <4>1
    <3>2. readRequests'[(s + 1) + k] = tcp_rx_req'[k] /\ tcp_rx_req'[k] = tcp_rx_req[k + 1]
      BY <1>4, <1>5
    <3>3. readRequests[s + (k + 1)] = tcp_rx_req[k + 1]
      BY <1>2, <3>1, ReadRequestsFacts DEF ReadsAre
    <3> QED BY <3>1, <3>2, <3>3
  <2> QED BY <2>1, <2>2, <2>3
<1>8. /\ readRequests \in Seq(ReadRequest) /\ readRequests' \in Seq(ReadRequest)
      /\ Len(readRequests) = s + q
  BY <1>2, ReadRequestsFacts, ReadRequestsNext DEF ReadsAre
<1> QED BY <1>6, <1>7, <1>8

\* Every step keeps what was asked for in step with what was notified.
LEMMA NoticedStep ==
  ASSUME IInv, IInv', [Next]_vars, ServedAsNotified PROVE ServedAsNotified'
<1>1. PICK n \in Nat : Noticed(n)
  BY NoticedIsServed
<1>2. CASE TcpNotify
  BY <1>1, <1>2, NoticedTcpNotify, NoticedIsServedNext
<1>3. CASE SmNotificationEmpty
  BY <1>1, <1>3, NoticedEmpty, NoticedIsServedNext
<1>4. CASE SmNotificationData
  BY <1>1, <1>4, NoticedData, NoticedIsServedNext
<1>5. CASE TcpAccept
  <2>1. notified' = notified /\ tcp_notification' = tcp_notification
    BY <1>5 DEF TcpAccept
  <2> QED BY <1>1, <1>5, <2>1, AcceptedStaysRead, NoticedFrame, NoticedIsServedNext
<1>6. CASE ~(TcpNotify \/ SmNotificationEmpty \/ SmNotificationData \/ TcpAccept)
  <2>1. /\ notified' = notified /\ tcp_notification' = tcp_notification
        /\ served' = served /\ tcp_rx_req' = tcp_rx_req
    BY <1>6
    DEF Next, StateMachine, SmIdle, SmHandshake,
        SmDataHeadline, SmDataPayload, HeadlineParser, HpInputRead, HpParseMethod,
        HpExtractEndpoint, HpOutputWrite, RequestIssuer, PayloadParser, PpHeaderRead,
        PpHeaderWrite, PpBodyRead, PpBodyWrite, TcpDeliver, AppRequest, AppHeaders,
        AppBody, Poll, vars, tcpStack, tcpFifos
  <2>2. readRequests' = readRequests
    BY <2>1 DEF readRequests
  <2> QED BY <1>1, <2>1, <2>2, NoticedFrame, NoticedIsServedNext
<1> QED BY <1>2, <1>3, <1>4, <1>5, <1>6

\* The TCP stack is asked for the bytes of every notification that announces
\* some, in order, and for nothing else: closed connections are skipped.
THEOREM AskedAsNotified == Spec => []ServedAsNotified
<1>1. Init => IInv /\ ServedAsNotified
  <2> SUFFICES ASSUME Init PROVE IInv /\ ServedAsNotified
    OBVIOUS
  <2>1. IInv
    BY TypeInit, OrderInit DEF IInv
  <2>2. notified = <<>> /\ tcp_notification = <<>> /\ Len(readRequests) = 0
    BY <2>1, ReadRequestsFacts DEF Init, ReadsAre
  <2>3. AnnouncedUpTo(notified, 0) = 0
    BY AnnouncedFacts
  <2>4. Noticed(0)
    BY <2>2, <2>3 DEF Noticed
  <2> QED BY <2>1, <2>4, NoticedIsServed
<1>2. (IInv /\ ServedAsNotified) /\ [Next]_vars => (IInv /\ ServedAsNotified)'
  BY TypeStep, OrderStep, NoticedStep DEF IInv, OrderInv
<1> QED BY <1>1, <1>2, PTL DEF Spec

-----------------------------------------------------------------------------
(***************************************************************************)
(* What an application on the request path relies on: the invariant is     *)
(* kept whatever takes the requests, and a request taken is that of its    *)
(* transfer.                                                               *)
(***************************************************************************)

\* The inductive invariant is kept by every step, and by those of others.
LEMMA RxKept == ASSUME IInv, [Next]_vars PROVE IInv'
BY TypeStep, OrderStep DEF IInv, OrderInv

\* The steps in which no request is taken add transfers at the end at most.
RxOther ==
  \/ StateMachine \/ HeadlineParser \/ RequestIssuer \/ PayloadParser
  \/ TcpNotify \/ TcpAccept \/ TcpDeliver
  \/ AppHeaders \/ AppBody \/ Poll \/ UNCHANGED vars

\* Such a step takes no request, and no transfer changes.
LEMMA RxFrame ==
  ASSUME IInv, RxOther
  PROVE  /\ [Next]_vars
         /\ app'.requests = app.requests
         /\ \A i \in 1 .. Len(served) : served'[i] = served[i]
<1>1. [Next]_vars
  BY DEF RxOther, Next
<1>2. app'.requests = app.requests
  BY IInvFacts
  DEF RxOther, StateMachine, SmIdle, SmNotificationData, SmNotificationEmpty, SmHandshake,
      SmDataHeadline, SmDataPayload, HeadlineParser, HpInputRead, HpParseMethod,
      HpExtractEndpoint, HpOutputWrite, RequestIssuer, PayloadParser, PpHeaderRead,
      PpHeaderWrite, PpBodyRead, PpBodyWrite, TcpNotify, TcpAccept, TcpDeliver, AppHeaders,
      AppBody, Poll, vars, EnvironmentOK
<1>3. served' = served \/ \E m : served' = Append(served, m)
  <2>1. CASE TcpAccept
    BY <2>1 DEF TcpAccept
  <2>2. CASE ~TcpAccept
    BY <2>2
    DEF RxOther, StateMachine, SmIdle, SmNotificationData, SmNotificationEmpty, SmHandshake,
        SmDataHeadline, SmDataPayload, HeadlineParser, HpInputRead, HpParseMethod,
        HpExtractEndpoint, HpOutputWrite, RequestIssuer, PayloadParser, PpHeaderRead,
        PpHeaderWrite, PpBodyRead, PpBodyWrite, TcpNotify, TcpDeliver, AppHeaders,
        AppBody, Poll, vars, tcpStack
  <2> QED BY <2>1, <2>2
<1>4. served \in Seq(Transfer)
  BY IInvFacts DEF EnvironmentOK
<1> QED BY <1>1, <1>2, <1>3, <1>4, AppendFacts

\* A request that is taken is that of its transfer.
LEMMA RequestTaken ==
  ASSUME IInv, AppRequest
  PROVE  /\ [Next]_vars
         /\ served' = served
         /\ app.requests \in Seq(Request) /\ app'.requests = Append(app.requests, Head(http_request))
         /\ Len(app.requests) + 1 \in 1 .. Len(served)
         /\ Head(http_request).meta.sessionID = served[Len(app.requests) + 1].sessionID
         /\ Head(http_request).meta.sessionID \in Sessions
<1>1. [Next]_vars /\ served' = served
  BY DEF AppRequest, Next, tcpStack
<1>2. app.requests \in Seq(Request) /\ app'.requests = Append(app.requests, Head(http_request))
  BY IInvFacts DEF AppRequest, EnvironmentOK
<1>3. /\ http_request \in Seq(Request) /\ http_request # <<>>
      /\ Len(http_request) \in Nat \ {0} /\ Head(http_request) = http_request[1]
      /\ http_request[1] \in Request
  BY IInvFacts DEF AppRequest, AppFifosOK, IsFifo, CanRead
<1>4. http_request[1] = RequestFor(served[Len(app.requests) + 1])
  BY <1>3, IInvFacts DEF RequestsIssued, taken
<1>5. taken + Len(http_request) <= Len(served) /\ taken \in Nat
  <2>1. parsed <= read /\ issued <= parsed /\ issued = taken + Len(http_request)
    BY StageCounts, IInvFacts DEF parsed, read, issued
  <2>2. queued <= Len(served) /\ read <= queued
    BY StageCounts, IInvFacts DEF EveryTransferInOneStage, queued
  <2> QED BY <2>1, <2>2, StageCounts, IInvFacts
<1>6. Len(app.requests) + 1 \in 1 .. Len(served)
  BY <1>3, <1>5, StageCounts, IInvFacts DEF taken
<1> QED BY <1>1, <1>2, <1>3, <1>4, <1>6 DEF RequestFor, Request
=============================================================================
