------------------------ MODULE RequestPayloadProofs -------------------------
(***************************************************************************)
(* The payload side of the request path: the beats of headers and body     *)
(* between state_machine and the application, and with them the proof that *)
(* RequestProcessor implements RequestDelivery.                            *)
(***************************************************************************)
EXTENDS RequestProcessorProofs, Integers

-----------------------------------------------------------------------------
(***************************************************************************)
(* The order of payload beats.  trs are the transfers the TCP stack has    *)
(* accepted; a place is a transfer and a position in it, <<0, 0>> the one  *)
(* before the first transfer.                                              *)
(***************************************************************************)

BeatsOf(trs, n) == IF n = 0 THEN 0 ELSE BeatCount(trs[n].length)

\* No transfer strictly between n and m has a beat of payload.
Skipped(trs, n, m) == \A i \in n + 1 .. m - 1 : BeatsOf(trs, i) < 2

\* b is a beat behind the headline, as the TCP stack delivers it.
PayloadBeat(trs, b) ==
  /\ b.data.req \in 1 .. Len(trs)
  /\ b.data.pos \in 2 .. BeatsOf(trs, b.data.req)
  /\ b = BeatOf(trs[b.data.req], b.data.req, b.data.pos)

\* The beat j of transfer m is the first payload beat after the beat k of n.
Follows(trs, n, k, m, j) ==
  \/ m = n /\ j = k + 1
  \/ n < m /\ j = 2 /\ k = BeatsOf(trs, n) /\ Skipped(trs, n, m)

\* The beat k of n is the last payload beat among the first d of the latest
\* transfer and all beats of the others.
AtCursor(trs, n, k, d) ==
  \/ d >= 2 /\ n = Len(trs) /\ k = d
  \/ /\ d < 2 /\ (n = 0 \/ n < Len(trs))
     /\ k = BeatsOf(trs, n) /\ Skipped(trs, n, Len(trs))

\* The place before the i-th beat of q, if q starts behind the beat k of n.
ReqBefore(q, n, i) == IF i = 1 THEN n ELSE q[i - 1].data.req
PosBefore(q, k, i) == IF i = 1 THEN k ELSE q[i - 1].data.pos

\* q holds all payload beats behind the beat k of n, in order, that are among
\* the first d of the latest transfer or belong to another.
Chain(trs, q, n, k, d) ==
  /\ \A i \in 1 .. Len(q) :
       /\ PayloadBeat(trs, q[i])
       /\ Follows(trs, ReqBefore(q, n, i), PosBefore(q, k, i), q[i].data.req, q[i].data.pos)
  /\ AtCursor(trs, ReqBefore(q, n, Len(q) + 1), PosBefore(q, k, Len(q) + 1), d)

-----------------------------------------------------------------------------
(***************************************************************************)
(* The invariant                                                           *)
(***************************************************************************)

\* The latest transfer whose headers, and whose body, have been offered.
latestHeaders == Delivery!LatestReq(offeredHeaders)
latestBody    == Delivery!LatestReq(offeredBody)

\* Beats of the latest transfer that state_machine has taken.
drawn == BeatsOf(served, Len(served)) - rx_left - Len(tcp_rx_data)

\* The bodies of the transfers up to m have been offered, and no others.
BodiesUpTo(m) ==
  /\ offeredBody = <<>> \/ offeredBody[Len(offeredBody)].last
  /\ latestBody <= m
  /\ \A i \in latestBody + 1 .. m : BeatsOf(served, i) < 3

\* So have the beats of n up to the k-th.
BodyReached(n, k) ==
  IF k = 2 THEN BodiesUpTo(n - 1)
           ELSE offeredBody # <<>> /\ offeredBody[Len(offeredBody)] = BeatOf(served[n], n, k)

PayloadBehind(n, k) == Chain(served, payload_in, n, k, drawn)

\* What req_payload_parser has offered, what it holds and what waits for it are
\* consecutive, in each of its four states.
AwaitsHeaders ==
  pp.state = "HEADER_READ" =>
    /\ BodiesUpTo(latestHeaders)
    /\ PayloadBehind(latestHeaders, BeatsOf(served, latestHeaders))
HoldsHeaders ==
  pp.state = "HEADER_WRITE" =>
    /\ PayloadBeat(served, pp.line)
    /\ Follows(served, latestHeaders, BeatsOf(served, latestHeaders),
               pp.line.data.req, pp.line.data.pos)
    /\ BodiesUpTo(latestHeaders)
    /\ PayloadBehind(pp.line.data.req, pp.line.data.pos)
AwaitsBody ==
  pp.state = "BODY_READ" =>
    /\ pp.line \in Beat /\ latestHeaders # 0 /\ pp.line.data.req = latestHeaders
    /\ pp.line.data.pos \in 2 .. BeatsOf(served, latestHeaders) - 1
    /\ BodyReached(latestHeaders, pp.line.data.pos)
    /\ PayloadBehind(latestHeaders, pp.line.data.pos)
HoldsBody ==
  pp.state = "BODY_WRITE" =>
    /\ PayloadBeat(served, pp.line)
    /\ pp.line.data.req = latestHeaders /\ pp.line.data.pos >= 3
    /\ BodyReached(latestHeaders, pp.line.data.pos - 1)
    /\ PayloadBehind(latestHeaders, pp.line.data.pos)

HeadlineDrawn == sm.state = "DATA_PAYLOAD" => drawn >= 1
LatestKnown   == latestHeaders \in 0 .. Len(served) /\ latestBody \in 0 .. Len(served)

PayloadInv ==
  HeadlineDrawn /\ LatestKnown /\ AwaitsHeaders /\ HoldsHeaders /\ AwaitsBody /\ HoldsBody

-----------------------------------------------------------------------------
(***************************************************************************)
(* Facts about chains, for any sequence of transfers.                      *)
(***************************************************************************)

\* The beats of a transfer are counted, one at least.
LEMMA BeatsOfType ==
  ASSUME NEW trs \in Seq(Transfer), NEW n \in 0 .. Len(trs)
  PROVE  BeatsOf(trs, n) \in Nat /\ (n # 0 => BeatsOf(trs, n) > 0)
<1>1. CASE n = 0
  BY <1>1 DEF BeatsOf
<1>2. CASE n # 0
  <2>1. trs[n] \in Transfer
    BY <1>2
  <2>2. trs[n].length \in Nat \ {0}
    BY <2>1, LengthsAssumption DEF Transfer
  <2> QED BY <1>2, <2>2, BeatCountPositive DEF BeatsOf
<1> QED BY <1>1, <1>2

\* Another transfer changes nothing for those before it.
LEMMA ServedGrows ==
  ASSUME NEW trs \in Seq(Transfer), NEW t \in Transfer
  PROVE  LET more == Append(trs, t) IN
         /\ more \in Seq(Transfer) /\ Len(more) = Len(trs) + 1 /\ Len(trs) \in Nat
         /\ \A i \in 0 .. Len(trs) : BeatsOf(more, i) = BeatsOf(trs, i)
         /\ \A i \in 1 .. Len(trs) : more[i] = trs[i]
BY DEF BeatsOf

\* A beat stays one of its transfer when another is served.
LEMMA PayloadBeatKept ==
  ASSUME NEW trs \in Seq(Transfer), NEW t \in Transfer, NEW b, PayloadBeat(trs, b)
  PROVE  PayloadBeat(Append(trs, t), b)
<1>1. /\ Len(Append(trs, t)) = Len(trs) + 1 /\ Len(trs) \in Nat
      /\ BeatsOf(Append(trs, t), b.data.req) = BeatsOf(trs, b.data.req)
      /\ Append(trs, t)[b.data.req] = trs[b.data.req]
  BY ServedGrows DEF PayloadBeat
<1>2. b.data.req \in 1 .. Len(Append(trs, t))
  BY <1>1 DEF PayloadBeat
<1> QED BY <1>1, <1>2 DEF PayloadBeat

\* So does the order of two beats.
LEMMA FollowsKept ==
  ASSUME NEW trs \in Seq(Transfer), NEW t \in Transfer,
         NEW n \in 0 .. Len(trs), NEW k, NEW m \in 0 .. Len(trs), NEW j,
         Follows(trs, n, k, m, j)
  PROVE  Follows(Append(trs, t), n, k, m, j)
<1>1. /\ Len(trs) \in Nat
      /\ \A i \in 0 .. Len(trs) : BeatsOf(Append(trs, t), i) = BeatsOf(trs, i)
  BY ServedGrows
<1>2. \A i \in n + 1 .. m - 1 : i \in 0 .. Len(trs)
  BY <1>1
<1>3. Skipped(trs, n, m) => Skipped(Append(trs, t), n, m)
  BY <1>1, <1>2 DEF Skipped
<1> QED BY <1>1, <1>3 DEF Follows

\* Once all beats of the latest transfer are drawn, the next one starts behind.
LEMMA CursorServed ==
  ASSUME NEW trs \in Seq(Transfer), NEW t \in Transfer, NEW n \in 0 .. Len(trs), NEW k,
         AtCursor(trs, n, k, BeatsOf(trs, Len(trs)))
  PROVE  AtCursor(Append(trs, t), n, k, 0)
<1> DEFINE N == Len(trs)
<1>1. /\ N \in Nat /\ Len(Append(trs, t)) = N + 1
      /\ \A i \in 0 .. N : BeatsOf(Append(trs, t), i) = BeatsOf(trs, i)
  BY ServedGrows
<1>2. k = BeatsOf(trs, n)
  BY DEF AtCursor
<1>3. \A i \in n + 1 .. N : BeatsOf(trs, i) < 2
  <2>1. CASE BeatsOf(trs, N) >= 2
    <3>1. n = N
      <4>1. BeatsOf(trs, N) \in Nat
        BY <1>1, BeatsOfType
      <4> QED BY <2>1, <4>1 DEF AtCursor
    <3> QED BY <1>1, <3>1
  <2>2. CASE ~(BeatsOf(trs, N) >= 2)
    <3>1. BeatsOf(trs, N) \in Nat
      BY <1>1, BeatsOfType
    <3>2. BeatsOf(trs, N) < 2 /\ Skipped(trs, n, N)
      BY <2>2, <3>1 DEF AtCursor
    <3>3. \A i \in n + 1 .. N : i \in n + 1 .. N - 1 \/ i = N
      BY <1>1
    <3> QED BY <3>2, <3>3 DEF Skipped
  <2> QED BY <2>1, <2>2
<1>4. Skipped(Append(trs, t), n, N + 1)
  <2>1. \A i \in n + 1 .. (N + 1) - 1 : i \in n + 1 .. N /\ i \in 0 .. N
    BY <1>1
  <2> QED BY <1>1, <1>3, <2>1 DEF Skipped
<1>5. BeatsOf(Append(trs, t), n) = BeatsOf(trs, n)
  BY <1>1
<1>6. n < N + 1
  BY <1>1
<1> QED BY <1>1, <1>2, <1>4, <1>5, <1>6 DEF AtCursor

\* A chain that has ended goes on with the transfer that is served next.
LEMMA ChainServed ==
  ASSUME NEW trs \in Seq(Transfer), NEW t \in Transfer, NEW q \in Seq(Beat),
         NEW n \in 0 .. Len(trs), NEW k,
         Chain(trs, q, n, k, BeatsOf(trs, Len(trs)))
  PROVE  Chain(Append(trs, t), q, n, k, 0)
<1>1. Len(trs) \in Nat /\ Len(q) \in Nat
  OBVIOUS
<1>2. ASSUME NEW i \in 1 .. Len(q)
      PROVE  PayloadBeat(Append(trs, t), q[i]) /\ q[i].data.req \in 0 .. Len(trs)
  <2>1. PayloadBeat(trs, q[i])
    BY DEF Chain
  <2>2. q[i].data.req \in 1 .. Len(trs)
    BY <2>1 DEF PayloadBeat
  <2> QED BY <1>1, <2>1, <2>2, PayloadBeatKept
<1>3. ASSUME NEW i \in 1 .. Len(q) + 1 PROVE ReqBefore(q, n, i) \in 0 .. Len(trs)
  <2>1. CASE i = 1
    BY <2>1 DEF ReqBefore
  <2>2. CASE i # 1
    <3>1. i - 1 \in 1 .. Len(q)
      BY <1>1, <2>2
    <3> QED BY <1>2, <2>2, <3>1 DEF ReqBefore
  <2> QED BY <2>1, <2>2
<1>4. ASSUME NEW i \in 1 .. Len(q)
      PROVE  Follows(Append(trs, t), ReqBefore(q, n, i), PosBefore(q, k, i),
                     q[i].data.req, q[i].data.pos)
  <2>1. i \in 1 .. Len(q) + 1
    BY <1>1
  <2>2. Follows(trs, ReqBefore(q, n, i), PosBefore(q, k, i), q[i].data.req, q[i].data.pos)
    BY DEF Chain
  <2> QED BY <1>2, <1>3, <2>1, <2>2, FollowsKept
<1>5. AtCursor(Append(trs, t), ReqBefore(q, n, Len(q) + 1), PosBefore(q, k, Len(q) + 1), 0)
  <2>1. Len(q) + 1 \in 1 .. Len(q) + 1
    BY <1>1
  <2> QED BY <1>3, <2>1, CursorServed DEF Chain
<1> QED BY <1>2, <1>4, <1>5 DEF Chain

\* Taking the headline of a transfer draws no payload.
LEMMA ChainHeadline ==
  ASSUME NEW trs, NEW q, NEW n, NEW k, Chain(trs, q, n, k, 0)
  PROVE  Chain(trs, q, n, k, 1)
BY DEF Chain, AtCursor

\* A chain without its first beat is one behind that beat.
LEMMA ChainHead ==
  ASSUME NEW trs, NEW q \in Seq(Beat), NEW n, NEW k, NEW d, q # <<>>,
         Chain(trs, q, n, k, d)
  PROVE  LET b == Head(q) IN
         /\ PayloadBeat(trs, b) /\ Follows(trs, n, k, b.data.req, b.data.pos)
         /\ Chain(trs, Tail(q), b.data.req, b.data.pos, d)
<1> DEFINE b == Head(q)
           r == Tail(q)
<1>1. /\ Len(q) \in Nat \ {0} /\ b = q[1] /\ Len(r) = Len(q) - 1
      /\ \A i \in 1 .. Len(q) - 1 : r[i] = q[i + 1]
  BY TailFacts
<1> HIDE DEF b, r
<1>2. 1 \in 1 .. Len(q)
  BY <1>1
<1>3. PayloadBeat(trs, b) /\ Follows(trs, n, k, b.data.req, b.data.pos)
  BY <1>1, <1>2 DEF Chain, ReqBefore, PosBefore
<1>4. ASSUME NEW i \in 1 .. Len(q)
      PROVE  /\ ReqBefore(r, b.data.req, i) = ReqBefore(q, n, i + 1)
             /\ PosBefore(r, b.data.pos, i) = PosBefore(q, k, i + 1)
  <2>1. CASE i = 1
    BY <1>1, <2>1 DEF ReqBefore, PosBefore
  <2>2. CASE i # 1
    <3>1. i - 1 \in 1 .. Len(q) - 1 /\ i + 1 # 1 /\ (i - 1) + 1 = (i + 1) - 1
      BY <1>1, <2>2
    <3>2. r[i - 1] = q[(i + 1) - 1]
      BY <1>1, <3>1
    <3> QED BY <2>2, <3>1, <3>2 DEF ReqBefore, PosBefore
  <2> QED BY <2>1, <2>2
<1>5. ASSUME NEW i \in 1 .. Len(r)
      PROVE  /\ PayloadBeat(trs, r[i])
             /\ Follows(trs, ReqBefore(r, b.data.req, i), PosBefore(r, b.data.pos, i),
                        r[i].data.req, r[i].data.pos)
  <2>1. i \in 1 .. Len(q) /\ i + 1 \in 1 .. Len(q) /\ r[i] = q[i + 1]
    BY <1>1
  <2> QED BY <1>4, <2>1 DEF Chain
<1>6. AtCursor(trs, ReqBefore(r, b.data.req, Len(r) + 1), PosBefore(r, b.data.pos, Len(r) + 1), d)
  <2>1. Len(r) + 1 = Len(q) /\ Len(q) \in 1 .. Len(q)
    BY <1>1
  <2> QED BY <1>4, <2>1 DEF Chain
<1>7. Chain(trs, r, b.data.req, b.data.pos, d)
  BY <1>5, <1>6 DEF Chain
<1> QED BY <1>3, <1>7 DEF b, r

\* The next beat of the latest transfer joins the chain at its end.
LEMMA ChainAppend ==
  ASSUME NEW trs \in Seq(Transfer), NEW q \in Seq(Beat), NEW n, NEW k, NEW d \in Nat \ {0},
         NEW b \in Beat, PayloadBeat(trs, b),
         b.data.req = Len(trs), b.data.pos = d + 1,
         Chain(trs, q, n, k, d)
  PROVE  Chain(trs, Append(q, b), n, k, d + 1)
<1> DEFINE e == Append(q, b)
           N == Len(trs)
           L == Len(q)
<1>1. /\ L \in Nat /\ Len(e) = L + 1 /\ N \in Nat \ {0}
      /\ \A i \in 1 .. L : e[i] = q[i]
      /\ e[L + 1] = b
  BY AppendFacts DEF PayloadBeat
<1> HIDE DEF e
<1>2. ASSUME NEW i \in 1 .. L + 1
      PROVE  ReqBefore(e, n, i) = ReqBefore(q, n, i) /\ PosBefore(e, k, i) = PosBefore(q, k, i)
  <2>1. i # 1 => i - 1 \in 1 .. L
    BY <1>1
  <2> QED BY <1>1, <2>1 DEF ReqBefore, PosBefore
<1>3. Follows(trs, ReqBefore(q, n, L + 1), PosBefore(q, k, L + 1), N, d + 1)
  <2> DEFINE r == ReqBefore(q, n, L + 1)
             p == PosBefore(q, k, L + 1)
  <2>1. AtCursor(trs, r, p, d)
    BY DEF Chain
  <2> HIDE DEF r, p
  <2>2. ASSUME d >= 2 PROVE Follows(trs, r, p, N, d + 1)
    BY <2>1, <2>2 DEF AtCursor, Follows
  <2>3. ASSUME d = 1 PROVE Follows(trs, r, p, N, d + 1)
    BY <1>1, <2>1, <2>3 DEF AtCursor, Follows
  <2>4. Follows(trs, r, p, N, d + 1)
    BY <2>2, <2>3
  <2> QED BY <2>4 DEF r, p
<1>4. ASSUME NEW i \in 1 .. L + 1
      PROVE  /\ PayloadBeat(trs, e[i])
             /\ Follows(trs, ReqBefore(e, n, i), PosBefore(e, k, i), e[i].data.req, e[i].data.pos)
  <2>1. CASE i = L + 1
    BY <1>1, <1>2, <1>3, <2>1
  <2>2. CASE i # L + 1
    <3>1. i \in 1 .. L /\ e[i] = q[i]
      BY <1>1, <2>2
    <3> QED BY <1>2, <3>1 DEF Chain
  <2> QED BY <2>1, <2>2
<1>5. AtCursor(trs, ReqBefore(e, n, Len(e) + 1), PosBefore(e, k, Len(e) + 1), d + 1)
  <2>1. ReqBefore(e, n, Len(e) + 1) = N /\ PosBefore(e, k, Len(e) + 1) = d + 1
    BY <1>1 DEF ReqBefore, PosBefore
  <2>2. d + 1 >= 2
    OBVIOUS
  <2> QED BY <2>1, <2>2 DEF AtCursor
<1> QED BY <1>1, <1>4, <1>5 DEF Chain, e

-----------------------------------------------------------------------------
(***************************************************************************)
(* What the state machines hold                                            *)
(***************************************************************************)

PInv == IInv /\ PayloadInv

\* What has been offered, and taken, are beats.
LEMMA OfferedType ==
  ASSUME IInv
  PROVE  /\ offeredHeaders \in Seq(Beat) /\ offeredBody \in Seq(Beat)
         /\ app.headers \in Seq(Beat) /\ app.body \in Seq(Beat)
         /\ http_request_headers \in Seq(Beat) /\ http_request_body \in Seq(Beat)
<1>1. /\ app.headers \in Seq(Beat) /\ app.body \in Seq(Beat)
      /\ http_request_headers \in Seq(Beat) /\ http_request_body \in Seq(Beat)
  BY IInvFacts DEF EnvironmentOK, AppFifosOK, IsFifo
<1> QED BY <1>1 DEF offeredHeaders, offeredBody

\* A beat that joins one end of a stream, and one that crosses from the FIFO to
\* what the application has taken.
LEMMA StreamFacts ==
  ASSUME NEW S, NEW s \in Seq(S), NEW t \in Seq(S)
  PROVE  /\ \A e \in S : s \o Append(t, e) = Append(s \o t, e)
         /\ t # <<>> => Append(s, Head(t)) \o Tail(t) = s \o t
<1>1. ASSUME NEW e \in S PROVE s \o Append(t, e) = Append(s \o t, e)
  OBVIOUS
<1>2. ASSUME t # <<>> PROVE Append(s, Head(t)) \o Tail(t) = s \o t
  BY <1>2
<1> QED BY <1>1, <1>2

\* How many beats of the latest transfer have been drawn.
LEMMA DrawnFacts ==
  ASSUME IInv
  PROVE  /\ Len(served) \in Nat /\ served \in Seq(Transfer)
         /\ rx_left \in Nat /\ Len(tcp_rx_data) \in Nat
         /\ BeatsOf(served, Len(served)) \in Nat
         /\ served # <<>> =>
              BeatsOf(served, Len(served)) = BeatCount(served[Len(served)].length)
         /\ drawn \in Int
         /\ Awaited => drawn = 0 /\ served # <<>>
         /\ tcp_rx_req # <<>> => drawn = BeatsOf(served, Len(served))
<1>1. /\ Len(served) \in Nat /\ served \in Seq(Transfer)
      /\ rx_left \in Nat /\ Len(tcp_rx_data) \in Nat
  BY IInvFacts DEF EnvironmentOK, TcpFifosOK, IsFifo
<1>2. BeatsOf(served, Len(served)) \in Nat
  BY <1>1, BeatsOfType
<1>3. served # <<>> => BeatsOf(served, Len(served)) = BeatCount(served[Len(served)].length)
  BY <1>1 DEF BeatsOf
<1>4. drawn \in Int
  BY <1>1, <1>2 DEF drawn
<1>5. ASSUME Awaited PROVE drawn = 0 /\ served # <<>>
  <2>1. served # <<>>
    BY <1>5, StageCounts, IInvFacts DEF EveryTransferInOneStage
  <2>2. Len(tcp_rx_data) + rx_left = BeatsOf(served, Len(served))
    BY <1>3, <1>5, <2>1, IInvFacts DEF BeatsInFlight
  <2> QED BY <1>1, <1>2, <2>1, <2>2 DEF drawn
<1>6. ASSUME tcp_rx_req # <<>> PROVE drawn = BeatsOf(served, Len(served))
  <2>1. Len(tcp_rx_data) = 0 /\ rx_left = 0
    BY <1>6, IInvFacts DEF OneTransferAtATime, SmOK
  <2> QED BY <1>1, <1>2, <2>1 DEF drawn
<1> QED BY <1>1, <1>2, <1>3, <1>4, <1>5, <1>6

\* No beat yet.
LEMMA PayloadInit == Init => PayloadInv
<1> SUFFICES ASSUME Init PROVE PayloadInv
  OBVIOUS
<1>1. /\ served = <<>> /\ payload_in = <<>> /\ rx_left = 0 /\ tcp_rx_data = <<>>
      /\ sm.state = "IDLE" /\ pp.state = "HEADER_READ"
      /\ offeredHeaders = <<>> /\ offeredBody = <<>>
  BY DEF Init, offeredHeaders, offeredBody
<1>2. Len(served) = 0 /\ Len(payload_in) = 0 /\ Len(tcp_rx_data) = 0
  BY <1>1
<1>3. latestHeaders = 0 /\ latestBody = 0 /\ BeatsOf(served, 0) = 0 /\ drawn = 0
  BY <1>1, <1>2 DEF latestHeaders, latestBody, Delivery!LatestReq, BeatsOf, drawn
<1>4. PayloadBehind(0, 0)
  BY <1>2, <1>3 DEF PayloadBehind, Chain, AtCursor, Skipped, ReqBefore, PosBefore
<1>5. BodiesUpTo(0)
  BY <1>1, <1>3 DEF BodiesUpTo
<1> QED
  BY <1>1, <1>2, <1>3, <1>4, <1>5
  DEF PayloadInv, HeadlineDrawn, LatestKnown, AwaitsHeaders, HoldsHeaders, AwaitsBody, HoldsBody

\* A step that leaves req_payload_parser and its outputs alone preserves the
\* invariant if it keeps the chain behind it.
LEMMA ParserFrame ==
  ASSUME PInv, pp' = pp, offeredHeaders' = offeredHeaders, offeredBody' = offeredBody,
         served' = served \/ \E t \in Transfer : served' = Append(served, t),
         \A n \in 0 .. Len(served), k \in Nat :
           Chain(served, payload_in, n, k, drawn) => Chain(served', payload_in', n, k, drawn'),
         HeadlineDrawn'
  PROVE  PayloadInv'
<1>1. /\ latestHeaders' = latestHeaders /\ latestBody' = latestBody
      /\ latestHeaders \in 0 .. Len(served) /\ latestBody \in 0 .. Len(served)
  BY DEF PInv, PayloadInv, LatestKnown, latestHeaders, latestBody, Delivery!LatestReq
<1>2. served \in Seq(Transfer) /\ Len(served) \in Nat
  BY DrawnFacts DEF PInv
<1>3. /\ Len(served') \in Nat /\ Len(served') >= Len(served)
      /\ \A i \in 0 .. Len(served) : BeatsOf(served', i) = BeatsOf(served, i)
      /\ \A i \in 1 .. Len(served) : served'[i] = served[i]
  <2>1. CASE served' = served
    BY <1>2, <2>1
  <2>2. CASE \E t \in Transfer : served' = Append(served, t)
    BY <1>2, <2>2, ServedGrows
  <2> QED BY <2>1, <2>2
<1>4. \A b : PayloadBeat(served, b) => PayloadBeat(served', b)
  BY <1>2, PayloadBeatKept
<1>5. \A n, m \in 0 .. Len(served) : \A k, j :
        Follows(served, n, k, m, j) => Follows(served', n, k, m, j)
  BY <1>2, FollowsKept
<1>6. \A m \in 0 .. Len(served) : BodiesUpTo(m) => BodiesUpTo(m)'
  <2> SUFFICES ASSUME NEW m \in 0 .. Len(served), BodiesUpTo(m) PROVE BodiesUpTo(m)'
    OBVIOUS
  <2>1. \A i \in latestBody + 1 .. m : i \in 0 .. Len(served)
    BY <1>1, <1>2
  <2> QED BY <1>1, <1>3, <2>1 DEF BodiesUpTo
<1>7. \A n \in 1 .. Len(served) : \A k : BodyReached(n, k) => BodyReached(n, k)'
  <2> SUFFICES ASSUME NEW n \in 1 .. Len(served), NEW k, BodyReached(n, k)
               PROVE  BodyReached(n, k)'
    OBVIOUS
  <2>1. n - 1 \in 0 .. Len(served)
    BY <1>2
  <2> QED BY <1>3, <1>6, <2>1 DEF BodyReached
<1>8. \A n \in 0 .. Len(served), k \in Nat : PayloadBehind(n, k) => PayloadBehind(n, k)'
  BY DEF PayloadBehind
<1>9. BeatsOf(served, latestHeaders) \in Nat
  BY <1>1, <1>2, BeatsOfType
<1>10. LatestKnown'
  BY <1>1, <1>2, <1>3 DEF LatestKnown
<1>11. AwaitsHeaders'
  <2> SUFFICES ASSUME pp.state = "HEADER_READ"
               PROVE  /\ BodiesUpTo(latestHeaders)'
                      /\ PayloadBehind(latestHeaders, BeatsOf(served, latestHeaders))'
    BY DEF AwaitsHeaders
  <2>1. /\ BodiesUpTo(latestHeaders)
        /\ PayloadBehind(latestHeaders, BeatsOf(served, latestHeaders))
    BY DEF PInv, PayloadInv, AwaitsHeaders
  <2>2. latestHeaders \in 0 .. Len(served)
    BY <1>1
  <2>3. BodiesUpTo(latestHeaders)'
    BY <1>1, <1>6, <2>1, <2>2 DEF BodiesUpTo
  <2>4. PayloadBehind(latestHeaders, BeatsOf(served, latestHeaders))'
    BY <1>1, <1>3, <1>8, <1>9, <2>1 DEF PayloadBehind
  <2> QED BY <2>3, <2>4
<1>12. HoldsHeaders'
  <2> DEFINE n == pp.line.data.req
             k == pp.line.data.pos
  <2> SUFFICES ASSUME pp.state = "HEADER_WRITE"
               PROVE  /\ PayloadBeat(served', pp.line)
                      /\ Follows(served', latestHeaders, BeatsOf(served', latestHeaders), n, k)
                      /\ BodiesUpTo(latestHeaders)'
                      /\ Chain(served', payload_in', n, k, drawn')
    BY <1>1 DEF HoldsHeaders, PayloadBehind
  <2>1. /\ PayloadBeat(served, pp.line)
        /\ Follows(served, latestHeaders, BeatsOf(served, latestHeaders), n, k)
        /\ BodiesUpTo(latestHeaders) /\ PayloadBehind(n, k)
    BY DEF PInv, PayloadInv, HoldsHeaders
  <2>2. n \in 0 .. Len(served) /\ n \in 1 .. Len(served)
    BY <1>2, <2>1 DEF PayloadBeat
  <2>3. k \in Nat
    BY <2>1, <2>2, <1>2, BeatsOfType DEF PayloadBeat
  <2> HIDE DEF n, k
  <2>4. BodiesUpTo(latestHeaders)'
    BY <1>1, <1>6, <2>1 DEF BodiesUpTo
  <2>5. Follows(served', latestHeaders, BeatsOf(served', latestHeaders), n, k)
    BY <1>1, <1>3, <1>5, <2>1, <2>2
  <2>6. Chain(served', payload_in', n, k, drawn')
    BY <1>8, <2>1, <2>2, <2>3 DEF PayloadBehind
  <2> QED BY <1>4, <2>1, <2>4, <2>5, <2>6
<1>13. AwaitsBody'
  <2> DEFINE k == pp.line.data.pos
  <2> SUFFICES ASSUME pp.state = "BODY_READ"
               PROVE  /\ pp.line \in Beat /\ latestHeaders # 0
                      /\ pp.line.data.req = latestHeaders
                      /\ k \in 2 .. BeatsOf(served', latestHeaders) - 1
                      /\ BodyReached(latestHeaders, pp.line.data.pos)'
                      /\ Chain(served', payload_in', latestHeaders, k, drawn')
    BY <1>1 DEF AwaitsBody, PayloadBehind
  <2>1. /\ pp.line \in Beat /\ latestHeaders # 0 /\ pp.line.data.req = latestHeaders
        /\ k \in 2 .. BeatsOf(served, latestHeaders) - 1
        /\ BodyReached(latestHeaders, k) /\ PayloadBehind(latestHeaders, k)
    BY DEF PInv, PayloadInv, AwaitsBody
  <2>2. k \in Nat /\ latestHeaders \in 1 .. Len(served)
    BY <1>1, <1>2, <1>9, <2>1
  <2>3. BodyReached(latestHeaders, pp.line.data.pos)'
    BY <1>1, <1>7, <2>1, <2>2 DEF BodyReached, BodiesUpTo
  <2> HIDE DEF k
  <2>4. Chain(served', payload_in', latestHeaders, k, drawn')
    BY <1>1, <1>8, <2>1, <2>2 DEF PayloadBehind
  <2> QED BY <1>1, <1>3, <2>1, <2>3, <2>4
<1>14. HoldsBody'
  <2> DEFINE k == pp.line.data.pos
  <2> SUFFICES ASSUME pp.state = "BODY_WRITE"
               PROVE  /\ PayloadBeat(served', pp.line)
                      /\ pp.line.data.req = latestHeaders /\ k >= 3
                      /\ BodyReached(latestHeaders, pp.line.data.pos - 1)'
                      /\ Chain(served', payload_in', latestHeaders, k, drawn')
    BY <1>1 DEF HoldsBody, PayloadBehind
  <2>1. /\ PayloadBeat(served, pp.line)
        /\ pp.line.data.req = latestHeaders /\ k >= 3
        /\ BodyReached(latestHeaders, k - 1) /\ PayloadBehind(latestHeaders, k)
    BY DEF PInv, PayloadInv, HoldsBody
  <2>2. k \in Nat /\ latestHeaders \in 1 .. Len(served)
    BY <1>1, <1>2, <1>9, <2>1 DEF PayloadBeat
  <2>3. BodyReached(latestHeaders, pp.line.data.pos - 1)'
    BY <1>1, <1>7, <2>1, <2>2 DEF BodyReached, BodiesUpTo
  <2> HIDE DEF k
  <2>4. Chain(served', payload_in', latestHeaders, k, drawn')
    BY <1>1, <1>8, <2>1, <2>2 DEF PayloadBehind
  <2> QED BY <1>4, <2>1, <2>3, <2>4
<1> QED BY <1>10, <1>11, <1>12, <1>13, <1>14 DEF PayloadInv

-----------------------------------------------------------------------------
(***************************************************************************)
(* One lemma per action                                                    *)
(***************************************************************************)

\* Steps that neither take a beat nor touch the payload.
LEMMA PayloadAside ==
  ASSUME PInv, pp' = pp, payload_in' = payload_in, served' = served,
         offeredHeaders' = offeredHeaders, offeredBody' = offeredBody,
         drawn' = drawn, sm'.state = "DATA_PAYLOAD" => sm.state = "DATA_PAYLOAD"
  PROVE  PayloadInv'
<1>1. HeadlineDrawn'
  BY DEF PInv, PayloadInv, HeadlineDrawn
<1>2. \A n \in 0 .. Len(served), k \in Nat :
        Chain(served, payload_in, n, k, drawn) => Chain(served', payload_in', n, k, drawn')
  OBVIOUS
<1> QED BY <1>1, <1>2, ParserFrame

\* The states of state_machine before the beats move none of them.
LEMMA PayloadSmHandshake ==
  ASSUME PInv, SmIdle \/ SmNotificationData \/ SmNotificationEmpty \/ SmHandshake
  PROVE  PayloadInv'
<1>1. sm'.state # "DATA_PAYLOAD"
  BY IInvFacts DEF PInv, SmOK, SmIdle, SmNotificationData, SmNotificationEmpty, SmHandshake
<1>2. /\ pp' = pp /\ payload_in' = payload_in /\ served' = served
      /\ rx_left' = rx_left /\ tcp_rx_data' = tcp_rx_data /\ app' = app
      /\ http_request_headers' = http_request_headers /\ http_request_body' = http_request_body
  BY DEF SmIdle, SmNotificationData, SmNotificationEmpty, SmHandshake,
         tcpFifos, inFifos, appFifos, tcpStack
<1>3. offeredHeaders' = offeredHeaders /\ offeredBody' = offeredBody /\ drawn' = drawn
  BY <1>2 DEF offeredHeaders, offeredBody, drawn
<1> QED BY <1>1, <1>2, <1>3, PayloadAside

\* The step takes a beat of the latest transfer.
LEMMA BeatDrawn ==
  ASSUME PInv, tcp_rx_data # <<>>, tcp_rx_data' = Tail(tcp_rx_data),
         rx_left' = rx_left, served' = served
  PROVE  drawn' = drawn + 1
<1>1. Len(tcp_rx_data) \in Nat \ {0} /\ Len(tcp_rx_data') = Len(tcp_rx_data) - 1
  BY TailFacts, IInvFacts DEF PInv, TcpFifosOK, IsFifo
<1> QED BY <1>1, DrawnFacts DEF PInv, drawn

\* The first beat of a transfer goes to the headline parser and to the payload
\* parser.
LEMMA PayloadSmDataHeadline == ASSUME PInv, SmDataHeadline PROVE PayloadInv'
<1>1. /\ sm.state = "DATA_HEADLINE" /\ tcp_rx_data # <<>> /\ tcp_rx_data' = Tail(tcp_rx_data)
  BY DEF SmDataHeadline, CanRead
<1>2. /\ pp' = pp /\ payload_in' = payload_in /\ served' = served /\ rx_left' = rx_left
      /\ app' = app
      /\ http_request_headers' = http_request_headers /\ http_request_body' = http_request_body
  BY DEF SmDataHeadline, inFifos, appFifos, tcpStack
<1>3. offeredHeaders' = offeredHeaders /\ offeredBody' = offeredBody
  BY <1>2 DEF offeredHeaders, offeredBody
<1>4. drawn = 0
  BY <1>1, DrawnFacts DEF PInv, Awaited
<1>5. drawn' = 1
  BY <1>1, <1>2, <1>4, BeatDrawn
<1>6. HeadlineDrawn'
  BY <1>5 DEF HeadlineDrawn
<1>7. \A n \in 0 .. Len(served), k \in Nat :
        Chain(served, payload_in, n, k, drawn) => Chain(served', payload_in', n, k, drawn')
  BY <1>2, <1>4, <1>5, ChainHeadline
<1> QED BY <1>2, <1>3, <1>6, <1>7, ParserFrame

\* The next beats go to the payload parser.
LEMMA PayloadSmDataPayload == ASSUME PInv, SmDataPayload PROVE PayloadInv'
<1> DEFINE raw == Head(tcp_rx_data)
           m   == served[Len(served)]
<1>1. /\ sm.state = "DATA_PAYLOAD" /\ tcp_rx_data # <<>> /\ tcp_rx_data' = Tail(tcp_rx_data)
      /\ payload_in' = Append(payload_in, raw)
  BY DEF SmDataPayload, CanRead
<1>2. /\ pp' = pp /\ served' = served /\ rx_left' = rx_left /\ app' = app
      /\ http_request_headers' = http_request_headers /\ http_request_body' = http_request_body
  BY DEF SmDataPayload, appFifos, tcpStack
<1>3. offeredHeaders' = offeredHeaders /\ offeredBody' = offeredBody
  BY <1>2 DEF offeredHeaders, offeredBody
<1>4. drawn \in Nat \ {0} /\ drawn' = drawn + 1
  BY <1>1, <1>2, BeatDrawn, DrawnFacts DEF PInv, PayloadInv, HeadlineDrawn
<1>5. HeadlineDrawn'
  BY <1>4 DEF HeadlineDrawn
<1>6. served # <<>>
  BY <1>1, IInvFacts DEF PInv, BeatsInFlight
<1>7. /\ Len(tcp_rx_data) \in Nat \ {0} /\ rx_left \in Nat
      /\ raw = BeatOf(m, Len(served), BeatCount(m.length) - rx_left - Len(tcp_rx_data) + 1)
  BY <1>1, <1>6, NextBeat, IInvFacts DEF PInv
<1>8. BeatsOf(served, Len(served)) = BeatCount(m.length) /\ BeatCount(m.length) \in Nat
  BY <1>6, DrawnFacts DEF PInv
<1>9. raw = BeatOf(m, Len(served), drawn + 1)
  BY <1>7, <1>8 DEF drawn
<1>10. drawn + 1 \in 2 .. BeatsOf(served, Len(served))
  BY <1>4, <1>7, <1>8 DEF drawn
<1>11. Len(served) \in 1 .. Len(served)
  BY <1>6, DrawnFacts DEF PInv
<1>12. raw.data.req = Len(served) /\ raw.data.pos = drawn + 1
  BY <1>9 DEF BeatOf
<1>13. PayloadBeat(served, raw)
  BY <1>9, <1>10, <1>11, <1>12 DEF PayloadBeat
<1>14. raw \in Beat
  BY <1>1, FifoTail, DepthAssumption, IInvFacts DEF PInv, TcpFifosOK, CanRead
<1>15. payload_in \in Seq(Beat) /\ served \in Seq(Transfer)
  BY IInvFacts, DrawnFacts DEF PInv, InFifosOK, IsFifo
<1> HIDE DEF raw
<1>16. \A n \in 0 .. Len(served), k \in Nat :
         Chain(served, payload_in, n, k, drawn) => Chain(served', payload_in', n, k, drawn')
  BY <1>1, <1>2, <1>4, <1>12, <1>13, <1>14, <1>15, ChainAppend
<1> QED BY <1>2, <1>3, <1>5, <1>16, ParserFrame

\* A transfer is served once the latest has been drawn to its end.
LEMMA PayloadTcpAccept == ASSUME PInv, TcpAccept PROVE PayloadInv'
<1> DEFINE req == Head(tcp_rx_req)
<1>1. tcp_rx_req # <<>> /\ rx_left' = BeatCount(req.length)
  BY DEF TcpAccept, CanRead
<1>2. PICK line \in Lines :
        served' = Append(served, [sessionID |-> req.sessionID, length |-> req.length, line |-> line])
  BY DEF TcpAccept
<1> DEFINE t == [sessionID |-> req.sessionID, length |-> req.length, line |-> line]
<1>3. /\ pp' = pp /\ payload_in' = payload_in /\ tcp_rx_data' = tcp_rx_data /\ sm' = sm
      /\ app' = app
      /\ http_request_headers' = http_request_headers /\ http_request_body' = http_request_body
  BY DEF TcpAccept, inFifos, appFifos
<1>4. offeredHeaders' = offeredHeaders /\ offeredBody' = offeredBody
  BY <1>3 DEF offeredHeaders, offeredBody
<1>5. sm.state = "HANDSHAKE" /\ Len(tcp_rx_data) = 0
  BY <1>1, IInvFacts DEF PInv, OneTransferAtATime, SmOK
<1>6. req \in ReadRequest
  BY <1>1, FifoTail, DepthAssumption, IInvFacts DEF PInv, TcpFifosOK, CanRead
<1>7. t \in Transfer /\ BeatCount(req.length) \in Nat
  BY <1>6, BeatCountPositive, LengthsAssumption DEF ReadRequest, Transfer
<1>8. served \in Seq(Transfer) /\ payload_in \in Seq(Beat) /\ Len(served) \in Nat
  BY IInvFacts, DrawnFacts DEF PInv, InFifosOK, IsFifo
<1>9. drawn = BeatsOf(served, Len(served))
  BY <1>1, DrawnFacts DEF PInv
<1>10. drawn' = 0
  <2>1. Len(served') = Len(served) + 1 /\ served'[Len(served) + 1] = t
    BY <1>2, <1>8, AppendFacts
  <2>2. BeatsOf(served', Len(served')) = BeatCount(req.length)
    BY <1>8, <2>1 DEF BeatsOf
  <2> QED BY <1>1, <1>3, <1>5, <1>7, <2>2 DEF drawn
<1>11. HeadlineDrawn'
  BY <1>3, <1>5 DEF HeadlineDrawn
<1>12. served' = Append(served, t)
  BY <1>2
<1> HIDE DEF t
<1>13. \A n \in 0 .. Len(served), k \in Nat :
         Chain(served, payload_in, n, k, drawn) => Chain(served', payload_in', n, k, drawn')
  BY <1>3, <1>7, <1>8, <1>9, <1>10, <1>12, ChainServed
<1> QED BY <1>3, <1>4, <1>7, <1>11, <1>12, <1>13, ParserFrame

\* The TCP stack delivers the next beat of the latest transfer.
LEMMA PayloadTcpDeliver == ASSUME PInv, TcpDeliver PROVE PayloadInv'
<1>1. /\ rx_left' = rx_left - 1
      /\ \E b : tcp_rx_data' = Append(tcp_rx_data, b)
  BY DEF TcpDeliver
<1>2. /\ pp' = pp /\ payload_in' = payload_in /\ served' = served /\ sm' = sm /\ app' = app
      /\ http_request_headers' = http_request_headers /\ http_request_body' = http_request_body
  BY DEF TcpDeliver, inFifos, appFifos
<1>3. offeredHeaders' = offeredHeaders /\ offeredBody' = offeredBody
  BY <1>2 DEF offeredHeaders, offeredBody
<1>4. Len(tcp_rx_data') = Len(tcp_rx_data) + 1 /\ Len(tcp_rx_data) \in Nat
  BY <1>1, AppendFacts, IInvFacts DEF PInv, TcpFifosOK, IsFifo
<1>5. drawn' = drawn
  <2>1. drawn' = BeatsOf(served, Len(served)) - rx_left' - Len(tcp_rx_data')
    BY <1>2 DEF drawn
  <2>2. BeatsOf(served, Len(served)) \in Nat /\ rx_left \in Nat
    BY DrawnFacts DEF PInv
  <2> QED BY <1>1, <1>4, <2>1, <2>2 DEF drawn
<1> QED BY <1>2, <1>3, <1>5, PayloadAside

\* payload_parser reads a beat in the part of the headers ...
LEMMA PayloadPpHeaderRead == ASSUME PInv, PpHeaderRead PROVE PayloadInv'
<1> DEFINE b == Head(payload_in)
<1>1. /\ pp.state = "HEADER_READ" /\ pp'.state = "HEADER_WRITE" /\ pp'.line = b
      /\ payload_in # <<>> /\ payload_in' = Tail(payload_in)
  BY DEF PpHeaderRead, CanRead
<1>2. /\ sm' = sm /\ served' = served /\ rx_left' = rx_left /\ tcp_rx_data' = tcp_rx_data
      /\ app' = app
      /\ http_request_headers' = http_request_headers /\ http_request_body' = http_request_body
  BY DEF PpHeaderRead, tcpFifos, appFifos, tcpStack
<1>3. offeredHeaders' = offeredHeaders /\ offeredBody' = offeredBody /\ drawn' = drawn
  BY <1>2 DEF offeredHeaders, offeredBody, drawn
<1>4. latestHeaders' = latestHeaders /\ latestBody' = latestBody
  BY <1>3 DEF latestHeaders, latestBody, Delivery!LatestReq
<1>5. payload_in \in Seq(Beat)
  BY IInvFacts DEF PInv, InFifosOK, IsFifo
<1>6. /\ BodiesUpTo(latestHeaders)
      /\ Chain(served, payload_in, latestHeaders, BeatsOf(served, latestHeaders), drawn)
  BY <1>1 DEF PInv, PayloadInv, AwaitsHeaders, PayloadBehind
<1>7. /\ PayloadBeat(served, b)
      /\ Follows(served, latestHeaders, BeatsOf(served, latestHeaders), b.data.req, b.data.pos)
      /\ Chain(served, payload_in', b.data.req, b.data.pos, drawn)
  BY <1>1, <1>5, <1>6, ChainHead
<1> HIDE DEF b
<1>8. BodiesUpTo(latestHeaders)'
  BY <1>2, <1>3, <1>4, <1>6 DEF BodiesUpTo
<1>9. HoldsHeaders'
  BY <1>1, <1>2, <1>3, <1>4, <1>7, <1>8 DEF HoldsHeaders, PayloadBehind
<1>10. HeadlineDrawn' /\ LatestKnown'
  BY <1>2, <1>3, <1>4 DEF PInv, PayloadInv, HeadlineDrawn, LatestKnown
<1> QED BY <1>1, <1>9, <1>10 DEF PayloadInv, AwaitsHeaders, AwaitsBody, HoldsBody

\* The headers req_payload_parser holds are those of the first transfer after
\* the latest offered one that has any.
LEMMA HeldHeaders ==
  ASSUME PInv, pp.state = "HEADER_WRITE"
  PROVE  LET n == pp.line.data.req IN
         /\ n \in 1 .. Len(served) /\ latestHeaders < n /\ latestHeaders \in Nat
         /\ Len(served) \in Nat
         /\ pp.line = BeatOf(served[n], n, 2)
         /\ BeatsOf(served, n) \in Nat /\ BeatsOf(served, n) >= 2
         /\ Skipped(served, latestHeaders, n)
<1> DEFINE n == pp.line.data.req
           k == pp.line.data.pos
<1>1. /\ n \in 1 .. Len(served) /\ k \in 2 .. BeatsOf(served, n)
      /\ pp.line = BeatOf(served[n], n, k)
      /\ Follows(served, latestHeaders, BeatsOf(served, latestHeaders), n, k)
  BY DEF PInv, PayloadInv, HoldsHeaders, PayloadBeat
<1>2. /\ Len(served) \in Nat /\ served \in Seq(Transfer)
      /\ latestHeaders \in 0 .. Len(served)
  BY DrawnFacts DEF PInv, PayloadInv, LatestKnown
<1> HIDE DEF n, k
<1>3. BeatsOf(served, n) \in Nat
  BY <1>1, <1>2, BeatsOfType
<1>4. ~(n = latestHeaders /\ k = BeatsOf(served, latestHeaders) + 1)
  BY <1>1, <1>3
<1>5. latestHeaders < n /\ k = 2 /\ Skipped(served, latestHeaders, n)
  BY <1>1, <1>4 DEF Follows
<1> QED BY <1>1, <1>2, <1>3, <1>5 DEF n, k

\* ... and offers it as all of the headers.
LEMMA PayloadPpHeaderWrite == ASSUME PInv, PpHeaderWrite PROVE PayloadInv'
<1> DEFINE line == HeaderBeat(pp.line)
<1>1. /\ pp.state = "HEADER_WRITE"
      /\ pp'.state = (IF pp.line.last THEN "HEADER_READ" ELSE "BODY_READ") /\ pp'.line = line
      /\ http_request_headers' = Append(http_request_headers, line)
  BY DEF PpHeaderWrite
<1>2. /\ sm' = sm /\ served' = served /\ rx_left' = rx_left /\ tcp_rx_data' = tcp_rx_data
      /\ app' = app /\ payload_in' = payload_in /\ http_request_body' = http_request_body
  BY DEF PpHeaderWrite, tcpFifos, inFifos, tcpStack
<1>3. pp.line \in Beat
  BY <1>1, IInvFacts DEF PInv, RegistersWritten
<1>4. line \in Beat /\ line.data = pp.line.data
  BY <1>3 DEF HeaderBeat, Beat
<1>n. PICK n \in Nat : n = pp.line.data.req
  BY <1>3 DEF Beat, Data
<1>5. offeredHeaders' = Append(offeredHeaders, line)
  BY <1>1, <1>2, <1>4, StreamFacts, OfferedType DEF PInv, offeredHeaders
<1>6. offeredBody' = offeredBody /\ drawn' = drawn
  BY <1>2 DEF offeredBody, drawn
<1>7. latestHeaders' = n /\ latestBody' = latestBody
  <2>1. offeredHeaders' # <<>> /\ offeredHeaders'[Len(offeredHeaders')] = line
    BY <1>4, <1>5, LastOfAppend, OfferedType DEF PInv
  <2> QED BY <1>n, <1>4, <1>6, <2>1 DEF latestHeaders, latestBody, Delivery!LatestReq
<1>8. /\ n \in 1 .. Len(served) /\ latestHeaders < n /\ latestHeaders \in Nat
      /\ pp.line = BeatOf(served[n], n, 2) /\ Len(served) \in Nat
      /\ BeatsOf(served, n) \in Nat /\ BeatsOf(served, n) >= 2
      /\ Skipped(served, latestHeaders, n)
  BY <1>1, <1>n, HeldHeaders
<1>9. pp.line.data.pos = 2 /\ (pp.line.last <=> BeatsOf(served, n) = 2)
  <2>1. /\ BeatOf(served[n], n, 2).last <=> 2 = BeatCount(served[n].length)
        /\ BeatOf(served[n], n, 2).data.pos = 2
    BY DEF BeatOf
  <2>2. BeatsOf(served, n) = BeatCount(served[n].length)
    BY <1>8 DEF BeatsOf
  <2> QED BY <1>8, <2>1, <2>2
<1>10. /\ BodiesUpTo(latestHeaders) /\ latestBody \in Nat
       /\ Chain(served, payload_in, n, 2, drawn)
  BY <1>1, <1>n, <1>9 DEF PInv, PayloadInv, HoldsHeaders, PayloadBehind, LatestKnown
<1> HIDE DEF line
<1>11. BodiesUpTo(n - 1)
  <2>1. \A i \in latestBody + 1 .. n - 1 : i \in latestBody + 1 .. latestHeaders \/ i \in latestHeaders + 1 .. n - 1
    BY <1>8, <1>10
  <2>2. \A i \in latestHeaders + 1 .. n - 1 : BeatsOf(served, i) < 3
    <3> SUFFICES ASSUME NEW i \in latestHeaders + 1 .. n - 1 PROVE BeatsOf(served, i) < 3
      OBVIOUS
    <3>1. BeatsOf(served, i) < 2
      BY <1>8 DEF Skipped
    <3>2. i \in 0 .. Len(served)
      BY <1>8
    <3>3. BeatsOf(served, i) \in Nat
      BY <3>2, BeatsOfType, DrawnFacts DEF PInv
    <3> QED BY <3>1, <3>3
  <2>3. latestBody <= n - 1
    BY <1>8, <1>10 DEF BodiesUpTo
  <2> QED BY <1>10, <2>1, <2>2, <2>3 DEF BodiesUpTo
<1>12. LatestKnown' /\ HeadlineDrawn'
  BY <1>2, <1>6, <1>7, <1>8 DEF PInv, PayloadInv, LatestKnown, HeadlineDrawn
<1>13. AwaitsHeaders'
  <2> SUFFICES ASSUME pp.line.last
               PROVE  BodiesUpTo(n)' /\ Chain(served, payload_in, n, BeatsOf(served, n), drawn)
    BY <1>1, <1>2, <1>6, <1>7 DEF AwaitsHeaders, PayloadBehind, BodiesUpTo
  <2>1. BeatsOf(served, n) = 2
    BY <1>9
  <2>2. BodiesUpTo(n)
    <3>1. \A i \in latestBody + 1 .. n : i \in latestBody + 1 .. n - 1 \/ i = n
      BY <1>8, <1>10
    <3> QED BY <1>8, <1>10, <1>11, <2>1, <3>1 DEF BodiesUpTo
  <2> QED BY <1>2, <1>6, <1>7, <1>10, <2>1, <2>2 DEF BodiesUpTo
<1>14. AwaitsBody'
  <2>1. line.data.req = n /\ line.data.pos = 2
    BY <1>n, <1>4, <1>9
  <2> SUFFICES ASSUME ~pp.line.last
               PROVE  /\ BeatsOf(served, n) > 2 /\ BodiesUpTo(n - 1)'
                      /\ Chain(served, payload_in, n, 2, drawn)
    BY <1>1, <1>2, <1>4, <1>6, <1>7, <1>8, <2>1
    DEF AwaitsBody, PayloadBehind, BodyReached, BodiesUpTo
  <2>2. BodiesUpTo(n - 1)'
    BY <1>2, <1>6, <1>7, <1>11 DEF BodiesUpTo
  <2> QED BY <1>8, <1>9, <1>10, <2>2
<1> QED BY <1>1, <1>12, <1>13, <1>14 DEF PayloadInv, HoldsHeaders, HoldsBody

\* It reads a beat in the part of the body ...
LEMMA PayloadPpBodyRead == ASSUME PInv, PpBodyRead PROVE PayloadInv'
<1> DEFINE b == Head(payload_in)
           k == pp.line.data.pos
<1>1. /\ pp.state = "BODY_READ" /\ pp'.state = "BODY_WRITE" /\ pp'.line = b
      /\ payload_in # <<>> /\ payload_in' = Tail(payload_in)
  BY DEF PpBodyRead, CanRead
<1>2. /\ sm' = sm /\ served' = served /\ rx_left' = rx_left /\ tcp_rx_data' = tcp_rx_data
      /\ app' = app
      /\ http_request_headers' = http_request_headers /\ http_request_body' = http_request_body
  BY DEF PpBodyRead, tcpFifos, appFifos, tcpStack
<1>3. offeredHeaders' = offeredHeaders /\ offeredBody' = offeredBody /\ drawn' = drawn
  BY <1>2 DEF offeredHeaders, offeredBody, drawn
<1>4. latestHeaders' = latestHeaders /\ latestBody' = latestBody
  BY <1>3 DEF latestHeaders, latestBody, Delivery!LatestReq
<1>5. payload_in \in Seq(Beat)
  BY IInvFacts DEF PInv, InFifosOK, IsFifo
<1>6. /\ latestHeaders # 0 /\ latestHeaders \in 0 .. Len(served)
      /\ k \in 2 .. BeatsOf(served, latestHeaders) - 1
      /\ BodyReached(latestHeaders, k)
      /\ Chain(served, payload_in, latestHeaders, k, drawn)
  BY <1>1 DEF PInv, PayloadInv, AwaitsBody, PayloadBehind, LatestKnown
<1>7. /\ PayloadBeat(served, b)
      /\ Follows(served, latestHeaders, k, b.data.req, b.data.pos)
      /\ Chain(served, payload_in', b.data.req, b.data.pos, drawn)
  BY <1>1, <1>5, <1>6, ChainHead
<1> HIDE DEF b, k
<1>8. BeatsOf(served, latestHeaders) \in Nat
  BY <1>6, BeatsOfType, DrawnFacts DEF PInv
<1>9. b.data.req = latestHeaders /\ b.data.pos = k + 1
  BY <1>6, <1>7, <1>8 DEF Follows
<1>10. k \in Nat /\ b.data.pos >= 3 /\ b.data.pos - 1 = k
  BY <1>6, <1>8, <1>9
<1>11. HoldsBody'
  <2>1. HoldsBody' <=>
          /\ PayloadBeat(served, b) /\ b.data.req = latestHeaders /\ b.data.pos >= 3
          /\ IF b.data.pos - 1 = 2
             THEN BodiesUpTo(latestHeaders - 1)
             ELSE /\ offeredBody # <<>>
                  /\ offeredBody[Len(offeredBody)] =
                       BeatOf(served[latestHeaders], latestHeaders, b.data.pos - 1)
          /\ Chain(served, payload_in', latestHeaders, b.data.pos, drawn)
    BY <1>1, <1>2, <1>3, <1>4 DEF HoldsBody, PayloadBehind, BodyReached, BodiesUpTo
  <2> QED BY <1>6, <1>7, <1>9, <1>10, <2>1 DEF BodyReached
<1>12. HeadlineDrawn' /\ LatestKnown'
  BY <1>2, <1>3, <1>4 DEF PInv, PayloadInv, HeadlineDrawn, LatestKnown
<1> QED BY <1>1, <1>11, <1>12 DEF PayloadInv, AwaitsHeaders, HoldsHeaders, AwaitsBody

\* The beat of body req_payload_parser holds is the next one of the transfer
\* whose headers were offered last.
LEMMA HeldBody ==
  ASSUME PInv, pp.state = "BODY_WRITE"
  PROVE  LET k == pp.line.data.pos IN
         /\ latestHeaders \in 1 .. Len(served) /\ Len(served) \in Nat
         /\ pp.line.data.req = latestHeaders
         /\ BeatsOf(served, latestHeaders) \in Nat
         /\ k \in 3 .. BeatsOf(served, latestHeaders)
         /\ pp.line = BeatOf(served[latestHeaders], latestHeaders, k)
         /\ pp.line.last <=> k = BeatsOf(served, latestHeaders)
         /\ BodyReached(latestHeaders, k - 1)
         /\ PayloadBehind(latestHeaders, k)
<1> DEFINE k == pp.line.data.pos
<1>1. /\ pp.line.data.req = latestHeaders /\ latestHeaders \in 1 .. Len(served)
      /\ k \in 2 .. BeatsOf(served, latestHeaders) /\ k >= 3
      /\ pp.line = BeatOf(served[latestHeaders], latestHeaders, k)
      /\ BodyReached(latestHeaders, k - 1) /\ PayloadBehind(latestHeaders, k)
  BY DEF PInv, PayloadInv, HoldsBody, PayloadBeat
<1>2. served \in Seq(Transfer) /\ Len(served) \in Nat
  BY DrawnFacts DEF PInv
<1> HIDE DEF k
<1>3. BeatsOf(served, latestHeaders) \in Nat
  BY <1>1, <1>2, BeatsOfType
<1>4. BeatOf(served[latestHeaders], latestHeaders, k).last <=> k = BeatsOf(served, latestHeaders)
  <2>1. BeatsOf(served, latestHeaders) = BeatCount(served[latestHeaders].length)
    BY <1>1, <1>2 DEF BeatsOf
  <2> QED BY <2>1 DEF BeatOf
<1>5. k \in 3 .. BeatsOf(served, latestHeaders)
  BY <1>1, <1>3
<1> QED BY <1>1, <1>2, <1>3, <1>4, <1>5 DEF k

\* ... and offers it; after the last one the headers of another transfer follow.
LEMMA PayloadPpBodyWrite == ASSUME PInv, PpBodyWrite PROVE PayloadInv'
<1> DEFINE k == pp.line.data.pos
<1>1. /\ pp.state = "BODY_WRITE"
      /\ pp'.state = (IF pp.line.last THEN "HEADER_READ" ELSE "BODY_READ") /\ pp'.line = pp.line
      /\ http_request_body' = Append(http_request_body, pp.line)
  BY IInvFacts DEF PpBodyWrite, PInv, IInv, TypeInv, TypeOK, PpOK
<1>2. /\ sm' = sm /\ served' = served /\ rx_left' = rx_left /\ tcp_rx_data' = tcp_rx_data
      /\ app' = app /\ payload_in' = payload_in /\ http_request_headers' = http_request_headers
  BY DEF PpBodyWrite, tcpFifos, inFifos, tcpStack
<1>3. pp.line \in Beat
  BY <1>1, IInvFacts DEF PInv, RegistersWritten
<1>4. offeredBody' = Append(offeredBody, pp.line)
  BY <1>1, <1>2, <1>3, StreamFacts, OfferedType DEF PInv, offeredBody
<1>5. offeredHeaders' = offeredHeaders /\ drawn' = drawn
  BY <1>2 DEF offeredHeaders, drawn
<1>6. offeredBody' # <<>> /\ offeredBody'[Len(offeredBody')] = pp.line
  BY <1>3, <1>4, LastOfAppend, OfferedType DEF PInv
<1>7. /\ latestHeaders \in 1 .. Len(served) /\ Len(served) \in Nat
      /\ pp.line.data.req = latestHeaders
      /\ BeatsOf(served, latestHeaders) \in Nat
      /\ k \in 3 .. BeatsOf(served, latestHeaders)
      /\ pp.line = BeatOf(served[latestHeaders], latestHeaders, k)
      /\ pp.line.last <=> k = BeatsOf(served, latestHeaders)
      /\ Chain(served, payload_in, latestHeaders, k, drawn)
  BY <1>1, HeldBody DEF PayloadBehind
<1>8. latestHeaders' = latestHeaders /\ latestBody' = latestHeaders
  BY <1>5, <1>6, <1>7 DEF latestHeaders, latestBody, Delivery!LatestReq
<1>9. LatestKnown' /\ HeadlineDrawn'
  BY <1>2, <1>5, <1>7, <1>8 DEF PInv, PayloadInv, LatestKnown, HeadlineDrawn
<1>10. AwaitsHeaders'
  <2>1. AwaitsHeaders' <=>
          (pp.line.last =>
             /\ offeredBody' = <<>> \/ offeredBody'[Len(offeredBody')].last
             /\ latestHeaders <= latestHeaders
             /\ \A i \in latestHeaders + 1 .. latestHeaders : BeatsOf(served, i) < 3
             /\ Chain(served, payload_in, latestHeaders, BeatsOf(served, latestHeaders), drawn))
    BY <1>1, <1>2, <1>5, <1>8 DEF AwaitsHeaders, PayloadBehind, BodiesUpTo
  <2> HIDE DEF k
  <2>2. \A i \in latestHeaders + 1 .. latestHeaders : FALSE
    BY <1>7
  <2> QED BY <1>6, <1>7, <2>1, <2>2
<1>11. AwaitsBody'
  <2>1. AwaitsBody' <=>
          (~pp.line.last =>
             /\ pp.line \in Beat /\ latestHeaders # 0 /\ pp.line.data.req = latestHeaders
             /\ k \in 2 .. BeatsOf(served, latestHeaders) - 1
             /\ IF k = 2
                THEN BodiesUpTo(latestHeaders - 1)'
                ELSE /\ offeredBody' # <<>>
                     /\ offeredBody'[Len(offeredBody')] =
                          BeatOf(served[latestHeaders], latestHeaders, k)
             /\ Chain(served, payload_in, latestHeaders, k, drawn))
    BY <1>1, <1>2, <1>5, <1>8 DEF AwaitsBody, PayloadBehind, BodyReached, BodiesUpTo
  <2> HIDE DEF k
  <2>2. k # 2 /\ (~pp.line.last => k \in 2 .. BeatsOf(served, latestHeaders) - 1)
    BY <1>7
  <2> QED BY <1>3, <1>6, <1>7, <2>1, <2>2
<1> QED BY <1>1, <1>9, <1>10, <1>11 DEF PayloadInv, HoldsHeaders, HoldsBody

\* What the application takes from a FIFO stays in the stream offered to it.
LEMMA OfferedKept ==
  ASSUME IInv, AppRequest \/ AppHeaders \/ AppBody
  PROVE  offeredHeaders' = offeredHeaders /\ offeredBody' = offeredBody
<1>1. app \in [requests : Seq(Request), headers : Seq(Beat), body : Seq(Beat)]
  BY IInvFacts DEF EnvironmentOK
<1>2. offeredHeaders' = offeredHeaders
  <2>1. CASE AppHeaders
    <3>1. /\ http_request_headers # <<>>
          /\ app'.headers = Append(app.headers, Head(http_request_headers))
          /\ http_request_headers' = Tail(http_request_headers)
      BY <1>1, <2>1 DEF AppHeaders, CanRead
    <3> QED BY <3>1, StreamFacts, OfferedType DEF offeredHeaders
  <2>2. CASE AppRequest \/ AppBody
    BY <1>1, <2>2 DEF AppRequest, AppBody, offeredHeaders
  <2> QED BY <2>1, <2>2
<1>3. offeredBody' = offeredBody
  <2>1. CASE AppBody
    <3>1. /\ http_request_body # <<>>
          /\ app'.body = Append(app.body, Head(http_request_body))
          /\ http_request_body' = Tail(http_request_body)
      BY <1>1, <2>1 DEF AppBody, CanRead
    <3> QED BY <3>1, StreamFacts, OfferedType DEF offeredBody
  <2>2. CASE AppRequest \/ AppHeaders
    BY <1>1, <2>2 DEF AppRequest, AppHeaders, offeredBody
  <2> QED BY <2>1, <2>2
<1> QED BY <1>2, <1>3

\* The application takes what is offered: what has been offered stays the same.
LEMMA PayloadApplication ==
  ASSUME PInv, AppRequest \/ AppHeaders \/ AppBody PROVE PayloadInv'
<1>1. /\ pp' = pp /\ payload_in' = payload_in /\ served' = served /\ sm' = sm
      /\ rx_left' = rx_left /\ tcp_rx_data' = tcp_rx_data
  BY DEF AppRequest, AppHeaders, AppBody, tcpFifos, inFifos, tcpStack
<1>2. drawn' = drawn
  BY <1>1 DEF drawn
<1>3. offeredHeaders' = offeredHeaders /\ offeredBody' = offeredBody
  BY OfferedKept DEF PInv
<1> QED BY <1>1, <1>2, <1>3, PayloadAside

\* Every step keeps the beats in order.
LEMMA PayloadStep == PInv /\ [Next]_vars => PayloadInv'
<1> SUFFICES ASSUME PInv, [Next]_vars PROVE PayloadInv'
  OBVIOUS
<1>1. ASSUME HeadlineParser \/ RequestIssuer \/ TcpNotify \/ UNCHANGED vars PROVE PayloadInv'
  <2>1. /\ pp' = pp /\ payload_in' = payload_in /\ served' = served /\ sm' = sm /\ app' = app
        /\ rx_left' = rx_left /\ tcp_rx_data' = tcp_rx_data
        /\ http_request_headers' = http_request_headers /\ http_request_body' = http_request_body
    BY <1>1
    DEF HeadlineParser, HpInputRead, HpParseMethod, HpExtractEndpoint, HpOutputWrite,
        RequestIssuer, TcpNotify, vars, tcpFifos, inFifos, appFifos, tcpStack
  <2>2. offeredHeaders' = offeredHeaders /\ offeredBody' = offeredBody /\ drawn' = drawn
    BY <2>1 DEF offeredHeaders, offeredBody, drawn
  <2> QED BY <2>1, <2>2, PayloadAside
<1>2. ASSUME StateMachine PROVE PayloadInv'
  BY <1>2, PayloadSmHandshake, PayloadSmDataHeadline, PayloadSmDataPayload DEF StateMachine
<1>3. ASSUME PayloadParser PROVE PayloadInv'
  BY <1>3, PayloadPpHeaderRead, PayloadPpHeaderWrite, PayloadPpBodyRead, PayloadPpBodyWrite
  DEF PayloadParser
<1> QED
  BY <1>1, <1>2, <1>3, PayloadTcpAccept, PayloadTcpDeliver, PayloadApplication DEF Next, Poll

\* The beats are in order in every reachable state.
LEMMA PayloadInvariant == Spec => []PInv
<1>1. Init => PayloadInv
  BY PayloadInit
<1>2. IInv /\ PayloadInv /\ [Next]_vars => PayloadInv'
  BY PayloadStep DEF PInv
<1>3. PInv <=> IInv /\ PayloadInv
  BY DEF PInv
<1> QED BY <1>1, <1>2, <1>3, IInvariant, PTL DEF Spec

-----------------------------------------------------------------------------
(***************************************************************************)
(* The refinement: every step is one of RequestDelivery or a stutter.      *)
(***************************************************************************)

\* The two modules read a line alike ...
LEMMA SameMethod ==
  ASSUME NEW line PROVE method_parser(line) = Delivery!method_parser(line)
<1>1. matrix = Delivery!matrix
  BY DEF matrix, Delivery!matrix
<1>2. METHOD_DEPTH = Delivery!METHOD_DEPTH /\ METHOD_COUNT = Delivery!METHOD_COUNT
  BY DEF METHOD_DEPTH, METHOD_COUNT, Delivery!METHOD_DEPTH, Delivery!METHOD_COUNT
<1>3. \A i : RowMatches(i, line) <=> Delivery!RowMatches(i, line)
  BY <1>1, <1>2 DEF RowMatches, Delivery!RowMatches
<1> DEFINE M == {i \in 1 .. METHOD_COUNT : RowMatches(i, line)}
           D == {i \in 1 .. Delivery!METHOD_COUNT : Delivery!RowMatches(i, line)}
           Highest(set) == CHOOSE v \in {0} \cup set : \A i \in set : i <= v
<1>4. M = D
  BY <1>2, <1>3
<1> HIDE DEF M, D
<1>5. Highest(M) = Highest(D)
  BY <1>4
<1> HIDE DEF Highest
<1>6. HttpMethod(Highest(M)) = Delivery!HttpMethod(Highest(D))
  BY <1>5 DEF HttpMethod, Delivery!HttpMethod
<1>7. method_parser(line) = HttpMethod(Highest(M))
  BY DEF method_parser, Highest, M
<1>8. Delivery!method_parser(line) = Delivery!HttpMethod(Highest(D))
  BY DEF Delivery!method_parser, Highest, D
<1> QED BY <1>6, <1>7, <1>8

\* ... make the same request of it ...
LEMMA SameRequest == ASSUME NEW m PROVE RequestFor(m) = Delivery!RequestFor(m)
BY SameMethod
DEF RequestFor, AnnouncesHeaders, AnnouncesBody,
    Delivery!RequestFor, Delivery!AnnouncesHeaders, Delivery!AnnouncesBody

\* ... and the same beats of a transfer.
LEMMA SameBeat ==
  ASSUME NEW m, NEW n, NEW k PROVE BeatOf(m, n, k) = Delivery!BeatOf(m, n, k)
BY DEF BeatOf, BeatCount, Blank, METHOD_DEPTH,
       Delivery!BeatOf, Delivery!BeatCount, Delivery!Blank, Delivery!METHOD_DEPTH

\* The requests offered are those of their transfers, before a step ...
LEMMA MatchNow == IInv => RequestsMatchServed
BY OfferedRequests

\* ... and after it.
LEMMA MatchAfter == (IInv => RequestsMatchServed)'
BY MatchNow, PTL

\* A transfer that the TCP stack accepts is one served.
LEMMA ServeStep == ASSUME PInv, TcpAccept PROVE Delivery!Serve
<1>1. /\ tcp_rx_req # <<>> /\ app' = app
      /\ http_request' = http_request /\ http_request_headers' = http_request_headers
      /\ http_request_body' = http_request_body
  BY DEF TcpAccept, CanRead, appFifos
<1>2. PICK line \in Lines :
        served' = Append(served, [sessionID |-> Head(tcp_rx_req).sessionID,
                                  length |-> Head(tcp_rx_req).length, line |-> line])
  BY DEF TcpAccept
<1>3. Head(tcp_rx_req) \in ReadRequest
  BY <1>1, FifoTail, DepthAssumption, IInvFacts DEF PInv, TcpFifosOK, CanRead
<1>4. [sessionID |-> Head(tcp_rx_req).sessionID,
       length |-> Head(tcp_rx_req).length, line |-> line] \in Delivery!Transfer
  BY <1>3 DEF ReadRequest, Delivery!Transfer
<1>5. /\ offeredRequests' = offeredRequests /\ offeredHeaders' = offeredHeaders
      /\ offeredBody' = offeredBody
  BY <1>1 DEF offeredRequests, offeredHeaders, offeredBody
<1> QED BY <1>2, <1>4, <1>5 DEF Delivery!Serve

\* request_issuer offers the request of the next transfer.
LEMMA OfferRequestStep == ASSUME PInv, IInv', RequestIssuer PROVE Delivery!OfferRequest
<1>1. PICK r : http_request' = Append(http_request, r)
  BY DEF RequestIssuer
<1>2. /\ app' = app /\ served' = served
      /\ http_request_headers' = http_request_headers /\ http_request_body' = http_request_body
  BY DEF RequestIssuer, tcpStack
<1>3. offeredHeaders' = offeredHeaders /\ offeredBody' = offeredBody
  BY <1>2 DEF offeredHeaders, offeredBody
<1>4. app.requests \in Seq(Request) /\ http_request \in Seq(Request)
  BY IInvFacts DEF PInv, EnvironmentOK, AppFifosOK, IsFifo
<1>5. app'.requests \in Seq(Request) /\ http_request' \in Seq(Request)
  BY DEF IInv, TypeInv, TypeOK, EnvironmentOK, AppFifosOK, IsFifo
<1>6. r \in Request
  <2>1. Len(http_request') = Len(http_request) + 1 /\ http_request'[Len(http_request) + 1] = r
    BY <1>1, <1>4, AppendFacts
  <2> QED BY <1>4, <1>5, <2>1
<1>7. offeredRequests' = Append(offeredRequests, r) /\ offeredRequests \in Seq(Request)
  <2>1. app.requests \o Append(http_request, r) = Append(app.requests \o http_request, r)
    BY <1>4, <1>6, StreamFacts
  <2> QED BY <1>1, <1>2, <1>4, <2>1 DEF offeredRequests
<1>8. /\ Len(offeredRequests) \in Nat /\ Len(offeredRequests') = Len(offeredRequests) + 1
      /\ offeredRequests'[Len(offeredRequests) + 1] = r
  BY <1>7, AppendFacts
<1>9. RequestsMatchServed'
  BY MatchAfter
<1>10. /\ Len(offeredRequests) + 1 <= Len(served)
       /\ r = RequestFor(served[Len(offeredRequests) + 1])
  BY <1>2, <1>8, <1>9 DEF RequestsMatchServed
<1>11. Len(offeredRequests) < Len(served)
  BY <1>8, <1>10, DrawnFacts DEF PInv
<1>12. r = Delivery!RequestFor(served[Len(offeredRequests) + 1])
  BY <1>10, SameRequest
<1> QED BY <1>2, <1>3, <1>7, <1>11, <1>12 DEF Delivery!OfferRequest

\* payload_parser offers the headers of a transfer, as a whole ...
LEMMA OfferHeadersStep == ASSUME PInv, PpHeaderWrite PROVE Delivery!OfferHeaders
<1>1. /\ pp.state = "HEADER_WRITE"
      /\ http_request_headers' = Append(http_request_headers, HeaderBeat(pp.line))
      /\ app' = app /\ served' = served
      /\ http_request' = http_request /\ http_request_body' = http_request_body
  BY DEF PpHeaderWrite, tcpStack
<1>2. offeredRequests' = offeredRequests /\ offeredBody' = offeredBody
  BY <1>1 DEF offeredRequests, offeredBody
<1>3. pp.line \in Beat
  BY <1>1, IInvFacts DEF PInv, RegistersWritten
<1>4. offeredHeaders' = Append(offeredHeaders, HeaderBeat(pp.line))
  <2>1. HeaderBeat(pp.line) \in Beat
    BY <1>3 DEF HeaderBeat, Beat
  <2> QED BY ZenonT(60), <1>1, <2>1, StreamFacts, OfferedType DEF PInv, offeredHeaders
<1>n. PICK n \in Nat : n = pp.line.data.req
  BY <1>3 DEF Beat, Data
<1>5. /\ n \in 1 .. Len(served) /\ latestHeaders < n /\ latestHeaders \in Nat
      /\ Len(served) \in Nat
      /\ pp.line = BeatOf(served[n], n, 2)
      /\ BeatsOf(served, n) \in Nat /\ BeatsOf(served, n) >= 2
      /\ Skipped(served, latestHeaders, n)
  BY <1>1, <1>n, HeldHeaders
<1>6. BeatsOf(served, n) = Delivery!BeatCount(served[n].length)
  BY <1>5 DEF BeatsOf, BeatCount, Delivery!BeatCount
<1>7. \A i \in latestHeaders + 1 .. n - 1 : Delivery!BeatCount(served[i].length) < 2
  <2> SUFFICES ASSUME NEW i \in latestHeaders + 1 .. n - 1
               PROVE  Delivery!BeatCount(served[i].length) < 2
    OBVIOUS
  <2>1. BeatsOf(served, i) < 2
    BY <1>5 DEF Skipped
  <2>2. i # 0
    BY <1>5
  <2> QED BY <2>1, <2>2 DEF BeatsOf, BeatCount, Delivery!BeatCount
<1>8. Delivery!NextWith(n, latestHeaders, 2)
  <2>1. n \in latestHeaders + 1 .. Len(served)
    BY <1>5
  <2> QED BY <1>5, <1>6, <1>7, <2>1 DEF Delivery!NextWith
<1>9. HeaderBeat(pp.line) = [Delivery!BeatOf(served[n], n, 2) EXCEPT !.last = TRUE]
  <2>1. BeatOf(served[n], n, 2) = Delivery!BeatOf(served[n], n, 2)
    BY SameBeat
  <2> QED BY <1>5, <2>1 DEF HeaderBeat
<1> QED
  BY <1>1, <1>2, <1>4, <1>5, <1>8, <1>9 DEF Delivery!OfferHeaders, latestHeaders

\* ... and its body, beat by beat.
LEMMA OfferBodyStep ==
  ASSUME PInv, PpBodyWrite PROVE Delivery!OfferFirstBody \/ Delivery!OfferNextBody
<1>1. /\ pp.state = "BODY_WRITE"
      /\ http_request_body' = Append(http_request_body, pp.line)
      /\ app' = app /\ served' = served
      /\ http_request' = http_request /\ http_request_headers' = http_request_headers
  BY DEF PpBodyWrite, tcpStack
<1>2. offeredRequests' = offeredRequests /\ offeredHeaders' = offeredHeaders
  BY <1>1 DEF offeredRequests, offeredHeaders
<1>3. pp.line \in Beat
  BY <1>1, IInvFacts DEF PInv, RegistersWritten
<1>4. offeredBody' = Append(offeredBody, pp.line)
  BY ZenonT(60), <1>1, <1>3, StreamFacts, OfferedType DEF PInv, offeredBody
<1>k. PICK k \in Nat : k = pp.line.data.pos
  BY <1>3 DEF Beat, Data
<1>h. PICK h \in Nat : h = latestHeaders
  BY DrawnFacts DEF PInv, PayloadInv, LatestKnown
<1>5. /\ h \in 1 .. Len(served) /\ Len(served) \in Nat
      /\ BeatsOf(served, h) \in Nat
      /\ k \in 3 .. BeatsOf(served, h)
      /\ pp.line = BeatOf(served[h], h, k)
      /\ BodyReached(h, k - 1)
  BY <1>1, <1>k, <1>h, HeldBody
<1>6. BeatOf(served[h], h, k) = Delivery!BeatOf(served[h], h, k)
  BY SameBeat
<1>7. CASE k = 3
  <2>1. /\ offeredBody = <<>> \/ offeredBody[Len(offeredBody)].last
        /\ latestBody <= h - 1 /\ latestBody \in Nat
        /\ \A i \in latestBody + 1 .. h - 1 : BeatsOf(served, i) < 3
    BY <1>5, <1>7 DEF BodyReached, BodiesUpTo, PInv, PayloadInv, LatestKnown
  <2>2. BeatsOf(served, h) = Delivery!BeatCount(served[h].length)
    BY <1>5 DEF BeatsOf, BeatCount, Delivery!BeatCount
  <2>3. \A i \in latestBody + 1 .. h - 1 : Delivery!BeatCount(served[i].length) < 3
    <3> SUFFICES ASSUME NEW i \in latestBody + 1 .. h - 1
                 PROVE  Delivery!BeatCount(served[i].length) < 3
      OBVIOUS
    <3>1. BeatsOf(served, i) < 3 /\ i # 0
      BY <1>5, <2>1
    <3> QED BY <3>1 DEF BeatsOf, BeatCount, Delivery!BeatCount
  <2>4. Delivery!NextWith(h, latestBody, 3)
    <3>1. h \in latestBody + 1 .. Len(served) /\ BeatsOf(served, h) >= 3
      BY <1>5, <2>1
    <3> QED BY <2>2, <2>3, <3>1 DEF Delivery!NextWith
  <2>5. h \in 1 .. Delivery!LatestReq(offeredHeaders)
    BY <1>h, <1>5 DEF latestHeaders
  <2> QED
    BY <1>1, <1>2, <1>4, <1>5, <1>6, <1>7, <2>1, <2>4, <2>5
    DEF Delivery!OfferFirstBody, latestBody
<1>8. CASE k # 3
  <2>1. /\ offeredBody # <<>>
        /\ offeredBody[Len(offeredBody)] = BeatOf(served[h], h, k - 1)
    <3>1. k - 1 # 2
      BY <1>5, <1>8
    <3> QED BY <1>5, <3>1 DEF BodyReached
  <2>2. BeatOf(served[h], h, k - 1).last <=> k - 1 = BeatsOf(served, h)
    <3>1. BeatsOf(served, h) = BeatCount(served[h].length)
      BY <1>5 DEF BeatsOf
    <3> QED BY <3>1 DEF BeatOf
  <2>3. ~offeredBody[Len(offeredBody)].last
    <3>1. k - 1 # BeatsOf(served, h)
      BY <1>5
    <3> QED BY <2>1, <2>2, <3>1
  <2>4. BeatOf(served[h], h, k - 1).data.req = h /\ BeatOf(served[h], h, k - 1).data.pos = k - 1
    BY DEF BeatOf
  <2>5. (k - 1) + 1 = k
    OBVIOUS
  <2>6. offeredBody[Len(offeredBody)].data.req = h /\ offeredBody[Len(offeredBody)].data.pos + 1 = k
    BY <2>1, <2>4, <2>5
  <2> QED
    BY <1>1, <1>2, <1>4, <1>5, <1>6, <2>1, <2>3, <2>6 DEF Delivery!OfferNextBody
<1> QED BY <1>7, <1>8

\* Every step is one of RequestDelivery or leaves what it sees alone.
LEMMA DeliveryStep == PInv /\ IInv' /\ [Next]_vars => [Delivery!DNext]_(Delivery!avars)
<1> SUFFICES ASSUME PInv, IInv', [Next]_vars PROVE [Delivery!DNext]_(Delivery!avars)
  OBVIOUS
<1>1. ASSUME StateMachine \/ HeadlineParser \/ PpHeaderRead \/ PpBodyRead \/ TcpNotify
             \/ TcpDeliver \/ UNCHANGED vars
      PROVE  UNCHANGED Delivery!avars
  <2>1. /\ app' = app /\ served' = served /\ http_request' = http_request
        /\ http_request_headers' = http_request_headers /\ http_request_body' = http_request_body
    BY <1>1
    DEF StateMachine, SmIdle, SmNotificationData, SmNotificationEmpty, SmHandshake,
        SmDataHeadline, SmDataPayload, HeadlineParser, HpInputRead, HpParseMethod,
        HpExtractEndpoint, HpOutputWrite, PpHeaderRead, PpBodyRead, TcpNotify, TcpDeliver,
        vars, appFifos, tcpStack
  <2> QED BY <2>1 DEF Delivery!avars, offeredRequests, offeredHeaders, offeredBody
<1>2. ASSUME AppRequest \/ AppHeaders \/ AppBody PROVE UNCHANGED Delivery!avars
  <2>1. app \in [requests : Seq(Request), headers : Seq(Beat), body : Seq(Beat)]
    BY IInvFacts DEF PInv, EnvironmentOK
  <2>2. app.requests \in Seq(Request) /\ http_request \in Seq(Request)
    BY IInvFacts DEF PInv, EnvironmentOK, AppFifosOK, IsFifo
  <2>3. served' = served
    BY <1>2 DEF AppRequest, AppHeaders, AppBody, tcpStack
  <2>4. offeredRequests' = offeredRequests
    <3>1. CASE AppRequest
      <4>1. /\ http_request # <<>> /\ http_request' = Tail(http_request)
            /\ app'.requests = Append(app.requests, Head(http_request))
        BY <2>1, <3>1 DEF AppRequest, CanRead
      <4> QED BY <2>2, <4>1, StreamFacts DEF offeredRequests
    <3>2. CASE AppHeaders \/ AppBody
      BY <2>1, <3>2 DEF AppHeaders, AppBody, offeredRequests
    <3> QED BY <1>2, <3>1, <3>2
  <2>5. offeredHeaders' = offeredHeaders /\ offeredBody' = offeredBody
    BY <1>2, OfferedKept DEF PInv
  <2> QED BY <2>3, <2>4, <2>5 DEF Delivery!avars
<1> QED
  BY <1>1, <1>2, ServeStep, OfferRequestStep, OfferHeadersStep, OfferBodyStep
  DEF Next, PayloadParser, Poll, Delivery!DNext

\* Nothing served, nothing offered.
LEMMA DeliveryInit == Init => Delivery!DInit
BY DEF Init, Delivery!DInit, offeredRequests, offeredHeaders, offeredBody

\* The request path implements RequestDelivery: the three streams offered to the
\* application are those of the transfers the TCP stack served, each beat once, in
\* order, in its own stream, and no body ahead of its headers.
THEOREM ImplementsRequestDelivery == Spec => RefinesDelivery
<1>1. Spec => []IInv /\ []PInv
  BY IInvariant, PayloadInvariant, PTL
<1> QED
  BY <1>1, DeliveryInit, DeliveryStep, PTL DEF Spec, RefinesDelivery, Delivery!DSpec
=============================================================================
