--------------------------- MODULE RequestDelivery ---------------------------
(***************************************************************************)
(* What the request path promises the application, without processes or    *)
(* FIFOs: the TCP stack serves transfers one after the other, and each of  *)
(* the three streams offered to the application is a function of them.     *)
(*   - requests: one request per transfer, in the order of the transfers;  *)
(*   - headers:  the second beat of every transfer that has one, last set; *)
(*   - body:     the beats from the third on, the final one with last set, *)
(*               never ahead of the headers of their transfer.             *)
(* The streams advance independently of each other otherwise.              *)
(***************************************************************************)
EXTENDS RequestData

VARIABLES served, requests, headers, body

avars == <<served, requests, headers, body>>

\* The transfer the latest beat of a stream belongs to, 0 before the first.
LatestReq(stream) == IF stream = <<>> THEN 0 ELSE stream[Len(stream)].data.req

\* n is the first transfer after the k-th with at least this many beats.
NextWith(n, k, beats) ==
  /\ n \in k + 1 .. Len(served)
  /\ BeatCount(served[n].length) >= beats
  /\ \A i \in k + 1 .. n - 1 : BeatCount(served[i].length) < beats

DInit == served = <<>> /\ requests = <<>> /\ headers = <<>> /\ body = <<>>

Serve ==
  /\ \E m \in Transfer : served' = Append(served, m)
  /\ UNCHANGED <<requests, headers, body>>

OfferRequest ==
  /\ Len(requests) < Len(served)
  /\ requests' = Append(requests, RequestFor(served[Len(requests) + 1]))
  /\ UNCHANGED <<served, headers, body>>

OfferHeaders ==
  /\ \E n \in 1 .. Len(served) :
       /\ NextWith(n, LatestReq(headers), 2)
       /\ headers' = Append(headers, [BeatOf(served[n], n, 2) EXCEPT !.last = TRUE])
  /\ UNCHANGED <<served, requests, body>>

\* The body of a transfer starts at its third beat ...
OfferFirstBody ==
  /\ body = <<>> \/ body[Len(body)].last
  /\ \E n \in 1 .. LatestReq(headers) :
       /\ NextWith(n, LatestReq(body), 3)
       /\ body' = Append(body, BeatOf(served[n], n, 3))
  /\ UNCHANGED <<served, requests, headers>>

\* ... and goes on to its last one before any other body starts.
OfferNextBody ==
  /\ body # <<>> /\ ~body[Len(body)].last
  /\ LET data == body[Len(body)].data IN
       body' = Append(body, BeatOf(served[data.req], data.req, data.pos + 1))
  /\ UNCHANGED <<served, requests, headers>>

DNext == Serve \/ OfferRequest \/ OfferHeaders \/ OfferFirstBody \/ OfferNextBody

DSpec == DInit /\ [][DNext]_avars
=============================================================================
