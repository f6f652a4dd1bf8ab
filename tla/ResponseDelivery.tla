-------------------------- MODULE ResponseDelivery --------------------------
(***************************************************************************)
(* What the response path promises, without processes or FIFOs: responses  *)
(* are settled one after the other; the TCP stack accepts a response, and  *)
(* then its packet follows, whole: headers, CR LF, body, last on the final *)
(* word and nowhere before; or the connection is closed, and not a byte    *)
(* of that response follows.  The length the TCP stack is told is that of  *)
(* the packet, whatever the width of the field it is told in.              *)
(***************************************************************************)
EXTENDS ResponseData

VARIABLES
  planned,            \* the responses of the application
  settled,            \* per response settled: the request and "accepted" or "closed"
  stream,             \* words that have gone towards the TCP stack
  next                \* the next word of the packet being sent, 0 between packets

avars == <<planned, settled, stream, next>>

\* The words of the packet of the n-th response, part by part.
HeadersWords(n) ==
  LET size == planned[n].headers_size
  IN  [k \in 1 .. WordCount(size) |-> Middle(WordOf(n, "headers", k, size))]
BodyWords(n) ==
  LET size == planned[n].body_size
  IN  [k \in 1 .. WordCount(size) |-> WordOf(n, "body", k, size)]
Packet(n) == HeadersWords(n) \o <<Crlf>> \o BodyWords(n)

\* The bytes of a part, all of whose words but the final one are full, and of
\* the packet of the n-th response.
PartBytes(words) == (Len(words) - 1) * WordBytes + words[Len(words)].bytes
PacketBytes(n) == PartBytes(HeadersWords(n)) + Crlf.bytes + PartBytes(BodyWords(n))

DInit == settled = <<>> /\ stream = <<>> /\ next = 0

\* The packet before is complete when the next response is settled; the length
\* told to the TCP stack is that of the packet.
Settle ==
  /\ Len(settled) < Len(planned)
  /\ next = 0
  /\ \E outcome \in {"accepted", "closed"} :
       /\ settled' = Append(settled, [sessionID |-> planned[Len(settled) + 1].sessionID,
                                      length    |-> PacketBytes(Len(settled) + 1),
                                      outcome   |-> outcome])
       /\ next' = IF outcome = "accepted" THEN 1 ELSE 0
  /\ UNCHANGED <<planned, stream>>

SendWord ==
  /\ next # 0
  /\ LET packet == Packet(Len(settled)) IN
       /\ stream' = Append(stream, packet[next])
       /\ next' = IF next = Len(packet) THEN 0 ELSE next + 1
  /\ UNCHANGED <<planned, settled>>

DNext == Settle \/ SendWord

DSpec == DInit /\ [][DNext]_avars
=============================================================================
