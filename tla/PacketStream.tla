---------------------------- MODULE PacketStream ----------------------------
(***************************************************************************)
(* What response_aligner promises the TCP stack: packets go out one after  *)
(* the other as words of BUFFER bytes, only the final word of a packet     *)
(* shorter, every byte once and in its place; last is never set before the *)
(* final word of its packet.                                               *)
(* A packet may be damaged only if it is longer than a word and while what *)
(* has gone out of it fills whole words: from then on nothing is promised  *)
(* of it, but the packets after it are not concerned.                      *)
(***************************************************************************)
EXTENDS Naturals, Sequences, FiniteSets

CONSTANT BUFFER

VARIABLES
  packets,            \* per packet: the bytes known so far, and whether these are all
  damaged,            \* packets of which nothing is promised any more
  stream              \* words that have gone out: bytes (packet and position), last

avars == <<packets, damaged, stream>>

\* Bytes of packet p that have gone out.
Delivered(p) ==
  Cardinality({at \in (1 .. Len(stream)) \X (1 .. BUFFER) :
                 LET bytes == stream[at[1]].bytes
                 IN  at[2] \in DOMAIN bytes /\ bytes[at[2]].pkt = p})

Complete(p) == packets[p].closed /\ Delivered(p) = packets[p].bytes

PInit == packets = <<>> /\ damaged = {} /\ stream = <<>>

StartPacket ==
  /\ packets # <<>> => packets[Len(packets)].closed
  /\ \E n \in 1 .. BUFFER, last \in BOOLEAN :
       packets' = Append(packets, [bytes |-> n, closed |-> last])
  /\ UNCHANGED <<damaged, stream>>

GrowPacket ==
  /\ packets # <<>> /\ ~packets[Len(packets)].closed
  /\ \E n \in 1 .. BUFFER, last \in BOOLEAN :
       packets' = [packets EXCEPT ![Len(packets)].bytes = @ + n, ![Len(packets)].closed = last]
  /\ UNCHANGED <<damaged, stream>>

\* The packet whose turn it is.
Current(p) ==
  /\ p \in 1 .. Len(packets)
  /\ \A q \in 1 .. p - 1 : q \in damaged \/ Complete(q)

SendWord ==
  /\ \E p \in (1 .. Len(packets)) \ damaged, n \in 1 .. BUFFER, last \in BOOLEAN :
       LET upto == Delivered(p) + n
           final == packets[p].closed /\ upto = packets[p].bytes
       IN  /\ Current(p)
           /\ upto <= packets[p].bytes
           /\ n < BUFFER => final
           /\ last => final
           /\ stream' = Append(stream, [bytes |-> [i \in 1 .. n |-> [pkt |-> p, pos |-> upto - n + i - 1]],
                                        last  |-> last])
  /\ UNCHANGED <<packets, damaged>>

\* Some word goes out, or none.
AnyWord == stream' = stream \/ stream' = Append(stream, stream'[Len(stream')])

Damage ==
  /\ \E p \in (1 .. Len(packets)) \ damaged :
       /\ Current(p)
       /\ packets[p].bytes > BUFFER /\ Delivered(p) % BUFFER = 0
       /\ damaged' = damaged \cup {p}
  /\ AnyWord
  /\ UNCHANGED packets

SendDamaged ==
  /\ \E p \in damaged : Current(p)
  /\ AnyWord
  /\ UNCHANGED <<packets, damaged>>

PNext == StartPacket \/ GrowPacket \/ SendWord \/ Damage \/ SendDamaged

PSpec == PInit /\ [][PNext]_avars
=============================================================================
