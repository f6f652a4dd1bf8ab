--------------------------- MODULE ResponseAligner ---------------------------
(***************************************************************************)
(* response_aligner (hw/hls/response_aligner.cc): the words of a response  *)
(* come in partly filled, from headers, CRLF and body, and leave packed:   *)
(* each word is completed with the first bytes of the next one, and what   *)
(* does not fit stays in the register prevWord.                            *)
(*                                                                         *)
(*   state_machine -> tx_aligner -> response_aligner -> tcp_tx_data        *)
(*                                                                         *)
(* A word has BUFFER byte lanes (64 in the code), each with its keep bit.  *)
(* A byte is represented by its packet and its position in it, so that the *)
(* place of every byte that leaves can be compared with the place it came  *)
(* from.  Two things the code leaves undefined are choices here: bits it   *)
(* never writes, and what range(-1, 0) writes when prevLength is zero.     *)
(***************************************************************************)
EXTENDS Naturals, Sequences

CONSTANTS
  BUFFER,             \* byte lanes of a word     (64 in the code)
  TxAlignerDepth,     \* depth of tx_aligner      (16 in the code)
  PortDepth,          \* depth of tcp_tx_data
  MaxWords            \* bound on the words of a behaviour

ASSUME AlignerAssumption ==
  /\ BUFFER \in Nat \ {0, 1}
  /\ TxAlignerDepth \in Nat \ {0}
  /\ PortDepth \in Nat \ {0}

VARIABLES
  tx_aligner,         \* FIFO of words in
  tcp_tx_data,        \* FIFO of words out
  al,                 \* response_aligner: state, prevLength, prevWord
  packets,            \* per packet fed so far: its bytes, and whether last was set
  fed,                \* words fed so far
  sent,               \* words the TCP stack has taken
  damaged             \* packets that met an undefined range or a misplaced shift

vars == <<tx_aligner, tcp_tx_data, al, packets, fed, sent, damaged>>

-----------------------------------------------------------------------------
Lanes == 0 .. BUFFER - 1

\* The content of a lane that is never written: a byte of no packet.
NoByte == [pkt |-> 0, pos |-> 0]

\* The keep mask of a word with its first n lanes in use.
Contiguous(n) == [i \in Lanes |-> i < n]

\* The table of the 64 contiguous masks; any other mask counts as empty.
keepToLen(keep) ==
  LET lengths == {n \in 1 .. BUFFER : keep = Contiguous(n)}
  IN  IF lengths = {} THEN 0 ELSE CHOOSE n \in lengths : TRUE

\* The first prevLength lanes of prevWord, then those of currWord.  With a
\* prevLength of zero the last two assignments of the code are to range(-1, 0):
\* they may leave the word alone or disturb its lowest lane.
alignWords(prevLength, prevWord, currWord) ==
  LET lanes(prev, curr) == [i \in Lanes |-> IF i < prevLength THEN prev[i] ELSE curr[i - prevLength]]
      word == [data |-> lanes(prevWord.data, currWord.data),
               keep |-> lanes(prevWord.keep, currWord.keep)]
  IN  IF prevLength > 0
      THEN {word}
      ELSE {[data |-> [word.data EXCEPT ![0] = d], keep |-> [word.keep EXCEPT ![0] = k]] :
              d \in {word.data[0], NoByte}, k \in BOOLEAN}

\* The lanes from offset on, moved down; the lanes above are never written and
\* not kept (offset zero also clears bits from the highest keep bit up, which
\* nothing reads: prevLength is zero then).
shiftDown(offset, currWord) ==
  [data |-> [i \in Lanes |-> IF i + offset < BUFFER THEN currWord.data[i + offset] ELSE NoByte],
   keep |-> [i \in Lanes |-> i + offset < BUFFER /\ currWord.keep[i + offset]]]

\* An ap_uint<6> parameter: the count of lanes, modulo the word.
ap_uint6(n) == n % BUFFER

NoWord == [data |-> [i \in Lanes |-> NoByte], keep |-> [i \in Lanes |-> FALSE], last |-> FALSE]

Init ==
  /\ tx_aligner = <<>> /\ tcp_tx_data = <<>>
  /\ al = [state |-> "IDLE", prevLength |-> 0, prevWord |-> NoWord]
  /\ packets = <<>> /\ fed = 0 /\ sent = <<>> /\ damaged = {}

-----------------------------------------------------------------------------
(***************************************************************************)
(* response_aligner: one action per state                                  *)
(***************************************************************************)

AlIdle ==
  /\ al.state = "IDLE"
  /\ tx_aligner # <<>>
  /\ al' = [al EXCEPT !.state = "PULL_FIRST"]
  /\ UNCHANGED <<tx_aligner, tcp_tx_data, packets, fed, sent, damaged>>

\* A full word, or the only one of its packet, is sent as it is.
\* Mutant: a full first word waits for the next one.
AfterFirstAlwaysPulls(isLast, isFull) == IF isLast THEN "RESIDUE" ELSE "PULL_N"
AfterFirst(isLast, isFull) == IF isLast \/ isFull THEN "RESIDUE" ELSE "PULL_N"

AlPullFirst ==
  /\ al.state = "PULL_FIRST"
  /\ tx_aligner # <<>>
  /\ LET word   == Head(tx_aligner)
         length == keepToLen(word.keep)
     IN  al' = [state      |-> AfterFirst(word.last, length = BUFFER),
                prevLength |-> length,
                prevWord   |-> word]
  /\ tx_aligner' = Tail(tx_aligner)
  /\ UNCHANGED <<tcp_tx_data, packets, fed, sent, damaged>>

\* The packet whose bytes a word holds.
PacketOf(word) == word.data[0].pkt

\* Mutant: the end of a packet goes unnoticed.
AfterLastPullsOn(isLast, hasResidue) == "PULL_N"
\* Mutant: what is left over is forgotten.
AfterLastDropsResidue(isLast, hasResidue) == IF isLast THEN "IDLE" ELSE "PULL_N"
AfterLast(isLast, hasResidue) ==
  IF ~isLast THEN "PULL_N" ELSE IF hasResidue THEN "RESIDUE" ELSE "IDLE"

\* The last of the word sent.
\* Mutant: it is set although a residue follows.
LastSentEarly(isLast, hasResidue) == isLast
LastSent(isLast, hasResidue) == isLast /\ ~hasResidue

\* What the step does to the packet: the ranges of alignWords are undefined for
\* offset zero, and bytes are left over that shiftDown takes from lane offset
\* on, although the first of them is in lane BUFFER - offset.
Damages(offset, isFull, hasResidue) ==
  \/ offset = 0
  \/ isFull /\ hasResidue /\ offset # BUFFER - offset

\* shiftDown returns a word whose last is never written: the decision taken
\* for it before (line 399) is lost, and RESIDUE sends whatever is there.
AlPullN ==
  /\ al.state = "PULL_N"
  /\ tx_aligner # <<>>
  /\ LET currWord   == Head(tx_aligner)
         offset     == ap_uint6(al.prevLength)
         currLength == keepToLen(currWord.keep)
         isLast     == currWord.last
         hasResidue == currLength + al.prevLength > BUFFER
     IN  \E aligned \in alignWords(offset, al.prevWord, currWord), unwritten \in BOOLEAN :
           LET sendLength == keepToLen(aligned.keep)
               isFull     == sendLength = BUFFER
               sendWord   == [data |-> aligned.data, keep |-> aligned.keep,
                              last |-> LastSent(isLast, hasResidue)]
               shifted    == shiftDown(offset, currWord)
               push       == isLast \/ isFull \/ hasResidue
           IN  /\ push => Len(tcp_tx_data) < PortDepth
               /\ tcp_tx_data' = IF push THEN Append(tcp_tx_data, sendWord) ELSE tcp_tx_data
               /\ al' = [state      |-> AfterLast(isLast, hasResidue),
                         prevLength |-> IF isFull THEN al.prevLength + currLength - BUFFER
                                                  ELSE sendLength,
                         prevWord   |-> IF isFull
                                        THEN [data |-> shifted.data, keep |-> shifted.keep,
                                              last |-> unwritten]
                                        ELSE sendWord]
               /\ damaged' = IF Damages(offset, isFull, hasResidue)
                              THEN damaged \cup {PacketOf(currWord)} ELSE damaged
  /\ tx_aligner' = Tail(tx_aligner)
  /\ UNCHANGED <<packets, fed, sent>>

\* Mutant: the word is written whether there is room or not.
AlResidueUnchecked ==
  /\ al.state = "RESIDUE"
  /\ tcp_tx_data' = Append(tcp_tx_data, al.prevWord)
  /\ al' = [al EXCEPT !.state = "IDLE"]
  /\ UNCHANGED <<tx_aligner, packets, fed, sent, damaged>>

AlResidue ==
  /\ al.state = "RESIDUE"
  /\ Len(tcp_tx_data) < PortDepth
  /\ tcp_tx_data' = Append(tcp_tx_data, al.prevWord)
  /\ al' = [al EXCEPT !.state = "IDLE"]
  /\ UNCHANGED <<tx_aligner, packets, fed, sent, damaged>>

Aligner == AlIdle \/ AlPullFirst \/ AlPullN \/ AlResidue

-----------------------------------------------------------------------------
(***************************************************************************)
(* The environment (external to this module): state_machine feeds words    *)
(* with at least one byte, their lanes in use from the lowest one, last on *)
(* the final one of a packet; the TCP stack takes the words that leave.    *)
(***************************************************************************)

Open == packets # <<>> /\ ~packets[Len(packets)].closed

\* The n bytes of packet p that follow its first k.
WordOf(p, k, n, last) ==
  [data |-> [i \in Lanes |-> IF i < n THEN [pkt |-> p, pos |-> k + i] ELSE NoByte],
   keep |-> Contiguous(n), last |-> last]

Feed ==
  /\ fed < MaxWords
  /\ Len(tx_aligner) < TxAlignerDepth
  /\ \E n \in 1 .. BUFFER, last \in BOOLEAN :
       LET p == IF Open THEN Len(packets) ELSE Len(packets) + 1
           k == IF Open THEN packets[p].bytes ELSE 0
           packet == [bytes |-> k + n, closed |-> last]
       IN  /\ tx_aligner' = Append(tx_aligner, WordOf(p, k, n, last))
           /\ packets' = IF Open THEN [packets EXCEPT ![p] = packet] ELSE Append(packets, packet)
  /\ fed' = fed + 1
  /\ UNCHANGED <<tcp_tx_data, al, sent, damaged>>

TcpTake ==
  /\ tcp_tx_data # <<>>
  /\ sent' = Append(sent, Head(tcp_tx_data))
  /\ tcp_tx_data' = Tail(tcp_tx_data)
  /\ UNCHANGED <<tx_aligner, al, packets, fed, damaged>>

\* Nothing to do: the aligner waits for a word that never comes.
Poll ==
  /\ fed = MaxWords /\ tx_aligner = <<>> /\ tcp_tx_data = <<>>
  /\ al.state \in {"IDLE", "PULL_N"}
  /\ UNCHANGED vars

Next == Aligner \/ Feed \/ TcpTake \/ Poll

Spec     == Init /\ [][Next]_vars
FairSpec == Spec /\ WF_vars(Aligner) /\ WF_vars(TcpTake)

-----------------------------------------------------------------------------
(***************************************************************************)
(* Properties                                                              *)
(***************************************************************************)

Word == [data : [Lanes -> [pkt : Nat, pos : Nat]], keep : [Lanes -> BOOLEAN], last : BOOLEAN]

\* Every register and FIFO holds a value of its type, and no FIFO more than its
\* depth.
TypeOK ==
  /\ tx_aligner \in Seq(Word) /\ Len(tx_aligner) <= TxAlignerDepth
  /\ tcp_tx_data \in Seq(Word) /\ Len(tcp_tx_data) <= PortDepth
  /\ al \in [state : {"IDLE", "PULL_FIRST", "PULL_N", "RESIDUE"},
             prevLength : 0 .. BUFFER, prevWord : Word]
  /\ packets \in Seq([bytes : Nat \ {0}, closed : BOOLEAN])
  /\ fed \in Nat
  /\ sent \in Seq(Word)
  /\ damaged \subseteq 1 .. Len(packets)

\* The words that have left the aligner.
offered == sent \o tcp_tx_data

\* No word that leaves mixes the bytes of two packets, that is of two responses
\* and maybe two sessions, and the packets leave in the order they came, even
\* when a packet before was damaged.
PacketsIn(word) == {word.data[i].pkt : i \in {j \in Lanes : word.keep[j] /\ word.data[j] # NoByte}}
PacketsSeparate ==
  /\ \A k \in 1 .. Len(offered) : \A p, q \in PacketsIn(offered[k]) : p = q
  /\ \A k, l \in 1 .. Len(offered) :
       k < l => \A p \in PacketsIn(offered[k]), q \in PacketsIn(offered[l]) : p <= q

\* A word as the TCP stack sees it: the bytes it keeps, in order, and last.
Seen(word) ==
  [bytes |-> [i \in 1 .. keepToLen(word.keep) |-> word.data[i - 1]], last |-> word.last]

\* The aligner implements PacketStream: packed words, no byte lost, duplicated
\* or out of place, no early last, and in the packets that follow a damaged one as
\* in those before it.
Stream == INSTANCE PacketStream WITH stream <- [k \in DOMAIN offered |-> Seen(offered[k])]
RefinesPacketStream == Stream!PSpec

\* The packet PULL_N is reading: the one of the next word, or the latest one.
Reading == IF tx_aligner = <<>> THEN Len(packets) ELSE PacketOf(Head(tx_aligner))

\* The aligner never enters PULL_N with a full buffer, whose length would be
\* zero as a six-bit parameter; and the first prevLength lanes of the buffer
\* are the bytes of its packet that come after those already sent.
BufferFollowsStream ==
  al.state = "PULL_N" =>
    /\ al.prevLength < BUFFER
    /\ Reading \notin damaged =>
         \A i \in 0 .. al.prevLength - 1 :
           /\ al.prevWord.keep[i]
           /\ al.prevWord.data[i] = [pkt |-> Reading, pos |-> Stream!Delivered(Reading) + i]

\* Every packet that ends is eventually sent in full, damaged ones excepted:
\* no residue is left in the buffer.
PacketsForwarded ==
  \A p \in 1 .. MaxWords :
    (p \in 1 .. Len(packets) /\ packets[p].closed)
      ~> (p \in 1 .. Len(packets) /\ (p \in damaged \/ Stream!Complete(p)))

\* A reader of tcp_tx_data knows the end of a packet by the word that has last set
\* (response_processor.spec.cc:121, tcp.mock.cc:157), or by the length announced
\* to the TCP stack, which counts what goes to tx_aligner (response_processor.cc:57
\* and the comment of :90).  Once the aligner has read whole packets and rests,
\* one of the two can be relied on: there are as many words with last as packets,
\* or as many bytes of each as were announced.
EndsByLast   == Len(SelectSeq(offered, LAMBDA word : word.last)) = Len(packets)
EndsByLength == \A p \in 1 .. Len(packets) : Stream!Delivered(p) = packets[p].bytes
EndsByLastOrLength ==
  al.state = "IDLE" /\ tx_aligner = <<>> /\ ~Open => EndsByLast \/ EndsByLength
=============================================================================
