------------------------ MODULE ResponseAlignerProofs ------------------------
(***************************************************************************)
(* Proofs about ResponseAligner, for every width of a word, every depth of *)
(* the FIFOs and every number of words.                                    *)
(***************************************************************************)
EXTENDS ResponseAligner, FiniteSetTheorems, TLAPS

-----------------------------------------------------------------------------
\* The word that a feed of n bytes of packet p from its kth on makes.
PosOf(word) == word.data[0].pos
Size(word)  == keepToLen(word.keep)
IsFed(word) ==
  /\ PacketOf(word) \in Nat \ {0} /\ PosOf(word) \in Nat
  /\ Size(word) \in 1 .. BUFFER /\ word.last \in BOOLEAN
  /\ word = WordOf(PacketOf(word), PosOf(word), Size(word), word.last)

\* Where the byte after a word belongs.
NextPkt(word) == IF word.last THEN PacketOf(word) + 1 ELSE PacketOf(word)
NextPos(word) == IF word.last THEN 0 ELSE PosOf(word) + Size(word)

\* Where the byte that is fed next belongs.
FeedPkt == IF Open THEN Len(packets) ELSE Len(packets) + 1
FeedPos == IF Open THEN packets[Len(packets)].bytes ELSE 0

\* Where the first byte of the word at place i of q belongs: that of the byte
\* fed next, if there is no such word.
PktAt(q, pkt, i) == IF i <= Len(q) THEN PacketOf(q[i]) ELSE pkt
PosAt(q, pos, i) == IF i <= Len(q) THEN PosOf(q[i]) ELSE pos

\* The words of q follow each other without a gap, up to the byte fed next.
Chain(q, pkt, pos) ==
  \A i \in 1 .. Len(q) :
    /\ IsFed(q[i])
    /\ NextPkt(q[i]) = PktAt(q, pkt, i + 1)
    /\ NextPos(q[i]) = PosAt(q, pos, i + 1)

\* A word lies within its packet, and ends it if it is the last one.
Within(word, pkts) ==
  /\ PacketOf(word) \in 1 .. Len(pkts)
  /\ PosOf(word) + Size(word) <= pkts[PacketOf(word)].bytes
  /\ word.last => /\ pkts[PacketOf(word)].closed
                  /\ PosOf(word) + Size(word) = pkts[PacketOf(word)].bytes

\* The first n lanes of a word hold the bytes of packet p from its kth on.
Run(word, n, p, k) ==
  \A i \in 0 .. n - 1 : word.keep[i] /\ word.data[i] = [pkt |-> p, pos |-> k + i]

\* What waits for the aligner.
InputInv ==
  /\ \A p \in 1 .. Len(packets) - 1 : packets[p].closed
  /\ Chain(tx_aligner, FeedPkt, FeedPos)
  /\ \A i \in 1 .. Len(tx_aligner) : Within(tx_aligner[i], packets)

\* The byte the aligner reads next.
AtPkt == PktAt(tx_aligner, FeedPkt, 1)
AtPos == PosAt(tx_aligner, FeedPos, 1)

\* The packet whose bytes the aligner is to send.
Cur == IF al.state = "RESIDUE" /\ AtPos = 0 THEN AtPkt - 1 ELSE AtPkt

\* What has left the aligner.
StreamOf(words) == [k \in DOMAIN words |-> Seen(words[k])]
Places(str, p) ==
  {at \in (1 .. Len(str)) \X (1 .. BUFFER) :
     at[2] \in DOMAIN str[at[1]].bytes /\ str[at[1]].bytes[at[2]].pkt = p}
Count(str, p) == Cardinality(Places(str, p))
Gone(p) == Count(StreamOf(offered), p)

\* The packets before p are sent in full, or damaged.
Settled(p) ==
  \A q \in 1 .. p - 1 : q \in damaged \/ (packets[q].closed /\ Gone(q) = packets[q].bytes)

\* Damage is confined to the packets up to the one being read.
DamageInv ==
  /\ \A p \in damaged : p <= AtPkt
  /\ AtPos = 0 => AtPkt \notin damaged

\* Packets leave in the order they came.
OrderInv ==
  /\ \A k \in 1 .. Len(offered) : \A p \in PacketsIn(offered[k]) : p <= Cur
  /\ PacketsSeparate

RestInv ==
  al.state \in {"IDLE", "PULL_FIRST"} =>
    /\ AtPkt \notin damaged
    /\ Gone(AtPkt) = AtPos /\ AtPos % BUFFER = 0

PullInv ==
  al.state = "PULL_N" =>
    /\ AtPos > 0 /\ al.prevLength < BUFFER
    /\ PacketsIn(al.prevWord) \subseteq {AtPkt}
    /\ AtPkt \notin damaged =>
         /\ Gone(AtPkt) + al.prevLength = AtPos /\ Gone(AtPkt) % BUFFER = 0
         /\ Run(al.prevWord, al.prevLength, AtPkt, Gone(AtPkt))

ResidueInv ==
  al.state = "RESIDUE" =>
    /\ Cur \in 1 .. Len(packets)
    /\ PacketsIn(al.prevWord) \subseteq {Cur}
    /\ Cur \notin damaged =>
         /\ al.prevLength \in 1 .. BUFFER
         /\ keepToLen(al.prevWord.keep) = al.prevLength
         /\ \A i \in 0 .. al.prevLength - 1 : al.prevWord.data[i] = [pkt |-> Cur, pos |-> Gone(Cur) + i]
         /\ AtPos = 0 => /\ packets[Cur].closed
                         /\ Gone(Cur) + al.prevLength = packets[Cur].bytes
    /\ AtPos > 0 =>
         /\ Cur \notin damaged
         /\ Gone(Cur) + BUFFER = AtPos /\ Gone(Cur) % BUFFER = 0
         /\ al.prevLength = BUFFER /\ ~al.prevWord.last

IInv ==
  /\ TypeOK /\ InputInv /\ DamageInv /\ OrderInv
  /\ Settled(Cur) /\ RestInv /\ PullInv /\ ResidueInv

-----------------------------------------------------------------------------
(***************************************************************************)
(* Keep masks and words                                                    *)
(***************************************************************************)

\* keepToLen reads a contiguous mask as its length, and nothing else as one.
LEMMA KeepLength ==
  /\ \A n \in 1 .. BUFFER : keepToLen(Contiguous(n)) = n
  /\ \A keep : keepToLen(keep) \in 0 .. BUFFER
  /\ \A keep : keepToLen(keep) > 0 => keep = Contiguous(keepToLen(keep))
<1>1. BUFFER \in Nat /\ BUFFER >= 2
  BY AlignerAssumption
<1>2. ASSUME NEW keep
      PROVE  /\ keepToLen(keep) \in 0 .. BUFFER
             /\ keepToLen(keep) > 0 => keep = Contiguous(keepToLen(keep))
  <2> DEFINE lengths == {n \in 1 .. BUFFER : keep = Contiguous(n)}
  <2>1. keepToLen(keep) = IF lengths = {} THEN 0 ELSE CHOOSE n \in lengths : TRUE
    BY DEF keepToLen
  <2>2. CASE lengths = {}
    BY <2>1, <2>2, <1>1
  <2>3. CASE lengths # {}
    <3>1. keepToLen(keep) \in lengths
      BY <2>1, <2>3
    <3> QED BY <3>1, <1>1
  <2> QED BY <2>2, <2>3
<1>3. ASSUME NEW n \in 1 .. BUFFER
      PROVE  keepToLen(Contiguous(n)) = n
  <2> DEFINE lengths == {m \in 1 .. BUFFER : Contiguous(n) = Contiguous(m)}
  <2>1. ASSUME NEW m \in 1 .. BUFFER, Contiguous(n) = Contiguous(m)
        PROVE  m = n
    <3>1. \A i \in 0 .. BUFFER - 1 : (i < n) <=> (i < m)
      <4> TAKE i \in 0 .. BUFFER - 1
      <4>1. Contiguous(n)[i] = (i < n) /\ Contiguous(m)[i] = (i < m)
        BY DEF Contiguous, Lanes
      <4> QED BY <4>1, <2>1
    <3>2. CASE m < n
      BY <3>1, <3>2, <1>1
    <3>3. CASE n < m
      BY <3>1, <3>3, <1>1
    <3> QED BY <3>2, <3>3, <1>1
  <2>2. lengths = {n}
    BY <2>1
  <2>3. keepToLen(Contiguous(n)) = IF lengths = {} THEN 0 ELSE CHOOSE m \in lengths : TRUE
    BY DEF keepToLen
  <2> QED BY <2>2, <2>3
<1> QED BY <1>2, <1>3

\* A mask whose first n lanes are kept, and no other, is the one of length n.
LEMMA ContiguousIs ==
  ASSUME NEW keep, NEW n \in 1 .. BUFFER,
         keep = [i \in Lanes |-> keep[i]], \A i \in Lanes : keep[i] = (i < n)
  PROVE  keep = Contiguous(n) /\ keepToLen(keep) = n
<1>1. keep = Contiguous(n)
  BY DEF Contiguous
<1> QED BY <1>1, KeepLength

\* What a fed word is made of.
LEMMA FedWord ==
  ASSUME NEW word, IsFed(word)
  PROVE  /\ word \in Word
         /\ \A i \in Lanes : word.keep[i] = (i < Size(word))
         /\ \A i \in Lanes : word.data[i] = IF i < Size(word)
                                            THEN [pkt |-> PacketOf(word), pos |-> PosOf(word) + i]
                                            ELSE NoByte
         /\ PacketsIn(word) \subseteq {PacketOf(word)}
<1> DEFINE p == PacketOf(word)
           k == PosOf(word)
           n == Size(word)
<1>1. BUFFER \in Nat /\ p \in Nat /\ k \in Nat /\ n \in 1 .. BUFFER /\ word.last \in BOOLEAN
  BY AlignerAssumption DEF IsFed
<1>2. word = WordOf(p, k, n, word.last)
  BY DEF IsFed
<1> HIDE DEF p, k, n
<1>3. word.keep = [i \in Lanes |-> i < n]
  BY <1>2 DEF WordOf, Contiguous
<1>4. word.data = [i \in Lanes |-> IF i < n THEN [pkt |-> p, pos |-> k + i] ELSE NoByte]
  BY <1>2 DEF WordOf
<1>5. word.data \in [Lanes -> [pkt : Nat, pos : Nat]]
  BY <1>4, <1>1 DEF Lanes, NoByte
<1>6. word.keep \in [Lanes -> BOOLEAN]
  BY <1>3
<1>7. word \in Word
  BY <1>2, <1>5, <1>6, <1>1 DEF WordOf, Word
<1>8. PacketsIn(word) \subseteq {p}
  BY <1>4 DEF PacketsIn
<1> QED BY <1>3, <1>4, <1>7, <1>8 DEF p, k, n

\* A word that is made of the next bytes of a packet is a fed one.
LEMMA MakeFed ==
  ASSUME NEW p \in Nat \ {0}, NEW k \in Nat, NEW n \in 1 .. BUFFER, NEW last \in BOOLEAN,
         NEW word, word = WordOf(p, k, n, last)
  PROVE  /\ IsFed(word)
         /\ PacketOf(word) = p /\ PosOf(word) = k /\ Size(word) = n /\ word.last = last
<1>1. BUFFER \in Nat /\ BUFFER >= 2 /\ 0 \in Lanes
  BY AlignerAssumption DEF Lanes
<1>2. word.data[0] = [pkt |-> p, pos |-> k]
  BY <1>1 DEF WordOf
<1>3. PacketOf(word) = p /\ PosOf(word) = k
  BY <1>2 DEF PacketOf, PosOf
<1>4. Size(word) = n
  BY KeepLength DEF Size, WordOf
<1>5. word.last = last
  BY DEF WordOf
<1> QED BY <1>3, <1>4, <1>5 DEF IsFed

\* The bytes of a word as the TCP stack sees it belong to packets of the word,
\* or to none.
LEMMA SeenBytes ==
  ASSUME NEW word \in Word
  PROVE  /\ Seen(word) = [bytes |-> Seen(word).bytes, last |-> word.last]
         /\ DOMAIN Seen(word).bytes = 1 .. keepToLen(word.keep)
         /\ \A i \in 1 .. keepToLen(word.keep) :
              /\ i - 1 \in Lanes
              /\ Seen(word).bytes[i] = word.data[i - 1]
              /\ Seen(word).bytes[i].pkt \in PacketsIn(word) \cup {0}
<1>1. BUFFER \in Nat /\ keepToLen(word.keep) \in 0 .. BUFFER
  BY AlignerAssumption, KeepLength
<1>2. Seen(word).bytes = [i \in 1 .. keepToLen(word.keep) |-> word.data[i - 1]]
  BY DEF Seen
<1>3. ASSUME NEW i \in 1 .. keepToLen(word.keep)
      PROVE  /\ i - 1 \in Lanes
             /\ Seen(word).bytes[i] = word.data[i - 1]
             /\ Seen(word).bytes[i].pkt \in PacketsIn(word) \cup {0}
  <2>1. i - 1 \in Lanes /\ i - 1 < keepToLen(word.keep)
    BY <1>1 DEF Lanes
  <2>2. word.keep = Contiguous(keepToLen(word.keep))
    BY KeepLength, <1>1
  <2>3. Contiguous(keepToLen(word.keep))[i - 1]
    BY <2>1 DEF Contiguous
  <2>4. word.keep[i - 1]
    BY <2>2, <2>3
  <2>5. CASE word.data[i - 1] = NoByte
    BY <2>1, <2>5, <1>2 DEF NoByte
  <2>6. CASE word.data[i - 1] # NoByte
    BY <2>1, <2>4, <2>6, <1>2 DEF PacketsIn
  <2> QED BY <2>5, <2>6
<1>4. Seen(word) = [bytes |-> Seen(word).bytes, last |-> word.last]
  BY DEF Seen
<1> QED BY <1>2, <1>3, <1>4

-----------------------------------------------------------------------------
(***************************************************************************)
(* Bytes of a packet that have gone out                                    *)
(***************************************************************************)

\* A sequence with one more element.
LEMMA AppendIs ==
  ASSUME NEW S, NEW s \in Seq(S), NEW e
  PROVE  /\ Append(s, e) = [k \in 1 .. Len(s) + 1 |-> IF k <= Len(s) THEN s[k] ELSE e]
         /\ Len(Append(s, e)) = Len(s) + 1
         /\ \A k \in 1 .. Len(s) : Append(s, e)[k] = s[k]
         /\ Append(s, e)[Len(s) + 1] = e
<1> DEFINE T == S \cup {e}
<1>1. s \in Seq(T) /\ e \in T /\ Len(s) \in Nat
  OBVIOUS
<1> HIDE DEF T
<1>2. Append(s, e) \in Seq(T) /\ Len(Append(s, e)) = Len(s) + 1
  BY <1>1
<1>3. \A k \in 1 .. Len(s) + 1 : Append(s, e)[k] = IF k <= Len(s) THEN s[k] ELSE e
  BY <1>1
<1>4. ASSUME NEW a \in Seq(T)
      PROVE  a = [k \in 1 .. Len(a) |-> a[k]]
  OBVIOUS
<1>5. Append(s, e) = [k \in 1 .. Len(s) + 1 |-> Append(s, e)[k]]
  BY <1>2, <1>4
<1>6. [k \in 1 .. Len(s) + 1 |-> Append(s, e)[k]] = [k \in 1 .. Len(s) + 1 |-> IF k <= Len(s) THEN s[k] ELSE e]
  BY <1>3
<1> QED BY <1>1, <1>2, <1>3, <1>5, <1>6

\* The stream grows as the words do.
LEMMA StreamAppend ==
  ASSUME NEW words \in Seq(Word), NEW word \in Word
  PROVE  /\ Append(words, word) \in Seq(Word)
         /\ StreamOf(Append(words, word)) = Append(StreamOf(words), Seen(word))
         /\ Len(StreamOf(words)) = Len(words)
         /\ \A k \in 1 .. Len(words) : StreamOf(words)[k] = Seen(words[k])
<1> DEFINE more == Append(words, word)
<1>1. DOMAIN words = 1 .. Len(words) /\ Len(words) \in Nat
  OBVIOUS
<1>2. more \in Seq(Word) /\ DOMAIN more = 1 .. Len(words) + 1
  OBVIOUS
<1>3. StreamOf(words) = [k \in 1 .. Len(words) |-> Seen(words[k])]
  BY <1>1 DEF StreamOf
<1>4. StreamOf(more) = [k \in 1 .. Len(words) + 1 |-> Seen(more[k])]
  BY <1>2 DEF StreamOf
<1>5. \A k \in 1 .. Len(words) : more[k] = words[k]
  OBVIOUS
<1>6. more[Len(words) + 1] = word
  OBVIOUS
<1> HIDE DEF more
<1>7. StreamOf(words) \in Seq({Seen(words[k]) : k \in 1 .. Len(words)})
  BY <1>3, <1>1
<1>8. Len(StreamOf(words)) = Len(words)
  BY <1>3, <1>1
<1>9. Append(StreamOf(words), Seen(word)) =
        [k \in 1 .. Len(words) + 1 |-> IF k <= Len(words) THEN StreamOf(words)[k] ELSE Seen(word)]
  BY <1>7, <1>8, AppendIs
<1>10. StreamOf(more) = [k \in 1 .. Len(words) + 1 |-> IF k <= Len(words) THEN StreamOf(words)[k] ELSE Seen(word)]
  BY <1>3, <1>4, <1>5, <1>6, <1>1
<1> QED BY <1>2, <1>3, <1>8, <1>9, <1>10 DEF more

\* They are counted by a number.
LEMMA CountIsNat ==
  ASSUME NEW words \in Seq(Word), NEW p
  PROVE  /\ IsFiniteSet(Places(StreamOf(words), p))
         /\ Count(StreamOf(words), p) \in Nat
<1>1. Len(StreamOf(words)) \in Nat /\ BUFFER \in Nat
  <2>1. DOMAIN words = 1 .. Len(words) /\ Len(words) \in Nat
    OBVIOUS
  <2>2. StreamOf(words) \in Seq({Seen(words[k]) : k \in 1 .. Len(words)})
    BY <2>1 DEF StreamOf
  <2> QED BY <2>2, AlignerAssumption
<1> DEFINE S == 1 .. Len(StreamOf(words))
           T == 1 .. BUFFER
<1>2. IsFiniteSet(S) /\ IsFiniteSet(T)
  BY <1>1, FS_Interval
<1>3. IsFiniteSet(S \X T)
  BY <1>2, FS_Product
<1>4. Places(StreamOf(words), p) \in SUBSET (S \X T)
  BY DEF Places
<1>5. IsFiniteSet(Places(StreamOf(words), p))
  BY <1>3, <1>4, FS_Subset
<1> QED BY <1>5, FS_CardinalityType DEF Count

\* A word with no byte of the packet changes nothing.
LEMMA CountOthers ==
  ASSUME NEW words \in Seq(Word), NEW word \in Word, NEW p \in Nat \ {0}, p \notin PacketsIn(word)
  PROVE  Count(StreamOf(Append(words, word)), p) = Count(StreamOf(words), p)
<1> DEFINE str == StreamOf(words)
           more == StreamOf(Append(words, word))
<1>1. /\ more = Append(str, Seen(word)) /\ Len(str) = Len(words) /\ Len(words) \in Nat
      /\ Len(more) = Len(words) + 1
      /\ \A k \in 1 .. Len(words) : more[k] = str[k]
      /\ more[Len(words) + 1] = Seen(word)
  <2>1. more = Append(str, Seen(word)) /\ Len(str) = Len(words) /\ Len(words) \in Nat
    BY StreamAppend
  <2>2. DOMAIN words = 1 .. Len(words)
    OBVIOUS
  <2>3. str \in Seq({Seen(words[k]) : k \in 1 .. Len(words)})
    BY <2>2, <2>1 DEF StreamOf
  <2> HIDE DEF str, more
  <2> QED BY <2>1, <2>3, AppendIs
<1>2. \A i \in DOMAIN Seen(word).bytes : Seen(word).bytes[i].pkt # p
  BY SeenBytes
<1> HIDE DEF str, more
<1>3. Places(more, p) \subseteq Places(str, p)
  <2> SUFFICES ASSUME NEW at \in Places(more, p)
               PROVE  at \in Places(str, p)
    OBVIOUS
  <2>1. /\ at \in (1 .. Len(words) + 1) \X (1 .. BUFFER)
        /\ at[2] \in DOMAIN more[at[1]].bytes /\ more[at[1]].bytes[at[2]].pkt = p
    BY <1>1 DEF Places
  <2>2. at[1] # Len(words) + 1
    BY <1>1, <1>2, <2>1
  <2>3. at[1] \in 1 .. Len(words) /\ at \in (1 .. Len(words)) \X (1 .. BUFFER)
    BY <1>1, <2>1, <2>2
  <2> QED BY <1>1, <2>1, <2>3 DEF Places
<1>4. Places(str, p) \subseteq Places(more, p)
  <2> SUFFICES ASSUME NEW at \in Places(str, p)
               PROVE  at \in Places(more, p)
    OBVIOUS
  <2>1. /\ at \in (1 .. Len(words)) \X (1 .. BUFFER)
        /\ at[2] \in DOMAIN str[at[1]].bytes /\ str[at[1]].bytes[at[2]].pkt = p
    BY <1>1 DEF Places
  <2>2. at \in (1 .. Len(words) + 1) \X (1 .. BUFFER)
    BY <1>1, <2>1
  <2> QED BY <1>1, <2>1, <2>2 DEF Places
<1>5. Places(more, p) = Places(str, p)
  BY <1>3, <1>4
<1> QED BY <1>5 DEF Count, str, more

\* A word of that packet alone adds its length.
LEMMA CountOwn ==
  ASSUME NEW words \in Seq(Word), NEW word \in Word, NEW p \in Nat \ {0},
         \A i \in 1 .. keepToLen(word.keep) : Seen(word).bytes[i].pkt = p
  PROVE  Count(StreamOf(Append(words, word)), p) =
           Count(StreamOf(words), p) + keepToLen(word.keep)
<1> DEFINE str  == StreamOf(words)
           more == StreamOf(Append(words, word))
           n    == keepToLen(word.keep)
           m    == Len(words) + 1
           new  == {<<m, i>> : i \in 1 .. n}
<1>1. /\ more = Append(str, Seen(word)) /\ Len(str) = Len(words) /\ Len(words) \in Nat
      /\ Len(more) = m
      /\ \A k \in 1 .. Len(words) : more[k] = str[k]
      /\ more[m] = Seen(word)
  <2>1. more = Append(str, Seen(word)) /\ Len(str) = Len(words) /\ Len(words) \in Nat
    BY StreamAppend
  <2>2. DOMAIN words = 1 .. Len(words)
    OBVIOUS
  <2>3. str \in Seq({Seen(words[k]) : k \in 1 .. Len(words)})
    BY <2>2, <2>1 DEF StreamOf
  <2> HIDE DEF str, more
  <2> QED BY <2>1, <2>3, AppendIs
<1>2. n \in 0 .. BUFFER /\ BUFFER \in Nat /\ DOMAIN Seen(word).bytes = 1 .. n
  BY KeepLength, SeenBytes, AlignerAssumption
<1>3. \A i \in 1 .. n : Seen(word).bytes[i].pkt = p
  OBVIOUS
<1>4. IsFiniteSet(Places(str, p)) /\ Count(str, p) \in Nat
  BY CountIsNat
<1> HIDE DEF str, more, n
<1>5. Places(more, p) \subseteq Places(str, p) \cup new
  <2> SUFFICES ASSUME NEW at \in Places(more, p)
               PROVE  at \in Places(str, p) \cup new
    OBVIOUS
  <2>1. /\ at \in (1 .. m) \X (1 .. BUFFER)
        /\ at[2] \in DOMAIN more[at[1]].bytes /\ more[at[1]].bytes[at[2]].pkt = p
    BY <1>1 DEF Places
  <2>2. CASE at[1] = m
    <3>1. at[2] \in 1 .. n
      BY <1>1, <1>2, <2>1, <2>2
    <3>2. at = <<m, at[2]>>
      BY <2>1, <2>2
    <3> QED BY <3>1, <3>2
  <2>3. CASE at[1] # m
    <3>1. at[1] \in 1 .. Len(words) /\ at \in (1 .. Len(words)) \X (1 .. BUFFER)
      BY <1>1, <2>1, <2>3
    <3> QED BY <1>1, <2>1, <3>1 DEF Places
  <2> QED BY <2>2, <2>3
<1>6. Places(str, p) \subseteq Places(more, p)
  <2> SUFFICES ASSUME NEW at \in Places(str, p)
               PROVE  at \in Places(more, p)
    OBVIOUS
  <2>1. /\ at \in (1 .. Len(words)) \X (1 .. BUFFER)
        /\ at[2] \in DOMAIN str[at[1]].bytes /\ str[at[1]].bytes[at[2]].pkt = p
    BY <1>1 DEF Places
  <2>2. at \in (1 .. m) \X (1 .. BUFFER)
    BY <1>1, <2>1
  <2> QED BY <1>1, <2>1, <2>2 DEF Places
<1>7. new \subseteq Places(more, p)
  <2> SUFFICES ASSUME NEW i \in 1 .. n
               PROVE  <<m, i>> \in Places(more, p)
    OBVIOUS
  <2>1. <<m, i>> \in (1 .. m) \X (1 .. BUFFER)
    BY <1>1, <1>2
  <2> QED BY <2>1, <1>1, <1>2, <1>3 DEF Places
<1>8. Places(str, p) \cap new = {}
  BY <1>1 DEF Places
<1>9. IsFiniteSet(new) /\ Cardinality(new) = n
  <2> DEFINE f == [i \in 1 .. n |-> <<m, i>>]
  <2>1. f \in Bijection(1 .. n, new)
    BY <1>2 DEF Bijection, Injection, Surjection, IsInjective
  <2>2. ExistsBijection(1 .. n, new)
    BY <2>1 DEF ExistsBijection
  <2>3. IsFiniteSet(1 .. n) /\ Cardinality(1 .. n) = n
    BY <1>2, FS_Interval
  <2> QED BY <2>2, <2>3, FS_Bijection
<1>10. Cardinality(Places(more, p)) = Cardinality(Places(str, p)) + n
  <2>1. Places(more, p) = Places(str, p) \cup new
    BY <1>5, <1>6, <1>7
  <2>2. Cardinality(Places(more, p)) =
          Cardinality(Places(str, p)) + Cardinality(new) - Cardinality(Places(str, p) \cap new)
    BY <2>1, <1>4, <1>9, FS_Union
  <2>3. Cardinality(Places(str, p) \cap new) = 0
    BY <1>8, FS_EmptySet
  <2> QED BY <2>2, <2>3, <1>9, <1>4, <1>2 DEF Count
<1> QED BY <1>10 DEF Count, str, more, n

\* None has gone out if no word has one.
LEMMA CountNone ==
  ASSUME NEW words \in Seq(Word), NEW p \in Nat \ {0},
         \A k \in 1 .. Len(words) : p \notin PacketsIn(words[k])
  PROVE  Count(StreamOf(words), p) = 0
<1> DEFINE str == StreamOf(words)
<1>1. DOMAIN words = 1 .. Len(words) /\ Len(words) \in Nat
  OBVIOUS
<1>2. str = [k \in 1 .. Len(words) |-> Seen(words[k])]
  BY <1>1 DEF StreamOf
<1>3. Len(str) = Len(words)
  BY <1>1, <1>2
<1> HIDE DEF str
<1>4. Places(str, p) = {}
  <2> SUFFICES ASSUME NEW at \in Places(str, p)
               PROVE  FALSE
    OBVIOUS
  <2>1. /\ at[1] \in 1 .. Len(words)
        /\ at[2] \in DOMAIN str[at[1]].bytes /\ str[at[1]].bytes[at[2]].pkt = p
    BY <1>3 DEF Places
  <2>2. words[at[1]] \in Word /\ str[at[1]] = Seen(words[at[1]])
    BY <2>1, <1>2
  <2>3. p \in PacketsIn(words[at[1]]) \cup {0}
    BY <2>1, <2>2, SeenBytes
  <2> QED BY <2>1, <2>3
<1> QED BY <1>4, FS_EmptySet DEF Count, str

-----------------------------------------------------------------------------
(***************************************************************************)
(* What waits for the aligner                                              *)
(***************************************************************************)

\* The first word of a chain, and the chain behind it.
LEMMA ChainHead ==
  ASSUME NEW q \in Seq(Word), q # <<>>, NEW pkt, NEW pos, Chain(q, pkt, pos)
  PROVE  /\ Tail(q) \in Seq(Word) /\ Len(Tail(q)) = Len(q) - 1
         /\ Head(q) = q[1] /\ IsFed(Head(q))
         /\ PktAt(q, pkt, 1) = PacketOf(Head(q)) /\ PosAt(q, pos, 1) = PosOf(Head(q))
         /\ PktAt(Tail(q), pkt, 1) = NextPkt(Head(q))
         /\ PosAt(Tail(q), pos, 1) = NextPos(Head(q))
         /\ Chain(Tail(q), pkt, pos)
         /\ \A i \in 1 .. Len(Tail(q)) : i + 1 \in 1 .. Len(q) /\ Tail(q)[i] = q[i + 1]
<1>1. Len(q) \in Nat /\ Len(q) >= 1 /\ Head(q) = q[1]
  OBVIOUS
<1>2. Tail(q) \in Seq(Word) /\ Len(Tail(q)) = Len(q) - 1
  OBVIOUS
<1>3. \A i \in 1 .. Len(q) - 1 : Tail(q)[i] = q[i + 1]
  BY <1>1
<1> DEFINE t == Tail(q)
<1> HIDE DEF t
<1>4. \A i \in 1 .. Len(q) : PktAt(t, pkt, i) = PktAt(q, pkt, i + 1) /\ PosAt(t, pos, i) = PosAt(q, pos, i + 1)
  BY <1>1, <1>2, <1>3 DEF PktAt, PosAt, t
<1>5. \A i \in 1 .. Len(q) :
        /\ IsFed(q[i])
        /\ NextPkt(q[i]) = PktAt(q, pkt, i + 1)
        /\ NextPos(q[i]) = PosAt(q, pos, i + 1)
  BY DEF Chain
<1>6. Chain(t, pkt, pos)
  <2> SUFFICES ASSUME NEW i \in 1 .. Len(q) - 1
               PROVE  /\ IsFed(t[i])
                      /\ NextPkt(t[i]) = PktAt(t, pkt, i + 1)
                      /\ NextPos(t[i]) = PosAt(t, pos, i + 1)
    BY <1>2 DEF Chain, t
  <2>1. i + 1 \in 1 .. Len(q) /\ t[i] = q[i + 1]
    BY <1>1, <1>3 DEF t
  <2> QED BY <2>1, <1>4, <1>5
<1>7. PktAt(q, pkt, 1) = PacketOf(Head(q)) /\ PosAt(q, pos, 1) = PosOf(Head(q))
  BY <1>1 DEF PktAt, PosAt
<1>8. PktAt(t, pkt, 1) = NextPkt(Head(q)) /\ PosAt(t, pos, 1) = NextPos(Head(q))
  BY <1>1, <1>4, <1>5
<1>9. IsFed(Head(q))
  BY <1>1, <1>5
<1>10. \A i \in 1 .. Len(t) : i + 1 \in 1 .. Len(q) /\ t[i] = q[i + 1]
  BY <1>1, <1>2, <1>3 DEF t
<1> QED BY <1>1, <1>2, <1>6, <1>7, <1>8, <1>9, <1>10 DEF t

\* A word that continues a chain lengthens it; its head stays where it is.
LEMMA ChainAppend ==
  ASSUME NEW q \in Seq(Word), NEW pkt, NEW pos, Chain(q, pkt, pos),
         NEW word \in Word, IsFed(word), PacketOf(word) = pkt, PosOf(word) = pos
  PROVE  /\ Chain(Append(q, word), NextPkt(word), NextPos(word))
         /\ PktAt(Append(q, word), NextPkt(word), 1) = PktAt(q, pkt, 1)
         /\ PosAt(Append(q, word), NextPos(word), 1) = PosAt(q, pos, 1)
<1> DEFINE r == Append(q, word)
<1>1. /\ Len(q) \in Nat /\ r \in Seq(Word) /\ Len(r) = Len(q) + 1
      /\ \A i \in 1 .. Len(q) : r[i] = q[i]
      /\ r[Len(q) + 1] = word
  OBVIOUS
<1> HIDE DEF r
<1>2. \A i \in 1 .. Len(q) + 1 :
        /\ PktAt(r, NextPkt(word), i) = PktAt(q, pkt, i)
        /\ PosAt(r, NextPos(word), i) = PosAt(q, pos, i)
  BY <1>1 DEF PktAt, PosAt
<1>3. \A i \in 1 .. Len(q) :
        /\ IsFed(q[i])
        /\ NextPkt(q[i]) = PktAt(q, pkt, i + 1)
        /\ NextPos(q[i]) = PosAt(q, pos, i + 1)
  BY DEF Chain
<1>4. ASSUME NEW i \in 1 .. Len(q) + 1
      PROVE  /\ IsFed(r[i])
             /\ NextPkt(r[i]) = PktAt(r, NextPkt(word), i + 1)
             /\ NextPos(r[i]) = PosAt(r, NextPos(word), i + 1)
  <2>1. CASE i = Len(q) + 1
    <3>1. ~(i + 1 <= Len(r)) /\ r[i] = word
      BY <1>1, <2>1
    <3> QED BY <3>1 DEF PktAt, PosAt
  <2>2. CASE i \in 1 .. Len(q)
    <3>1. i + 1 \in 1 .. Len(q) + 1 /\ r[i] = q[i]
      BY <1>1, <2>2
    <3> QED BY <3>1, <2>2, <1>2, <1>3
  <2> QED BY <2>1, <2>2, <1>1
<1>5. Chain(r, NextPkt(word), NextPos(word))
  BY <1>1, <1>4 DEF Chain
<1>6. 1 \in 1 .. Len(q) + 1
  BY <1>1
<1> QED BY <1>2, <1>5, <1>6 DEF r

\* Packets are records of their type.
Packet == [bytes : Nat \ {0}, closed : BOOLEAN]

\* The elements of a sequence are of its type.
LEMMA SeqElement ==
  ASSUME NEW S, NEW s \in Seq(S), NEW i \in 1 .. Len(s)
  PROVE  s[i] \in S
  OBVIOUS

\* Every packet known is a record of its length and whether it ended.
LEMMA PacketTypes ==
  ASSUME TypeOK
  PROVE  /\ packets \in Seq(Packet) /\ Len(packets) \in Nat
         /\ \A p \in 1 .. Len(packets) :
              /\ packets[p] = [bytes |-> packets[p].bytes, closed |-> packets[p].closed]
              /\ packets[p].bytes \in Nat /\ packets[p].bytes > 0 /\ packets[p].closed \in BOOLEAN
<1>1. packets \in Seq(Packet)
  BY DEF TypeOK, Packet
<1>2. \A p \in 1 .. Len(packets) : packets[p] \in Packet
  BY <1>1, SeqElement
<1> QED BY <1>1, <1>2 DEF Packet

\* The packet fed next.
LEMMA FeedFacts ==
  ASSUME TypeOK
  PROVE  /\ FeedPkt \in 1 .. Len(packets) + 1 /\ FeedPos \in Nat
         /\ FeedPos > 0 => FeedPkt \in 1 .. Len(packets) /\ FeedPos = packets[FeedPkt].bytes
         /\ FeedPkt \in 1 .. Len(packets) => ~packets[FeedPkt].closed
<1>1. packets \in Seq([bytes : Nat \ {0}, closed : BOOLEAN]) /\ Len(packets) \in Nat
  BY DEF TypeOK
<1>2. CASE Open
  <2>1. Len(packets) \in 1 .. Len(packets)
    <3>1. packets # <<>>
      BY <1>2 DEF Open
    <3> QED BY <3>1, <1>1
  <2>2. FeedPkt = Len(packets) /\ FeedPos = packets[Len(packets)].bytes
    BY <1>2 DEF FeedPkt, FeedPos
  <2>3. ~packets[Len(packets)].closed
    BY <1>2 DEF Open
  <2>4. FeedPos \in Nat
    BY <2>1, <2>2, PacketTypes
  <2>5. Len(packets) \in Nat
    BY PacketTypes
  <2> QED BY <2>1, <2>2, <2>3, <2>4, <2>5
<1>3. CASE ~Open
  BY <1>1, <1>3 DEF FeedPkt, FeedPos
<1> QED BY <1>2, <1>3

\* The byte read next belongs to a packet that is known, or to the next one.
LEMMA AtFacts ==
  ASSUME TypeOK, InputInv
  PROVE  /\ AtPkt \in 1 .. Len(packets) + 1 /\ AtPos \in Nat /\ Len(packets) \in Nat
         /\ AtPos > 0 => AtPkt \in 1 .. Len(packets) /\ AtPos <= packets[AtPkt].bytes
<1>1. /\ packets \in Seq([bytes : Nat \ {0}, closed : BOOLEAN]) /\ Len(packets) \in Nat
      /\ tx_aligner \in Seq(Word)
  BY DEF TypeOK
<1>2. CASE tx_aligner = <<>>
  <2>1. AtPkt = FeedPkt /\ AtPos = FeedPos
    BY <1>2 DEF AtPkt, AtPos, PktAt, PosAt
  <2>2. FeedPos > 0 => FeedPos <= packets[FeedPkt].bytes
    BY FeedFacts
  <2> QED BY <2>1, <2>2, <1>1, FeedFacts
<1>3. CASE tx_aligner # <<>>
  <2> DEFINE word == Head(tx_aligner)
  <2>1. IsFed(word) /\ AtPkt = PacketOf(word) /\ AtPos = PosOf(word) /\ word = tx_aligner[1]
    BY <1>1, <1>3, ChainHead DEF InputInv, AtPkt, AtPos
  <2>2. 1 \in 1 .. Len(tx_aligner)
    BY <1>1, <1>3
  <2>3. Within(word, packets)
    BY <2>1, <2>2 DEF InputInv
  <2> HIDE DEF word
  <2>4. AtPos \in Nat /\ Size(word) \in 1 .. BUFFER /\ BUFFER \in Nat
    BY <2>1, AlignerAssumption DEF IsFed
  <2>5. AtPkt \in 1 .. Len(packets) /\ AtPos + Size(word) <= packets[AtPkt].bytes
    BY <2>1, <2>3 DEF Within
  <2>6. packets[AtPkt].bytes \in Nat
    BY <2>5, PacketTypes
  <2> QED BY <2>4, <2>5, <2>6, <1>1
<1> QED BY <1>2, <1>3

-----------------------------------------------------------------------------
(***************************************************************************)
(* What has left the aligner                                               *)
(***************************************************************************)

\* The words that have left the aligner are words.
LEMMA OfferedType ==
  ASSUME TypeOK
  PROVE  offered \in Seq(Word)
  BY DEF TypeOK, offered

\* A word written to tcp_tx_data is the last of those that have left.
LEMMA OfferedGrows ==
  ASSUME TypeOK, NEW word \in Word, tcp_tx_data' = Append(tcp_tx_data, word), sent' = sent
  PROVE  offered' = Append(offered, word)
<1>1. sent \in Seq(Word) /\ tcp_tx_data \in Seq(Word)
  BY DEF TypeOK
<1>2. ASSUME NEW S, NEW s \in Seq(S), NEW t \in Seq(S), NEW e \in S
      PROVE  s \o Append(t, e) = Append(s \o t, e)
  OBVIOUS
<1> QED BY <1>1, <1>2 DEF offered

\* The elements of a concatenation.
LEMMA ConcatIs ==
  ASSUME NEW S, NEW s \in Seq(S), NEW t \in Seq(S)
  PROVE  /\ s \o t \in Seq(S) /\ Len(s) \in Nat /\ Len(t) \in Nat /\ Len(s \o t) = Len(s) + Len(t)
         /\ \A i \in 1 .. Len(s) : (s \o t)[i] = s[i]
         /\ \A i \in 1 .. Len(t) : (s \o t)[Len(s) + i] = t[i]
OBVIOUS

\* Two sequences with the same elements are one.
LEMMA SameSequence ==
  ASSUME NEW S, NEW s \in Seq(S), NEW t \in Seq(S), Len(s) = Len(t),
         \A i \in 1 .. Len(s) : s[i] = t[i]
  PROVE  s = t
OBVIOUS

\* The head of one sequence may be moved to the end of the one before it.
LEMMA MoveHead ==
  ASSUME NEW S, NEW s \in Seq(S), NEW t \in Seq(S), t # <<>>
  PROVE  Append(s, Head(t)) \o Tail(t) = s \o t
<1> DEFINE a == Append(s, Head(t))
           b == Tail(t)
<1>1. /\ a \in Seq(S) /\ Len(s) \in Nat /\ Len(a) = Len(s) + 1 /\ a[Len(s) + 1] = t[1]
      /\ \A i \in 1 .. Len(s) : a[i] = s[i]
  OBVIOUS
<1>2. /\ b \in Seq(S) /\ Len(t) \in Nat \ {0} /\ Len(b) = Len(t) - 1
      /\ \A i \in 1 .. Len(t) - 1 : b[i] = t[i + 1]
  OBVIOUS
<1> HIDE DEF a, b
<1> DEFINE c == a \o b
           d == s \o t
<1>3. /\ c \in Seq(S) /\ Len(c) = Len(s) + 1 + (Len(t) - 1)
      /\ \A i \in 1 .. Len(s) + 1 : c[i] = a[i]
      /\ \A i \in 1 .. Len(t) - 1 : c[Len(s) + 1 + i] = b[i]
  <2>1. /\ c \in Seq(S) /\ Len(c) = Len(a) + Len(b)
        /\ \A i \in 1 .. Len(a) : c[i] = a[i]
        /\ \A i \in 1 .. Len(b) : c[Len(a) + i] = b[i]
    <3>1. a \in Seq(S) /\ b \in Seq(S)
      BY <1>1, <1>2
    <3> QED BY <3>1, ConcatIs
  <2> HIDE DEF c
  <2> QED BY <2>1, <1>1, <1>2
<1>4. /\ d \in Seq(S) /\ Len(d) = Len(s) + Len(t)
      /\ \A i \in 1 .. Len(s) : d[i] = s[i]
      /\ \A i \in 1 .. Len(t) : d[Len(s) + i] = t[i]
  BY ConcatIs
<1> HIDE DEF c, d
<1>5. ASSUME NEW i \in 1 .. Len(c)
      PROVE  c[i] = d[i]
  <2>1. CASE i \in 1 .. Len(s)
    BY <2>1, <1>1, <1>3, <1>4
  <2>2. CASE i = Len(s) + 1
    <3>1. d[Len(s) + 1] = t[1]
      BY <1>2, <1>4
    <3> QED BY <3>1, <2>2, <1>1, <1>3
  <2>3. CASE i > Len(s) + 1
    <3>1. PICK j \in 1 .. Len(t) - 1 : i = Len(s) + 1 + j
      <4>1. i - (Len(s) + 1) \in 1 .. Len(t) - 1 /\ i = Len(s) + 1 + (i - (Len(s) + 1))
        BY <2>3, <1>1, <1>2, <1>3
      <4> QED BY <4>1
    <3>2. j + 1 \in 1 .. Len(t) /\ Len(s) + 1 + j = Len(s) + (j + 1)
      BY <1>1, <1>2
    <3>3. d[i] = t[j + 1]
      BY <3>1, <3>2, <1>4
    <3>4. c[i] = b[j]
      BY <3>1, <1>3
    <3> QED BY <3>3, <3>4, <1>2
  <2> QED BY <2>1, <2>2, <2>3, <1>1, <1>2, <1>3
<1>6. Len(c) = Len(d)
  BY <1>1, <1>2, <1>3, <1>4
<1>7. c = d
  BY <1>3, <1>4, <1>5, <1>6, SameSequence
<1> QED BY <1>7 DEF a, b, c, d

\* A word the TCP stack takes had left before.
LEMMA OfferedKept ==
  ASSUME TypeOK, TcpTake
  PROVE  offered' = offered
<1>1. sent \in Seq(Word) /\ tcp_tx_data \in Seq(Word) /\ tcp_tx_data # <<>>
  BY DEF TypeOK, TcpTake
<1>2. Append(sent, Head(tcp_tx_data)) \o Tail(tcp_tx_data) = sent \o tcp_tx_data
  BY <1>1, MoveHead
<1>3. sent' = Append(sent, Head(tcp_tx_data)) /\ tcp_tx_data' = Tail(tcp_tx_data)
  BY DEF TcpTake
<1> QED BY <1>1, <1>2, <1>3 DEF offered

\* What one more word does to what has gone out: only the count of its own
\* packet may change, and the order is kept if that packet is not an earlier one.
LEMMA WordGoes ==
  ASSUME TypeOK, OrderInv, NEW p \in Nat \ {0}, p = Cur, NEW word \in Word,
         PacketsIn(word) \subseteq {p}, offered' = Append(offered, word)
  PROVE  /\ \A q \in Nat \ {0} : q # p => Gone(q)' = Gone(q)
         /\ \A q \in Nat \ {0} : q > p => Gone(q)' = 0
         /\ \A k \in 1 .. Len(offered') : \A q \in PacketsIn(offered'[k]) : q <= p
         /\ PacketsSeparate'
         /\ (\A i \in 0 .. keepToLen(word.keep) - 1 : word.data[i].pkt = p)
              => Gone(p)' = Gone(p) + keepToLen(word.keep)
<1>1. offered \in Seq(Word) /\ Len(offered) \in Nat
  BY OfferedType
<1>2. /\ Append(offered, word) \in Seq(Word) /\ Len(Append(offered, word)) = Len(offered) + 1
      /\ \A k \in 1 .. Len(offered) : Append(offered, word)[k] = offered[k]
      /\ Append(offered, word)[Len(offered) + 1] = word
  BY <1>1, AppendIs
<1>3. \A q \in Nat \ {0} : Gone(q)' = Count(StreamOf(Append(offered, word)), q)
  BY DEF Gone
<1>4. ASSUME NEW q \in Nat \ {0}, q # p
      PROVE  Gone(q)' = Gone(q)
  <2>1. q \notin PacketsIn(word)
    BY <1>4
  <2> QED BY <2>1, <1>1, <1>3, CountOthers DEF Gone
<1>5. \A k \in 1 .. Len(offered) : \A q \in PacketsIn(offered[k]) : q <= p
  BY DEF OrderInv
<1>6. \A k \in 1 .. Len(offered') : \A q \in PacketsIn(offered'[k]) : q <= p
  <2> SUFFICES ASSUME NEW k \in 1 .. Len(offered) + 1, NEW q \in PacketsIn(Append(offered, word)[k])
               PROVE  q <= p
    BY <1>2
  <2>1. CASE k = Len(offered) + 1
    BY <2>1, <1>2
  <2>2. CASE k # Len(offered) + 1
    <3>1. k \in 1 .. Len(offered)
      BY <2>2, <1>1
    <3> QED BY <3>1, <1>2, <1>5
  <2> QED BY <2>1, <2>2
<1>7. ASSUME NEW q \in Nat \ {0}, q > p
      PROVE  Gone(q)' = 0
  <2> DEFINE more == Append(offered, word)
  <2>1. \A k \in 1 .. Len(more) : q \notin PacketsIn(more[k])
    <3> SUFFICES ASSUME NEW k \in 1 .. Len(more), q \in PacketsIn(more[k])
                 PROVE  FALSE
      OBVIOUS
    <3>1. q <= p
      BY <1>6
    <3> QED BY <3>1, <1>7
  <2> QED BY <2>1, <1>2, <1>3, CountNone
<1>8. PacketsSeparate'
  <2> DEFINE more == Append(offered, word)
  <2>1. /\ \A k \in 1 .. Len(offered) : \A a, b \in PacketsIn(offered[k]) : a = b
        /\ \A k, l \in 1 .. Len(offered) :
             k < l => \A a \in PacketsIn(offered[k]), b \in PacketsIn(offered[l]) : a <= b
    BY DEF OrderInv, PacketsSeparate
  <2> HIDE DEF more
  <2>2. ASSUME NEW k \in 1 .. Len(offered) + 1, NEW a \in PacketsIn(more[k]), NEW b \in PacketsIn(more[k])
        PROVE  a = b
    <3>1. CASE k = Len(offered) + 1
      BY <3>1, <1>2 DEF more
    <3>2. CASE k # Len(offered) + 1
      <4>1. k \in 1 .. Len(offered) /\ more[k] = offered[k]
        BY <3>2, <1>1, <1>2 DEF more
      <4> QED BY <4>1, <2>1
    <3> QED BY <3>1, <3>2
  <2>3. ASSUME NEW k \in 1 .. Len(offered) + 1, NEW l \in 1 .. Len(offered) + 1, k < l,
               NEW a \in PacketsIn(more[k]), NEW b \in PacketsIn(more[l])
        PROVE  a <= b
    <3>1. k \in 1 .. Len(offered) /\ more[k] = offered[k]
      BY <2>3, <1>1, <1>2 DEF more
    <3>2. CASE l = Len(offered) + 1
      <4>1. b = p
        BY <3>2, <1>2 DEF more
      <4> QED BY <3>1, <4>1, <1>5
    <3>3. CASE l # Len(offered) + 1
      <4>1. l \in 1 .. Len(offered) /\ more[l] = offered[l]
        BY <3>3, <1>1, <1>2 DEF more
      <4> QED BY <3>1, <4>1, <2>1, <2>3
    <3> QED BY <3>2, <3>3
  <2>4. Len(more) = Len(offered) + 1
    BY <1>2 DEF more
  <2>5. PacketsSeparate' <=>
          /\ \A k \in 1 .. Len(more) : \A a, b \in PacketsIn(more[k]) : a = b
          /\ \A k, l \in 1 .. Len(more) :
               k < l => \A a \in PacketsIn(more[k]), b \in PacketsIn(more[l]) : a <= b
    BY DEF PacketsSeparate, more
  <2> QED BY <2>2, <2>3, <2>4, <2>5
<1>9. ASSUME \A i \in 0 .. keepToLen(word.keep) - 1 : word.data[i].pkt = p
      PROVE  Gone(p)' = Gone(p) + keepToLen(word.keep)
  <2>1. keepToLen(word.keep) \in Nat
    BY KeepLength, AlignerAssumption
  <2>2. ASSUME NEW i \in 1 .. keepToLen(word.keep)
        PROVE  Seen(word).bytes[i].pkt = p
    <3>1. i - 1 \in 0 .. keepToLen(word.keep) - 1 /\ Seen(word).bytes[i] = word.data[i - 1]
      BY <2>1, SeenBytes
    <3> QED BY <3>1, <1>9
  <2> QED BY <2>2, <1>1, <1>3, CountOwn DEF Gone
<1> QED BY <1>4, <1>6, <1>7, <1>8, <1>9

-----------------------------------------------------------------------------
(***************************************************************************)
(* The input under each action                                             *)
(***************************************************************************)

\* What waits does not change if neither the FIFO nor the packets do.
LEMMA InputFrame ==
  ASSUME TypeOK, InputInv, UNCHANGED <<tx_aligner, packets>>
  PROVE  InputInv' /\ AtPkt' = AtPkt /\ AtPos' = AtPos
<1>1. FeedPkt' = FeedPkt /\ FeedPos' = FeedPos
  BY DEF FeedPkt, FeedPos, Open
<1> QED BY <1>1 DEF InputInv, AtPkt, AtPos

\* A word is read: it is the one expected, and the one behind it is next.
LEMMA InputTake ==
  ASSUME TypeOK, InputInv, tx_aligner # <<>>, tx_aligner' = Tail(tx_aligner), packets' = packets
  PROVE  /\ InputInv'
         /\ Head(tx_aligner) \in Word /\ IsFed(Head(tx_aligner)) /\ Within(Head(tx_aligner), packets)
         /\ PacketOf(Head(tx_aligner)) = AtPkt /\ PosOf(Head(tx_aligner)) = AtPos
         /\ AtPkt' = NextPkt(Head(tx_aligner)) /\ AtPos' = NextPos(Head(tx_aligner))
<1>1. FeedPkt' = FeedPkt /\ FeedPos' = FeedPos
  BY DEF FeedPkt, FeedPos, Open
<1>2. tx_aligner \in Seq(Word) /\ Chain(tx_aligner, FeedPkt, FeedPos)
  BY DEF TypeOK, InputInv
<1> DEFINE word == Head(tx_aligner)
<1>3. IsFed(word) /\ word = tx_aligner[1] /\ 1 \in 1 .. Len(tx_aligner)
  BY <1>2, ChainHead
<1>4. PacketOf(word) = AtPkt /\ PosOf(word) = AtPos
  BY <1>2, ChainHead DEF AtPkt, AtPos
<1>5. AtPkt' = NextPkt(word) /\ AtPos' = NextPos(word)
  BY <1>1, <1>2, ChainHead DEF AtPkt, AtPos
<1>6. Within(word, packets)
  BY <1>3 DEF InputInv
<1>7. InputInv'
  <2>1. \A p \in 1 .. Len(packets') - 1 : packets'[p].closed
    BY DEF InputInv
  <2>2. Chain(tx_aligner', FeedPkt', FeedPos')
    BY <1>1, <1>2, ChainHead
  <2>3. ASSUME NEW i \in 1 .. Len(tx_aligner')
        PROVE  Within(tx_aligner'[i], packets')
    <3>1. i + 1 \in 1 .. Len(tx_aligner) /\ tx_aligner'[i] = tx_aligner[i + 1]
      BY <1>2, ChainHead
    <3> QED BY <3>1 DEF InputInv
  <2> QED BY <2>1, <2>2, <2>3 DEF InputInv
<1>8. word \in Word
  BY <1>3, FedWord
<1> QED BY <1>3, <1>4, <1>5, <1>6, <1>7, <1>8

\* A word is fed: the packets that ended stay as they were, and what is read
\* next does not change.
LEMMA InputFeed ==
  ASSUME TypeOK, InputInv, Feed
  PROVE  /\ InputInv' /\ AtPkt' = AtPkt /\ AtPos' = AtPos
         /\ tx_aligner' \in Seq(Word) /\ packets' \in Seq(Packet)
         /\ Len(packets') \in Nat /\ Len(packets') >= Len(packets)
         /\ \A p \in 1 .. Len(packets) : packets[p].closed => packets'[p] = packets[p]
<1> DEFINE p == FeedPkt
           k == FeedPos
<1>1. /\ tx_aligner \in Seq(Word) /\ packets \in Seq(Packet) /\ Len(packets) \in Nat
      /\ p \in 1 .. Len(packets) + 1 /\ k \in Nat /\ BUFFER \in Nat
      /\ p \in 1 .. Len(packets) => ~packets[p].closed
      /\ k > 0 => p \in 1 .. Len(packets) /\ k = packets[p].bytes
  BY FeedFacts, PacketTypes, AlignerAssumption DEF TypeOK
<1>2. PICK n \in 1 .. BUFFER, last \in BOOLEAN :
        /\ tx_aligner' = Append(tx_aligner, WordOf(p, k, n, last))
        /\ packets' = IF Open THEN [packets EXCEPT ![p] = [bytes |-> k + n, closed |-> last]]
                              ELSE Append(packets, [bytes |-> k + n, closed |-> last])
  <2>1. PICK n \in 1 .. BUFFER, last \in BOOLEAN :
          LET pkt == IF Open THEN Len(packets) ELSE Len(packets) + 1
              pos == IF Open THEN packets[pkt].bytes ELSE 0
              packet == [bytes |-> pos + n, closed |-> last]
          IN  /\ tx_aligner' = Append(tx_aligner, WordOf(pkt, pos, n, last))
              /\ packets' = IF Open THEN [packets EXCEPT ![pkt] = packet] ELSE Append(packets, packet)
    BY DEF Feed
  <2>2. CASE Open
    BY <2>1, <2>2 DEF FeedPkt, FeedPos
  <2>3. CASE ~Open
    BY <2>1, <2>3 DEF FeedPkt, FeedPos
  <2> QED BY <2>2, <2>3
<1> DEFINE word   == WordOf(p, k, n, last)
           packet == [bytes |-> k + n, closed |-> last]
<1>3. /\ word \in Word /\ IsFed(word)
      /\ PacketOf(word) = p /\ PosOf(word) = k /\ Size(word) = n /\ word.last = last
  <2>1. p \in Nat \ {0} /\ k \in Nat
    BY <1>1
  <2> HIDE DEF p, k
  <2> QED BY <2>1, MakeFed, FedWord
<1>4. /\ packets' \in Seq(Packet) /\ p \in 1 .. Len(packets') /\ packets'[p] = packet
      /\ Len(packets') = p /\ Len(packets') >= Len(packets)
      /\ \A q \in 1 .. Len(packets) : q # p => packets'[q] = packets[q]
  <2>1. packet \in Packet
    BY <1>1 DEF Packet
  <2>2. CASE Open
    <3>1. p = Len(packets) /\ p \in 1 .. Len(packets)
      BY <1>1, <2>2 DEF FeedPkt, Open
    <3>2. packets' = [packets EXCEPT ![p] = packet]
      BY <1>2, <2>2
    <3> HIDE DEF p, k, packet
    <3> QED BY <3>1, <3>2, <2>1, <1>1
  <2>3. CASE ~Open
    <3>1. p = Len(packets) + 1
      BY <2>3 DEF FeedPkt
    <3>2. packets' = Append(packets, packet)
      BY <1>2, <2>3
    <3> HIDE DEF p, k, packet
    <3> QED BY <3>1, <3>2, <2>1, <1>1
  <2> QED BY <2>2, <2>3
<1>5. Open' = ~last
  <2>1. packets' # <<>> /\ packets'[Len(packets')].closed = last
    BY <1>4
  <2> QED BY <2>1 DEF Open
<1>6. FeedPkt' = NextPkt(word) /\ FeedPos' = NextPos(word)
  <2>1. NextPkt(word) = IF last THEN p + 1 ELSE p
    BY <1>3 DEF NextPkt
  <2>2. NextPos(word) = IF last THEN 0 ELSE k + n
    BY <1>3 DEF NextPos
  <2>3. FeedPkt' = IF ~last THEN Len(packets') ELSE Len(packets') + 1
    BY <1>5 DEF FeedPkt
  <2>4. FeedPos' = IF ~last THEN packets'[Len(packets')].bytes ELSE 0
    BY <1>5 DEF FeedPos
  <2>5. packets'[Len(packets')].bytes = k + n
    BY <1>4
  <2> HIDE DEF p, k, word, packet
  <2> QED BY <2>1, <2>2, <2>3, <2>4, <2>5, <1>4
<1>7. /\ Chain(tx_aligner', FeedPkt', FeedPos')
      /\ AtPkt' = AtPkt /\ AtPos' = AtPos
  <2>1. Chain(tx_aligner, p, k)
    BY DEF InputInv
  <2>2. /\ Chain(tx_aligner', NextPkt(word), NextPos(word))
        /\ PktAt(tx_aligner', NextPkt(word), 1) = PktAt(tx_aligner, p, 1)
        /\ PosAt(tx_aligner', NextPos(word), 1) = PosAt(tx_aligner, k, 1)
    <3>1. tx_aligner' = Append(tx_aligner, word)
      BY <1>2
    <3> HIDE DEF p, k, word
    <3> QED BY <3>1, <2>1, <1>1, <1>3, ChainAppend
  <2>3. AtPkt' = PktAt(tx_aligner', FeedPkt', 1) /\ AtPos' = PosAt(tx_aligner', FeedPos', 1)
    BY DEF AtPkt, AtPos
  <2> QED BY <2>2, <2>3, <1>6 DEF AtPkt, AtPos
<1>8. \A q \in 1 .. Len(packets) : packets[q].closed => packets'[q] = packets[q]
  BY <1>1, <1>4
<1>9. \A q \in 1 .. Len(packets') - 1 : packets'[q].closed
  <2> SUFFICES ASSUME NEW q \in 1 .. Len(packets') - 1
               PROVE  packets'[q].closed
    OBVIOUS
  <2>1. q \in 1 .. Len(packets) /\ q # p
    BY <1>1, <1>4
  <2>2. packets[q].closed
    <3>1. CASE Open
      <4>1. q \in 1 .. Len(packets) - 1
        BY <3>1, <2>1, <1>1 DEF FeedPkt
      <4> QED BY <4>1 DEF InputInv
    <3>2. CASE ~Open
      <4>1. CASE q = Len(packets)
        <5>1. packets # <<>>
          BY <4>1, <2>1
        <5> QED BY <5>1, <4>1, <3>2 DEF Open
      <4>2. CASE q # Len(packets)
        <5>1. q \in 1 .. Len(packets) - 1
          BY <4>2, <2>1, <1>1
        <5> QED BY <5>1 DEF InputInv
      <4> QED BY <4>1, <4>2
    <3> QED BY <3>1, <3>2
  <2> QED BY <2>1, <2>2, <1>8
<1>10. ASSUME NEW i \in 1 .. Len(tx_aligner')
       PROVE  Within(tx_aligner'[i], packets')
  <2>1. /\ Len(tx_aligner) \in Nat /\ Len(tx_aligner') = Len(tx_aligner) + 1
        /\ tx_aligner'[Len(tx_aligner) + 1] = word
        /\ \A j \in 1 .. Len(tx_aligner) : tx_aligner'[j] = tx_aligner[j]
    <3> HIDE DEF word
    <3>1. tx_aligner' = Append(tx_aligner, word)
      BY <1>2 DEF word
    <3> QED BY <3>1, <1>1, AppendIs
  <2>2. CASE i = Len(tx_aligner) + 1
    <3>1. Within(word, packets')
      <4> HIDE DEF word
      <4>1. packets'[p].bytes = k + n /\ packets'[p].closed = last
        BY <1>4
      <4> HIDE DEF p, k
      <4>2. k + n <= k + n
        BY <1>1
      <4> QED BY <1>3, <1>4, <4>1, <4>2 DEF Within
    <3> QED BY <3>1, <2>1, <2>2
  <2>3. CASE i # Len(tx_aligner) + 1
    <3> DEFINE w == tx_aligner[i]
    <3>1. i \in 1 .. Len(tx_aligner) /\ tx_aligner'[i] = w
      BY <2>1, <2>3
    <3>2. Within(w, packets) /\ IsFed(w)
      BY <3>1 DEF InputInv, Chain
    <3> HIDE DEF w
    <3>3. /\ PacketOf(w) \in 1 .. Len(packets) /\ PosOf(w) + Size(w) <= packets[PacketOf(w)].bytes
          /\ w.last => /\ packets[PacketOf(w)].closed
                       /\ PosOf(w) + Size(w) = packets[PacketOf(w)].bytes
          /\ PosOf(w) + Size(w) \in Nat
      BY <3>2, <1>1 DEF Within, IsFed
    <3>4. CASE PacketOf(w) = p
      <4>1. ~w.last
        BY <3>3, <3>4, <1>1
      <4>2. k = packets[p].bytes
        <5>1. Open
          BY <3>3, <3>4, <1>1 DEF FeedPkt
        <5> QED BY <5>1 DEF FeedPkt, FeedPos
      <4>3. packets'[p].bytes = k + n
        BY <1>4
      <4> HIDE DEF p, k
      <4>4. PosOf(w) + Size(w) <= packets'[p].bytes
        BY <4>2, <4>3, <3>3, <3>4, <1>1
      <4> QED BY <4>1, <4>4, <3>4, <1>4, <3>1 DEF Within
    <3>5. CASE PacketOf(w) # p
      <4>1. packets'[PacketOf(w)] = packets[PacketOf(w)] /\ PacketOf(w) \in 1 .. Len(packets')
        BY <3>3, <3>5, <1>4, <1>1
      <4> QED BY <4>1, <3>1, <3>3 DEF Within
    <3> QED BY <3>4, <3>5
  <2> QED BY <2>2, <2>3
<1>11. InputInv'
  BY <1>7, <1>9, <1>10 DEF InputInv
<1>12. tx_aligner' \in Seq(Word)
  BY <1>1, <1>2, <1>3
<1> QED BY <1>4, <1>7, <1>8, <1>11, <1>12, <1>1

-----------------------------------------------------------------------------
(***************************************************************************)
(* The invariant                                                           *)
(***************************************************************************)

\* Quotient and remainder.
LEMMA Division ==
  ASSUME NEW n \in Nat, NEW b \in Nat \ {0}
  PROVE  n = b * (n \div b) + (n % b) /\ n \div b \in Int /\ n % b \in 0 .. b - 1
OBVIOUS

\* One more full word is still a whole number of words.
LEMMA WholeWords ==
  /\ 0 % BUFFER = 0
  /\ \A n \in Nat : n % BUFFER = 0 => (n + BUFFER) % BUFFER = 0
<1>1. BUFFER \in Nat /\ BUFFER > 0
  BY AlignerAssumption
<1>2. 0 % BUFFER = 0
  BY <1>1
<1>3. ASSUME NEW n \in Nat, n % BUFFER = 0
      PROVE  (n + BUFFER) % BUFFER = 0
  <2>1. PICK q \in Int : n = BUFFER * q
    <3>1. n = BUFFER * (n \div BUFFER) + (n % BUFFER) /\ n \div BUFFER \in Int
      BY <1>1, Division
    <3>2. BUFFER * (n \div BUFFER) \in Int
      BY <3>1, <1>1
    <3> QED BY <3>1, <3>2, <1>3
  <2>2. PICK q2 \in Int, r \in 0 .. BUFFER - 1 : n + BUFFER = BUFFER * q2 + r /\ r = (n + BUFFER) % BUFFER
    <3>1. n + BUFFER \in Nat
      BY <1>1
    <3>2. /\ n + BUFFER = BUFFER * ((n + BUFFER) \div BUFFER) + ((n + BUFFER) % BUFFER)
          /\ (n + BUFFER) \div BUFFER \in Int /\ (n + BUFFER) % BUFFER \in 0 .. BUFFER - 1
      BY <3>1, <1>1, Division
    <3> QED BY <3>2
  <2>3. PICK d \in Int : d = q + 1 - q2
    OBVIOUS
  <2>4. r = BUFFER * d
    <3>1. BUFFER * d = BUFFER * q + BUFFER - BUFFER * q2
      BY <2>3, <1>1
    <3>2. BUFFER * q \in Int /\ BUFFER * q2 \in Int
      BY <1>1
    <3> QED BY <3>1, <3>2, <2>1, <2>2, <1>1
  <2>5. d = 0
    <3>1. CASE d >= 1
      <4>1. BUFFER * d >= BUFFER
        BY <3>1, <1>1
      <4> QED BY <4>1, <2>4, <1>1
    <3>2. CASE d <= -1
      <4>1. BUFFER * d < 0
        BY <3>2, <1>1
      <4> QED BY <4>1, <2>4, <1>1
    <3> QED BY <3>1, <3>2
  <2> QED BY <2>2, <2>4, <2>5, <1>1
<1> QED BY <1>2, <1>3

\* The bytes of a packet that have gone out are counted by a number.
LEMMA GoneIsNat ==
  ASSUME TypeOK, NEW p
  PROVE  Gone(p) \in Nat
  BY OfferedType, CountIsNat DEF Gone

\* The parts of the invariant, and the ranges of what they compare.
LEMMA InvFacts ==
  ASSUME IInv
  PROVE  /\ TypeOK /\ InputInv /\ DamageInv /\ OrderInv /\ RestInv /\ PullInv /\ ResidueInv
         /\ AtPkt \in Nat \ {0} /\ AtPkt <= Len(packets) + 1 /\ AtPos \in Nat /\ Len(packets) \in Nat
         /\ AtPos > 0 => AtPkt \in 1 .. Len(packets) /\ AtPos <= packets[AtPkt].bytes
         /\ Cur \in Nat \ {0} /\ Cur <= Len(packets) + 1
         /\ \A q \in 1 .. Cur - 1 : q \in damaged \/ (packets[q].closed /\ Gone(q) = packets[q].bytes)
         /\ al.state \in {"IDLE", "PULL_FIRST", "PULL_N", "RESIDUE"}
         /\ al.prevLength \in 0 .. BUFFER /\ al.prevWord \in Word /\ BUFFER \in Nat /\ BUFFER >= 2
         /\ damaged \subseteq 1 .. Len(packets)
<1>1. TypeOK /\ InputInv /\ DamageInv /\ OrderInv /\ RestInv /\ PullInv /\ ResidueInv /\ Settled(Cur)
  BY DEF IInv
<1>2. /\ AtPkt \in 1 .. Len(packets) + 1 /\ AtPos \in Nat /\ Len(packets) \in Nat
      /\ AtPos > 0 => AtPkt \in 1 .. Len(packets) /\ AtPos <= packets[AtPkt].bytes
  BY <1>1, AtFacts
<1>3. Cur \in Nat \ {0} /\ Cur <= Len(packets) + 1
  <2>1. CASE al.state = "RESIDUE"
    BY <1>1, <1>2, <2>1 DEF ResidueInv
  <2>2. CASE al.state # "RESIDUE"
    BY <1>2, <2>2 DEF Cur
  <2> QED BY <2>1, <2>2
<1>4. /\ al.state \in {"IDLE", "PULL_FIRST", "PULL_N", "RESIDUE"}
      /\ al.prevLength \in 0 .. BUFFER /\ al.prevWord \in Word
      /\ damaged \subseteq 1 .. Len(packets)
  BY <1>1 DEF TypeOK
<1>5. \A q \in 1 .. Cur - 1 : q \in damaged \/ (packets[q].closed /\ Gone(q) = packets[q].bytes)
  BY <1>1 DEF Settled
<1>6. BUFFER \in Nat /\ BUFFER >= 2
  BY AlignerAssumption
<1> QED BY <1>1, <1>2, <1>3, <1>4, <1>5, <1>6

\* The reset values satisfy the invariant.
LEMMA InitInv == Init => IInv
<1> SUFFICES ASSUME Init
             PROVE  IInv
  OBVIOUS
<1> USE DEF Init
<1>1. BUFFER \in Nat /\ BUFFER >= 2 /\ TxAlignerDepth \in Nat /\ PortDepth \in Nat
  BY AlignerAssumption
<1>2. TypeOK
  <2>1. NoWord \in Word
    BY DEF NoWord, NoByte, Word
  <2>2. al \in [state : {"IDLE", "PULL_FIRST", "PULL_N", "RESIDUE"}, prevLength : 0 .. BUFFER, prevWord : Word]
    BY <1>1, <2>1
  <2> QED BY <1>1, <2>2 DEF TypeOK
<1>3. FeedPkt = 1 /\ FeedPos = 0
  BY DEF FeedPkt, FeedPos, Open
<1>4. AtPkt = 1 /\ AtPos = 0 /\ Cur = 1
  BY <1>3 DEF AtPkt, AtPos, PktAt, PosAt, Cur
<1>5. offered = <<>>
  BY DEF offered
<1>6. InputInv
  BY DEF InputInv, Chain
<1>7. DamageInv
  BY DEF DamageInv
<1>8. OrderInv
  BY <1>5 DEF OrderInv, PacketsSeparate
<1>9. Settled(Cur)
  BY <1>4 DEF Settled
<1>10. Gone(1) = 0
  <2>1. ASSUME NEW words \in Seq(Word), words = <<>>
        PROVE  Count(StreamOf(words), 1) = 0
    <3>1. 1 .. Len(words) = {}
      BY <2>1
    <3> QED BY <3>1, CountNone
  <2>2. offered \in Seq(Word)
    BY <1>5
  <2> QED BY <2>1, <2>2, <1>5 DEF Gone
<1>11. RestInv
  BY <1>4, <1>10, WholeWords DEF RestInv
<1>12. PullInv /\ ResidueInv
  BY DEF PullInv, ResidueInv
<1> QED BY <1>2, <1>6, <1>7, <1>8, <1>9, <1>11, <1>12 DEF IInv

\* The steps that leave the aligner and what it has sent alone; the packets
\* that ended stay as they were.
LEMMA FrameInv ==
  ASSUME IInv, TypeOK', InputInv', offered' = offered, damaged' = damaged,
         AtPkt' = AtPkt, AtPos' = AtPos,
         al'.state = al.state \/ (al.state = "IDLE" /\ al'.state = "PULL_FIRST"),
         al'.prevLength = al.prevLength, al'.prevWord = al.prevWord,
         Len(packets') \in Nat, Len(packets') >= Len(packets),
         \A p \in 1 .. Len(packets) : packets[p].closed => packets'[p] = packets[p]
  PROVE  IInv'
<1>1. \A q : Gone(q)' = Gone(q)
  BY DEF Gone
<1>2. Cur' = Cur
  BY DEF Cur
<1>3. DamageInv'
  BY InvFacts DEF DamageInv
<1>4. OrderInv'
  <2>1. OrderInv
    BY InvFacts
  <2>2. PacketsSeparate'
    <3>1. offered' = offered /\ PacketsSeparate
      BY <2>1 DEF OrderInv
    <3>2. ASSUME NEW k \in 1 .. Len(offered), NEW p \in PacketsIn(offered[k]), NEW q \in PacketsIn(offered[k])
          PROVE  p = q
      BY <3>1 DEF PacketsSeparate
    <3>3. ASSUME NEW k \in 1 .. Len(offered), NEW l \in 1 .. Len(offered), k < l,
                 NEW p \in PacketsIn(offered[k]), NEW q \in PacketsIn(offered[l])
          PROVE  p <= q
      BY <3>1, <3>3 DEF PacketsSeparate
    <3> QED BY ONLY <3>1, <3>2, <3>3 DEF PacketsSeparate
  <2>3. \A k \in 1 .. Len(offered') : \A p \in PacketsIn(offered'[k]) : p <= Cur'
    BY <1>2, <2>1 DEF OrderInv
  <2> QED BY <2>2, <2>3 DEF OrderInv
<1>5. Settled(Cur)'
  <2> SUFFICES ASSUME NEW q \in 1 .. Cur - 1
               PROVE  q \in damaged' \/ (packets'[q].closed /\ Gone(q)' = packets'[q].bytes)
    BY <1>2 DEF Settled
  <2>1. q \in 1 .. Len(packets)
    BY InvFacts
  <2>2. q \in damaged \/ (packets[q].closed /\ Gone(q) = packets[q].bytes)
    BY InvFacts
  <2> QED BY <2>1, <2>2, <1>1
<1>6. RestInv'
  BY <1>1, InvFacts DEF RestInv
<1>7. PullInv'
  BY <1>1, InvFacts DEF PullInv
<1>8. ResidueInv'
  <2> SUFFICES ASSUME al.state = "RESIDUE"
               PROVE  ResidueInv'
    BY DEF ResidueInv
  <2>1. Cur \in 1 .. Len(packets) /\ Cur \in 1 .. Len(packets')
    BY InvFacts DEF ResidueInv
  <2>2. Cur \notin damaged /\ AtPos = 0 => packets[Cur].closed /\ packets'[Cur] = packets[Cur]
    BY <2>1, InvFacts DEF ResidueInv
  <2>3. ResidueInv
    BY InvFacts
  <2> QED BY <1>1, <1>2, <2>1, <2>2, <2>3 DEF ResidueInv
<1> QED BY <1>3, <1>4, <1>5, <1>6, <1>7, <1>8 DEF IInv

\* IDLE only notices that a word waits.
LEMMA IdleInv ==
  ASSUME IInv, AlIdle
  PROVE  IInv'
<1>1. /\ al.state = "IDLE" /\ al' = [al EXCEPT !.state = "PULL_FIRST"]
      /\ UNCHANGED <<tx_aligner, tcp_tx_data, packets, fed, sent, damaged>>
  BY DEF AlIdle
<1>2. al'.state = "PULL_FIRST" /\ al'.prevLength = al.prevLength /\ al'.prevWord = al.prevWord
  BY <1>1, InvFacts DEF TypeOK
<1>3. TypeOK'
  BY <1>1, InvFacts DEF TypeOK
<1>4. offered' = offered
  BY <1>1 DEF offered
<1>5. InputInv' /\ AtPkt' = AtPkt /\ AtPos' = AtPos
  BY <1>1, InvFacts, InputFrame
<1> QED BY <1>1, <1>2, <1>3, <1>4, <1>5, InvFacts, FrameInv

\* The TCP stack takes a word that had left already.
LEMMA TakeInv ==
  ASSUME IInv, TcpTake
  PROVE  IInv'
<1>1. /\ tcp_tx_data # <<>>
      /\ sent' = Append(sent, Head(tcp_tx_data)) /\ tcp_tx_data' = Tail(tcp_tx_data)
      /\ UNCHANGED <<tx_aligner, al, packets, fed, damaged>>
  BY DEF TcpTake
<1>2. TypeOK'
  <2>1. /\ sent \in Seq(Word) /\ tcp_tx_data \in Seq(Word) /\ Len(tcp_tx_data) <= PortDepth
        /\ PortDepth \in Nat
    BY InvFacts, AlignerAssumption DEF TypeOK
  <2>2. sent' \in Seq(Word) /\ tcp_tx_data' \in Seq(Word) /\ Len(tcp_tx_data') <= PortDepth
    BY <2>1, <1>1
  <2> QED BY <2>2, <1>1, InvFacts DEF TypeOK
<1>3. offered' = offered
  BY InvFacts, OfferedKept
<1>4. InputInv' /\ AtPkt' = AtPkt /\ AtPos' = AtPos
  BY <1>1, InvFacts, InputFrame
<1> QED BY <1>1, <1>2, <1>3, <1>4, InvFacts, FrameInv

\* A word fed is behind everything the aligner has seen.
LEMMA FeedInv ==
  ASSUME IInv, Feed
  PROVE  IInv'
<1>1. /\ InputInv' /\ AtPkt' = AtPkt /\ AtPos' = AtPos
      /\ tx_aligner' \in Seq(Word) /\ packets' \in Seq(Packet)
      /\ Len(packets') \in Nat /\ Len(packets') >= Len(packets)
      /\ \A p \in 1 .. Len(packets) : packets[p].closed => packets'[p] = packets[p]
  BY InvFacts, InputFeed
<1>2. /\ Len(tx_aligner) < TxAlignerDepth /\ fed' = fed + 1
      /\ UNCHANGED <<tcp_tx_data, al, sent, damaged>>
  BY DEF Feed
<1>3. TypeOK'
  <2>1. Len(tx_aligner') <= TxAlignerDepth
    <3>1. PICK word : tx_aligner' = Append(tx_aligner, word)
      BY DEF Feed
    <3>2. tx_aligner \in Seq(Word) /\ TxAlignerDepth \in Nat
      BY InvFacts, AlignerAssumption DEF TypeOK
    <3>3. Len(tx_aligner') = Len(tx_aligner) + 1 /\ Len(tx_aligner) \in Nat
      BY <3>1, <3>2, AppendIs
    <3> QED BY <3>2, <3>3, <1>2
  <2>2. fed' \in Nat
    BY <1>2, InvFacts DEF TypeOK
  <2>3. damaged' \subseteq 1 .. Len(packets')
    BY <1>1, <1>2, InvFacts
  <2>4. packets' \in Seq([bytes : Nat \ {0}, closed : BOOLEAN])
    BY <1>1 DEF Packet
  <2>5. /\ tcp_tx_data' \in Seq(Word) /\ Len(tcp_tx_data') <= PortDepth /\ sent' \in Seq(Word)
        /\ al' \in [state : {"IDLE", "PULL_FIRST", "PULL_N", "RESIDUE"},
                    prevLength : 0 .. BUFFER, prevWord : Word]
    BY <1>2, InvFacts DEF TypeOK
  <2> QED BY <1>1, <2>1, <2>2, <2>3, <2>4, <2>5 DEF TypeOK
<1>4. offered' = offered
  BY <1>2 DEF offered
<1> QED BY <1>1, <1>2, <1>3, <1>4, FrameInv

\* A step that changes nothing keeps the invariant.
LEMMA StutterInv ==
  ASSUME IInv, UNCHANGED vars
  PROVE  IInv'
<1>1. UNCHANGED <<tx_aligner, tcp_tx_data, al, packets, fed, sent, damaged>>
  BY DEF vars
<1>2. TypeOK'
  BY <1>1, InvFacts DEF TypeOK
<1>3. offered' = offered
  BY <1>1 DEF offered
<1>4. InputInv' /\ AtPkt' = AtPkt /\ AtPos' = AtPos
  BY <1>1, InvFacts, InputFrame
<1> QED BY <1>1, <1>2, <1>3, <1>4, InvFacts, FrameInv

\* The word that AlResidue sends is the rest of its packet, or a full word.
LEMMA ResidueWord ==
  ASSUME IInv, AlResidue, NEW p \in Nat \ {0}, p = Cur
  PROVE  /\ al.state = "RESIDUE" /\ Len(tcp_tx_data) < PortDepth
         /\ tcp_tx_data' = Append(tcp_tx_data, al.prevWord)
         /\ offered' = Append(offered, al.prevWord) /\ al.prevWord \in Word
         /\ al' = [al EXCEPT !.state = "IDLE"] /\ UNCHANGED <<tx_aligner, packets, fed, sent, damaged>>
         /\ p \in 1 .. Len(packets) /\ PacketsIn(al.prevWord) \subseteq {p}
         /\ \A q \in Nat \ {0} : q # p => Gone(q)' = Gone(q)
         /\ \A q \in Nat \ {0} : q > p => Gone(q)' = 0
         /\ p \notin damaged =>
              /\ al.prevLength \in 1 .. BUFFER /\ keepToLen(al.prevWord.keep) = al.prevLength
              /\ \A i \in 0 .. al.prevLength - 1 : al.prevWord.data[i] = [pkt |-> p, pos |-> Gone(p) + i]
              /\ Gone(p)' = Gone(p) + al.prevLength
<1>1. /\ al.state = "RESIDUE" /\ Len(tcp_tx_data) < PortDepth
      /\ tcp_tx_data' = Append(tcp_tx_data, al.prevWord) /\ al' = [al EXCEPT !.state = "IDLE"]
      /\ UNCHANGED <<tx_aligner, packets, fed, sent, damaged>>
  BY DEF AlResidue
<1>2. offered' = Append(offered, al.prevWord)
  BY <1>1, InvFacts, OfferedGrows
<1>3. p \in 1 .. Len(packets) /\ PacketsIn(al.prevWord) \subseteq {p}
  BY <1>1, InvFacts DEF ResidueInv
<1>4. /\ \A q \in Nat \ {0} : q # p => Gone(q)' = Gone(q)
      /\ \A q \in Nat \ {0} : q > p => Gone(q)' = 0
      /\ (\A i \in 0 .. keepToLen(al.prevWord.keep) - 1 : al.prevWord.data[i].pkt = p)
           => Gone(p)' = Gone(p) + keepToLen(al.prevWord.keep)
  BY <1>2, <1>3, InvFacts, WordGoes
<1>5. ASSUME p \notin damaged
      PROVE  /\ al.prevLength \in 1 .. BUFFER /\ keepToLen(al.prevWord.keep) = al.prevLength
             /\ \A i \in 0 .. al.prevLength - 1 : al.prevWord.data[i] = [pkt |-> p, pos |-> Gone(p) + i]
             /\ Gone(p)' = Gone(p) + al.prevLength
  <2>1. /\ al.prevLength \in 1 .. BUFFER /\ keepToLen(al.prevWord.keep) = al.prevLength
        /\ \A i \in 0 .. al.prevLength - 1 : al.prevWord.data[i] = [pkt |-> p, pos |-> Gone(p) + i]
    BY <1>1, <1>5, InvFacts DEF ResidueInv
  <2>2. ASSUME NEW i \in 0 .. keepToLen(al.prevWord.keep) - 1
        PROVE  al.prevWord.data[i].pkt = p
    <3>1. al.prevWord.data[i] = [pkt |-> p, pos |-> Gone(p) + i]
      BY <2>1
    <3> QED BY <3>1
  <2> QED BY <2>1, <2>2, <1>4
<1> QED BY <1>1, <1>2, <1>3, <1>4, <1>5, InvFacts

\* The step of RESIDUE keeps the invariant: the packet is sent in full, or a
\* full word of it.
LEMMA ResidueStepInv ==
  ASSUME IInv, AlResidue
  PROVE  IInv'
<1>1. PICK p \in Nat \ {0} : p = Cur
  BY InvFacts
<1>2. /\ al.state = "RESIDUE" /\ Len(tcp_tx_data) < PortDepth
      /\ tcp_tx_data' = Append(tcp_tx_data, al.prevWord)
      /\ offered' = Append(offered, al.prevWord) /\ al.prevWord \in Word
      /\ al' = [al EXCEPT !.state = "IDLE"] /\ UNCHANGED <<tx_aligner, packets, fed, sent, damaged>>
      /\ p \in 1 .. Len(packets) /\ PacketsIn(al.prevWord) \subseteq {p}
      /\ \A q \in Nat \ {0} : q # p => Gone(q)' = Gone(q)
      /\ \A q \in Nat \ {0} : q > p => Gone(q)' = 0
      /\ p \notin damaged =>
           /\ al.prevLength \in 1 .. BUFFER
           /\ Gone(p)' = Gone(p) + al.prevLength
  BY <1>1, ResidueWord
<1>3. al' \in [state : {"IDLE", "PULL_FIRST", "PULL_N", "RESIDUE"}, prevLength : 0 .. BUFFER, prevWord : Word]
      /\ al'.state = "IDLE"
  BY <1>2, InvFacts DEF TypeOK
<1>4. TypeOK'
  <2>1. tcp_tx_data \in Seq(Word) /\ Len(tcp_tx_data) \in Nat /\ PortDepth \in Nat
    BY InvFacts, AlignerAssumption DEF TypeOK
  <2>2. tcp_tx_data' \in Seq(Word) /\ Len(tcp_tx_data') = Len(tcp_tx_data) + 1
    BY <2>1, <1>2
  <2>3. /\ tx_aligner' \in Seq(Word) /\ Len(tx_aligner') <= TxAlignerDepth
        /\ packets' \in Seq([bytes : Nat \ {0}, closed : BOOLEAN])
        /\ fed' \in Nat /\ sent' \in Seq(Word) /\ damaged' \subseteq 1 .. Len(packets')
    BY <1>2, InvFacts DEF TypeOK
  <2>4. Len(tcp_tx_data') <= PortDepth
    BY <2>1, <2>2, <1>2
  <2> QED BY <2>2, <2>3, <2>4, <1>3 DEF TypeOK
<1>5. InputInv' /\ AtPkt' = AtPkt /\ AtPos' = AtPos
  BY <1>2, InvFacts, InputFrame
<1>6. Cur' = AtPkt
  BY <1>3, <1>5 DEF Cur
<1>7. p <= AtPkt /\ (AtPos = 0 => p = AtPkt - 1) /\ (AtPos > 0 => p = AtPkt)
  BY <1>1, <1>2, InvFacts DEF Cur
<1>8. DamageInv'
  BY <1>2, <1>5, InvFacts DEF DamageInv
<1>9. /\ \A k \in 1 .. Len(offered') : \A q \in PacketsIn(offered'[k]) : q <= p
      /\ PacketsSeparate'
  BY <1>1, <1>2, InvFacts, WordGoes
<1>10. OrderInv'
  <2> SUFFICES ASSUME NEW k \in 1 .. Len(offered'), NEW q \in PacketsIn(offered'[k])
               PROVE  q <= AtPkt
    BY <1>6, <1>9 DEF OrderInv
  <2>1. offered' \in Seq(Word)
    BY <1>2, InvFacts, OfferedType, AppendIs
  <2>2. q \in Nat
    <3>1. offered'[k] \in Word
      BY <2>1
    <3> QED BY <3>1 DEF PacketsIn, Word
  <2> QED BY <2>2, <1>7, <1>9, InvFacts
<1>11. ASSUME AtPos = 0
       PROVE  /\ Gone(AtPkt)' = 0
              /\ p \notin damaged => packets[p].closed /\ Gone(p)' = packets[p].bytes
  <2>1. PICK r \in Nat \ {0} : r = AtPkt
    BY InvFacts
  <2>2. r > p
    BY <2>1, <1>7, <1>11
  <2>3. Gone(r)' = 0
    BY <2>2, <1>2
  <2>4. Gone(AtPkt)' = 0
    <3>1. AtPkt' = r
      BY <2>1, <1>5
    <3> QED BY <3>1, <2>3 DEF Gone
  <2>5. ASSUME p \notin damaged
        PROVE  packets[p].closed /\ Gone(p)' = packets[p].bytes
    BY <2>5, <1>1, <1>2, <1>11, InvFacts DEF ResidueInv
  <2> QED BY <2>4, <2>5
<1>12. ASSUME AtPos > 0
       PROVE  Gone(AtPkt)' = AtPos /\ AtPos % BUFFER = 0 /\ AtPkt \notin damaged
  <2>1. /\ p \notin damaged /\ Gone(p) + BUFFER = AtPos /\ Gone(p) % BUFFER = 0
        /\ al.prevLength = BUFFER
    BY <1>1, <1>2, <1>12, InvFacts DEF ResidueInv
  <2>2. AtPos % BUFFER = 0
    BY <2>1, InvFacts, GoneIsNat, WholeWords
  <2>3. Gone(p)' = AtPos
    BY <2>1, <1>2
  <2>4. p = AtPkt /\ p = AtPkt'
    BY <1>5, <1>7, <1>12
  <2>5. Gone(AtPkt)' = AtPos
    BY <2>3, <2>4 DEF Gone
  <2> QED BY <2>1, <2>2, <2>4, <2>5
<1>13. RestInv'
  <2>1. CASE AtPos = 0
    BY <2>1, <1>2, <1>5, <1>11, WholeWords, InvFacts DEF RestInv, DamageInv
  <2>2. CASE AtPos > 0
    BY <2>2, <1>2, <1>5, <1>12 DEF RestInv
  <2> QED BY <2>1, <2>2, InvFacts
<1>14. Settled(Cur)'
  <2> SUFFICES ASSUME NEW q \in 1 .. AtPkt - 1
               PROVE  q \in damaged \/ (packets[q].closed /\ Gone(q)' = packets[q].bytes)
    BY <1>2, <1>6 DEF Settled
  <2>1. CASE q = p
    <3>1. AtPos = 0
      BY <2>1, <1>7, InvFacts
    <3> QED BY <2>1, <3>1, <1>11
  <2>2. CASE q # p
    <3>1. q \in 1 .. p - 1
      BY <2>2, <1>7, InvFacts
    <3>2. q \in damaged \/ (packets[q].closed /\ Gone(q) = packets[q].bytes)
      BY <3>1, <1>1, InvFacts
    <3>3. Gone(q)' = Gone(q)
      BY <3>1, <2>2, <1>2
    <3> QED BY <3>2, <3>3
  <2> QED BY <2>1, <2>2
<1>15. PullInv' /\ ResidueInv'
  BY <1>3 DEF PullInv, ResidueInv
<1> QED BY <1>4, <1>5, <1>8, <1>10, <1>13, <1>14, <1>15 DEF IInv

\* The word that AlPullFirst reads opens its packet, or a word of it.
LEMMA PullFirstInv ==
  ASSUME IInv, AlPullFirst
  PROVE  IInv'
<1> DEFINE word == Head(tx_aligner)
<1>1. /\ al.state = "PULL_FIRST" /\ tx_aligner # <<>> /\ tx_aligner' = Tail(tx_aligner)
      /\ al' = [state |-> AfterFirst(word.last, Size(word) = BUFFER),
                prevLength |-> Size(word), prevWord |-> word]
      /\ UNCHANGED <<tcp_tx_data, packets, fed, sent, damaged>>
  BY DEF AlPullFirst, Size
<1>2. PICK p \in Nat \ {0}, k \in Nat, n \in 1 .. BUFFER : p = AtPkt /\ k = AtPos /\ n = Size(word)
  <2>1. IsFed(word)
    BY <1>1, InvFacts, InputTake
  <2>2. Size(word) \in 1 .. BUFFER
    BY <2>1 DEF IsFed
  <2> QED BY <2>2, InvFacts
<1>3. /\ InputInv' /\ word \in Word /\ word.last \in BOOLEAN
      /\ PacketsIn(word) \subseteq {p}
      /\ \A i \in Lanes : word.keep[i] = (i < n)
      /\ \A i \in 0 .. n - 1 : i \in Lanes /\ word.keep[i] /\ word.data[i] = [pkt |-> p, pos |-> k + i]
      /\ p \in 1 .. Len(packets) /\ k + n <= packets[p].bytes
      /\ word.last => packets[p].closed /\ k + n = packets[p].bytes
      /\ AtPkt' = (IF word.last THEN p + 1 ELSE p) /\ AtPos' = (IF word.last THEN 0 ELSE k + n)
  <2>1. /\ InputInv' /\ word \in Word /\ IsFed(word) /\ Within(word, packets)
        /\ PacketOf(word) = p /\ PosOf(word) = k
        /\ AtPkt' = NextPkt(word) /\ AtPos' = NextPos(word)
    BY <1>1, <1>2, InvFacts, InputTake
  <2>2. /\ PacketsIn(word) \subseteq {p}
        /\ \A i \in Lanes : word.keep[i] = (i < n)
        /\ \A i \in Lanes : word.data[i] = IF i < n THEN [pkt |-> p, pos |-> k + i] ELSE NoByte
    BY <2>1, <1>2, FedWord
  <2>3. \A i \in 0 .. n - 1 : i \in Lanes /\ i < n
    BY InvFacts DEF Lanes
  <2>4. /\ p \in 1 .. Len(packets) /\ k + n <= packets[p].bytes
        /\ word.last => packets[p].closed /\ k + n = packets[p].bytes
    BY <2>1, <1>2 DEF Within
  <2>5. AtPkt' = (IF word.last THEN p + 1 ELSE p) /\ AtPos' = (IF word.last THEN 0 ELSE k + n)
    BY <2>1, <1>2 DEF NextPkt, NextPos
  <2>6. word.last \in BOOLEAN
    BY <2>1 DEF IsFed
  <2> HIDE DEF word
  <2> QED BY <2>1, <2>2, <2>3, <2>4, <2>5, <2>6
<1>4. /\ al'.state = AfterFirst(word.last, n = BUFFER) /\ al'.prevLength = n /\ al'.prevWord = word
  BY <1>1, <1>2
<1>5. keepToLen(word.keep) = n
  BY <1>2 DEF Size
<1>6. offered' = offered
  BY <1>1 DEF offered
<1>7. TypeOK'
  <2>1. tx_aligner \in Seq(Word) /\ Len(tx_aligner) <= TxAlignerDepth /\ TxAlignerDepth \in Nat
    BY InvFacts, AlignerAssumption DEF TypeOK
  <2>2. tx_aligner' \in Seq(Word) /\ Len(tx_aligner') <= TxAlignerDepth
    BY <2>1, <1>1
  <2>3. AfterFirst(word.last, n = BUFFER) \in {"IDLE", "PULL_FIRST", "PULL_N", "RESIDUE"}
    BY DEF AfterFirst
  <2>4. al' \in [state : {"IDLE", "PULL_FIRST", "PULL_N", "RESIDUE"}, prevLength : 0 .. BUFFER, prevWord : Word]
    <3> HIDE DEF word
    <3>1. n \in 0 .. BUFFER
      BY InvFacts
    <3> QED BY <3>1, <2>3, <1>1, <1>2, <1>3
  <2> QED BY <2>2, <2>4, <1>1, InvFacts DEF TypeOK
<1> HIDE DEF word
<1>8. /\ p \notin damaged /\ Gone(p) = k /\ k % BUFFER = 0 /\ Cur = p
      /\ \A q \in damaged : q \in 1 .. Len(packets) /\ q <= p
  <2>1. p \notin damaged /\ Gone(p) = k /\ k % BUFFER = 0
    BY <1>1, <1>2, InvFacts DEF RestInv
  <2>2. Cur = p
    BY <1>1, <1>2 DEF Cur
  <2> QED BY <2>1, <2>2, <1>2, InvFacts DEF DamageInv
<1>9. \A q : Gone(q)' = Gone(q)
  BY <1>6 DEF Gone
<1>10. Cur' = p
  <2>1. CASE word.last
    BY <2>1, <1>3, <1>4 DEF Cur, AfterFirst
  <2>2. CASE ~word.last
    <3>1. AtPos' # 0
      BY <2>2, <1>3, InvFacts
    <3> QED BY <2>2, <3>1, <1>3 DEF Cur
  <2> QED BY <2>1, <2>2
<1>11. DamageInv'
  <2>1. \A q \in damaged : q <= AtPkt'
    BY <1>3, <1>8
  <2>2. AtPkt' \notin damaged
    BY <1>3, <1>8
  <2> QED BY <2>1, <2>2, <1>1 DEF DamageInv
<1>12. OrderInv'
  <2>1. Cur' = Cur
    BY <1>8, <1>10
  <2> QED BY <2>1, <1>6, InvFacts DEF OrderInv, PacketsSeparate
<1>13. Settled(Cur)'
  <2> SUFFICES ASSUME NEW q \in 1 .. p - 1
               PROVE  q \in damaged \/ (packets[q].closed /\ Gone(q)' = packets[q].bytes)
    BY <1>1, <1>10 DEF Settled
  <2> QED BY <1>8, <1>9, InvFacts
<1>14. RestInv'
  BY <1>4 DEF RestInv, AfterFirst
<1>15. PullInv'
  <2> SUFFICES ASSUME al'.state = "PULL_N"
               PROVE  PullInv'
    BY DEF PullInv
  <2>1. ~word.last /\ n # BUFFER
    BY <1>4 DEF AfterFirst
  <2>2. AtPkt' = p /\ AtPos' = k + n /\ AtPos' > 0 /\ n < BUFFER
    BY <2>1, <1>3, InvFacts
  <2>3. Gone(p)' = k
    BY <1>8, <1>9
  <2>4. Gone(AtPkt)' = k
    BY <2>2, <2>3 DEF Gone
  <2> QED BY <2>2, <2>4, <1>1, <1>3, <1>4, <1>8 DEF PullInv, Run
<1>16. ResidueInv'
  <2> SUFFICES ASSUME al'.state = "RESIDUE"
               PROVE  ResidueInv'
    BY DEF ResidueInv
  <2>1. word.last \/ n = BUFFER
    BY <1>4 DEF AfterFirst
  <2>2. Gone(Cur)' = k
    <3>1. Gone(p)' = k
      BY <1>8, <1>9
    <3> QED BY <3>1, <1>10 DEF Gone
  <2>3. AtPos' > 0 => ~word.last /\ n = BUFFER /\ AtPos' = k + BUFFER
    BY <2>1, <1>3
  <2>4. AtPos' = 0 => word.last
    BY <1>3, InvFacts
  <2>5. /\ Cur' \in 1 .. Len(packets') /\ PacketsIn(al'.prevWord) \subseteq {Cur'}
        /\ al'.prevLength \in 1 .. BUFFER /\ keepToLen(al'.prevWord.keep) = al'.prevLength
        /\ \A i \in 0 .. al'.prevLength - 1 : al'.prevWord.data[i] = [pkt |-> Cur', pos |-> k + i]
    BY <1>1, <1>3, <1>4, <1>5, <1>10
  <2>6. AtPos' = 0 => packets'[Cur'].closed /\ k + al'.prevLength = packets'[Cur'].bytes
    BY <2>4, <1>1, <1>3, <1>4, <1>10
  <2>7. AtPos' > 0 => /\ Cur' \notin damaged' /\ k + BUFFER = AtPos' /\ k % BUFFER = 0
                      /\ al'.prevLength = BUFFER /\ ~al'.prevWord.last
    BY <2>3, <1>1, <1>4, <1>8, <1>10
  <2> QED BY <2>2, <2>5, <2>6, <2>7 DEF ResidueInv
<1> QED BY <1>3, <1>7, <1>11, <1>12, <1>13, <1>14, <1>15, <1>16 DEF IInv

-----------------------------------------------------------------------------
(***************************************************************************)
(* Joining two words                                                       *)
(***************************************************************************)

\* The lanes of a joined word, and those of a shifted one.
Joins(word, l, prev, curr) ==
  \A i \in Lanes : /\ word.data[i] = IF i < l THEN prev.data[i] ELSE curr.data[i - l]
                   /\ word.keep[i] = IF i < l THEN prev.keep[i] ELSE curr.keep[i - l]
Shifts(word, l, curr) ==
  \A i \in Lanes : /\ word.data[i] = IF i + l < BUFFER THEN curr.data[i + l] ELSE NoByte
                   /\ word.keep[i] = (i + l < BUFFER /\ curr.keep[i + l])

\* What alignWords returns is a word of the bytes it was given; it is full only
\* if the two words have bytes enough.
LEMMA AlignedWord ==
  ASSUME NEW l \in 0 .. BUFFER - 1, NEW prev \in Word, NEW curr \in Word, IsFed(curr),
         NEW joined \in alignWords(l, prev, curr), NEW last \in BOOLEAN,
         NEW word, word = [data |-> joined.data, keep |-> joined.keep, last |-> last]
  PROVE  /\ word \in Word /\ PacketsIn(word) \subseteq PacketsIn(prev) \cup {PacketOf(curr)}
         /\ keepToLen(word.keep) = BUFFER => l + Size(curr) >= BUFFER
         /\ l > 0 => Joins(word, l, prev, curr)
<1>1. BUFFER \in Nat /\ BUFFER >= 2 /\ Lanes = 0 .. BUFFER - 1
  BY AlignerAssumption DEF Lanes
<1>2. /\ Size(curr) \in 1 .. BUFFER
      /\ \A i \in Lanes : curr.keep[i] = (i < Size(curr))
      /\ PacketsIn(curr) \subseteq {PacketOf(curr)}
  BY FedWord DEF IsFed
<1>3. /\ prev.data \in [Lanes -> [pkt : Nat, pos : Nat]] /\ prev.keep \in [Lanes -> BOOLEAN]
      /\ curr.data \in [Lanes -> [pkt : Nat, pos : Nat]] /\ curr.keep \in [Lanes -> BOOLEAN]
  BY DEF Word
<1>4. NoByte \in [pkt : Nat, pos : Nat]
  BY DEF NoByte
<1> DEFINE data == [i \in Lanes |-> IF i < l THEN prev.data[i] ELSE curr.data[i - l]]
           keep == [i \in Lanes |-> IF i < l THEN prev.keep[i] ELSE curr.keep[i - l]]
<1>5. \A i \in Lanes : ~(i < l) => i - l \in Lanes
  BY <1>1
<1>6. data \in [Lanes -> [pkt : Nat, pos : Nat]]
  BY <1>3, <1>5
<1>7. keep \in [Lanes -> BOOLEAN]
  BY <1>3, <1>5
<1>8. word.data = joined.data /\ word.keep = joined.keep /\ word.last = last
  OBVIOUS
<1>9. ASSUME word.data \in [Lanes -> [pkt : Nat, pos : Nat]], word.keep \in [Lanes -> BOOLEAN]
      PROVE  word \in Word
  BY <1>8, <1>9 DEF Word
<1>10. ASSUME keepToLen(word.keep) = BUFFER
       PROVE  word.keep[BUFFER - 1]
  <2>1. word.keep = Contiguous(BUFFER)
    BY <1>10, <1>1, KeepLength
  <2>2. BUFFER - 1 \in Lanes /\ BUFFER - 1 < BUFFER
    BY <1>1
  <2> QED BY <2>1, <2>2 DEF Contiguous
<1>11. BUFFER - 1 \in Lanes
  BY <1>1
<1>12. CASE l > 0
  <2>1. joined = [data |-> data, keep |-> keep]
    BY <1>12 DEF alignWords
  <2>2. word.data = data /\ word.keep = keep
    BY <2>1, <1>8
  <2> HIDE DEF data, keep
  <2>3. word \in Word
    BY <2>2, <1>6, <1>7, <1>9
  <2>4. ASSUME NEW i \in Lanes, keep[i], data[i] # NoByte
        PROVE  data[i].pkt \in PacketsIn(prev) \cup {PacketOf(curr)}
    <3>1. CASE i < l
      <4>1. data[i] = prev.data[i] /\ keep[i] = prev.keep[i]
        BY <3>1 DEF data, keep
      <4> QED BY <4>1, <2>4 DEF PacketsIn
    <3>2. CASE ~(i < l)
      <4>1. data[i] = curr.data[i - l] /\ keep[i] = curr.keep[i - l] /\ i - l \in Lanes
        BY <3>2, <1>5 DEF data, keep
      <4>2. data[i].pkt \in PacketsIn(curr)
        BY <4>1, <2>4 DEF PacketsIn
      <4> QED BY <4>2, <1>2
    <3> QED BY <3>1, <3>2
  <2>5. PacketsIn(word) \subseteq PacketsIn(prev) \cup {PacketOf(curr)}
    BY <2>2, <2>4 DEF PacketsIn
  <2>6. ASSUME keepToLen(word.keep) = BUFFER
        PROVE  l + Size(curr) >= BUFFER
    <3>1. BUFFER - 1 - l \in Lanes /\ ~(BUFFER - 1 < l)
      BY <1>1
    <3>2. keep[BUFFER - 1] = curr.keep[BUFFER - 1 - l]
      BY <3>1, <1>11 DEF keep
    <3>3. BUFFER - 1 - l < Size(curr)
      BY <3>1, <3>2, <2>2, <2>6, <1>2, <1>10
    <3> QED BY <3>3, <1>1, <1>2
  <2>7. Joins(word, l, prev, curr)
    BY <2>2 DEF data, keep, Joins
  <2> QED BY <2>3, <2>5, <2>6, <2>7
<1>13. CASE l = 0
  <2>1. PICK d \in {data[0], NoByte}, k \in BOOLEAN :
          joined = [data |-> [data EXCEPT ![0] = d], keep |-> [keep EXCEPT ![0] = k]]
    BY <1>13 DEF alignWords
  <2>2. \A i \in Lanes : data[i] = curr.data[i] /\ keep[i] = curr.keep[i]
    BY <1>1, <1>13
  <2> HIDE DEF data, keep
  <2>3. word.data = [data EXCEPT ![0] = d] /\ word.keep = [keep EXCEPT ![0] = k] /\ 0 \in Lanes
    BY <2>1, <1>8, <1>1
  <2>4. word \in Word
    <3>1. d \in [pkt : Nat, pos : Nat]
      BY <1>4, <1>6, <2>1, <2>3
    <3>2. word.data \in [Lanes -> [pkt : Nat, pos : Nat]]
      BY <3>1, <2>3, <1>6
    <3>3. word.keep \in [Lanes -> BOOLEAN]
      BY <2>3, <1>7
    <3> QED BY <3>2, <3>3, <1>9
  <2>5. ASSUME NEW i \in Lanes, word.keep[i], word.data[i] # NoByte
        PROVE  word.data[i].pkt \in PacketsIn(curr)
    <3>1. CASE i = 0
      <4>1. word.data[0] = curr.data[0]
        BY <3>1, <2>1, <2>2, <2>3, <2>5, <1>6
      <4>2. curr.keep[0]
        <5>1. 0 < Size(curr)
          BY <1>1, <1>2
        <5> QED BY <5>1, <1>2, <2>3
      <4> QED BY <3>1, <4>1, <4>2, <2>3, <2>5 DEF PacketsIn
    <3>2. CASE i # 0
      <4>1. word.data[i] = curr.data[i] /\ word.keep[i] = curr.keep[i]
        BY <3>2, <2>2, <2>3, <1>6, <1>7
      <4> QED BY <4>1, <2>5 DEF PacketsIn
    <3> QED BY <3>1, <3>2
  <2>6. PacketsIn(word) \subseteq PacketsIn(prev) \cup {PacketOf(curr)}
    <3>1. PacketsIn(word) \subseteq PacketsIn(curr)
      <4> SUFFICES ASSUME NEW q \in PacketsIn(word)
                   PROVE  q \in PacketsIn(curr)
        OBVIOUS
      <4>1. PICK i \in Lanes : word.keep[i] /\ word.data[i] # NoByte /\ q = word.data[i].pkt
        BY DEF PacketsIn
      <4> QED BY <4>1, <2>5
    <3> QED BY <3>1, <1>2
  <2>7. ASSUME keepToLen(word.keep) = BUFFER
        PROVE  l + Size(curr) >= BUFFER
    <3>1. BUFFER - 1 # 0
      BY <1>1
    <3>2. word.keep[BUFFER - 1] = curr.keep[BUFFER - 1]
      BY <3>1, <1>11, <2>2, <2>3, <1>7
    <3>3. BUFFER - 1 < Size(curr)
      BY <3>2, <2>7, <1>2, <1>10, <1>11
    <3> QED BY <3>3, <1>1, <1>2
  <2> QED BY <2>4, <2>6, <2>7, <1>13
<1> QED BY <1>12, <1>13

\* The first l bytes of a run and the word that continues it are joined.
LEMMA JoinedRun ==
  ASSUME NEW l \in 1 .. BUFFER - 1, NEW prev \in Word, NEW curr \in Word, IsFed(curr),
         NEW p, NEW g \in Nat, PacketOf(curr) = p, PosOf(curr) = g + l,
         Run(prev, l, p, g),
         NEW word \in Word,
         Joins(word, l, prev, curr),
         NEW n \in 1 .. BUFFER, n = IF l + Size(curr) < BUFFER THEN l + Size(curr) ELSE BUFFER
  PROVE  /\ keepToLen(word.keep) = n
         /\ Run(word, n, p, g)
<1>1. BUFFER \in Nat /\ BUFFER >= 2 /\ Lanes = 0 .. BUFFER - 1
  BY AlignerAssumption DEF Lanes
<1>2. PICK c \in 1 .. BUFFER : c = Size(curr)
  BY DEF IsFed
<1>3. /\ \A i \in Lanes : curr.keep[i] = (i < c)
      /\ \A i \in Lanes : curr.data[i] = IF i < c THEN [pkt |-> p, pos |-> g + l + i] ELSE NoByte
  BY <1>2, FedWord
<1>4. \A i \in Lanes : /\ word.data[i] = IF i < l THEN prev.data[i] ELSE curr.data[i - l]
                       /\ word.keep[i] = IF i < l THEN prev.keep[i] ELSE curr.keep[i - l]
  BY DEF Joins
<1>5. \A i \in 0 .. l - 1 : prev.keep[i] /\ prev.data[i] = [pkt |-> p, pos |-> g + i]
  BY DEF Run
<1>6. ASSUME NEW i \in Lanes
      PROVE  word.keep[i] = (i < n)
  <2>1. CASE i < l
    <3>1. word.keep[i] = prev.keep[i] /\ i \in 0 .. l - 1 /\ i < n
      BY <2>1, <1>1, <1>2, <1>4
    <3>2. prev.keep[i] = TRUE
      <4>1. prev.keep[i] /\ prev.keep[i] \in BOOLEAN
        BY <3>1, <1>5 DEF Word
      <4> QED BY <4>1
    <3> QED BY <3>1, <3>2
  <2>2. CASE ~(i < l)
    <3>1. word.keep[i] = curr.keep[i - l] /\ i - l \in Lanes
      BY <2>2, <1>1, <1>4
    <3>2. (i - l < c) <=> (i < n)
      BY <2>2, <1>1, <1>2
    <3> QED BY <3>1, <3>2, <1>3
  <2> QED BY <2>1, <2>2
<1>7. keepToLen(word.keep) = n
  <2>1. word.keep = [i \in Lanes |-> word.keep[i]]
    BY DEF Word
  <2> QED BY <2>1, <1>6, ContiguousIs
<1>8. ASSUME NEW i \in 0 .. n - 1
      PROVE  word.keep[i] /\ word.data[i] = [pkt |-> p, pos |-> g + i]
  <2>1. i \in Lanes /\ word.keep[i]
    <3>1. i \in Lanes /\ i < n
      BY <1>1
    <3> QED BY <3>1, <1>6
  <2>2. CASE i < l
    <3>1. word.data[i] = prev.data[i] /\ i \in 0 .. l - 1
      BY <2>1, <2>2, <1>1, <1>4
    <3> QED BY <2>1, <3>1, <1>5
  <2>3. CASE ~(i < l)
    <3>1. word.data[i] = curr.data[i - l] /\ i - l \in Lanes /\ i - l < c /\ g + l + (i - l) = g + i
      BY SMTT(30), <2>1, <2>3, <1>1, <1>2, <1>4
    <3> QED BY <2>1, <3>1, <1>3
  <2> QED BY <2>2, <2>3
<1> QED BY <1>7, <1>8 DEF Run

\* What shiftDown returns is a word of the bytes it was given.
LEMMA ShiftedWord ==
  ASSUME NEW l \in 0 .. BUFFER - 1, NEW curr \in Word, IsFed(curr), NEW last \in BOOLEAN,
         NEW word, word = [data |-> shiftDown(l, curr).data, keep |-> shiftDown(l, curr).keep, last |-> last]
  PROVE  /\ word \in Word /\ PacketsIn(word) \subseteq {PacketOf(curr)}
         /\ Shifts(word, l, curr)
<1>1. BUFFER \in Nat /\ BUFFER >= 2 /\ Lanes = 0 .. BUFFER - 1
  BY AlignerAssumption DEF Lanes
<1>2. PacketsIn(curr) \subseteq {PacketOf(curr)}
  BY FedWord
<1>3. /\ curr.data \in [Lanes -> [pkt : Nat, pos : Nat]] /\ curr.keep \in [Lanes -> BOOLEAN]
      /\ NoByte \in [pkt : Nat, pos : Nat]
  BY DEF Word, NoByte
<1>4. /\ word.data = [i \in Lanes |-> IF i + l < BUFFER THEN curr.data[i + l] ELSE NoByte]
      /\ word.keep = [i \in Lanes |-> i + l < BUFFER /\ curr.keep[i + l]]
      /\ word.last = last
  BY DEF shiftDown
<1>5. \A i \in Lanes : i + l < BUFFER => i + l \in Lanes
  BY <1>1
<1>6. word.data \in [Lanes -> [pkt : Nat, pos : Nat]]
  BY <1>3, <1>4, <1>5
<1>7. word.keep \in [Lanes -> BOOLEAN]
  BY <1>4
<1>8. word \in Word
  BY <1>4, <1>6, <1>7 DEF Word
<1>9. ASSUME NEW i \in Lanes, word.keep[i], word.data[i] # NoByte
      PROVE  word.data[i].pkt \in PacketsIn(curr)
  <2>1. i + l \in Lanes /\ curr.keep[i + l] /\ word.data[i] = curr.data[i + l]
    BY <1>4, <1>5, <1>9
  <2> QED BY <2>1, <1>9 DEF PacketsIn
<1>10. PacketsIn(word) \subseteq PacketsIn(curr)
  BY <1>9 DEF PacketsIn
<1>11. Shifts(word, l, curr)
  BY <1>4 DEF Shifts
<1> QED BY <1>2, <1>8, <1>10, <1>11

\* Shifted by half a word, it holds the bytes that did not fit.
LEMMA ShiftedRun ==
  ASSUME NEW l \in 1 .. BUFFER - 1, NEW curr \in Word, IsFed(curr),
         NEW p, NEW g \in Nat, PacketOf(curr) = p, PosOf(curr) = g + l,
         NEW word \in Word,
         Shifts(word, l, curr),
         l = BUFFER - l, NEW n \in 1 .. BUFFER, n = l + Size(curr) - BUFFER
  PROVE  /\ keepToLen(word.keep) = n
         /\ Run(word, n, p, g + BUFFER)
<1>1. BUFFER \in Nat /\ BUFFER >= 2 /\ Lanes = 0 .. BUFFER - 1
  BY AlignerAssumption DEF Lanes
<1>2. PICK c \in 1 .. BUFFER : c = Size(curr)
  BY DEF IsFed
<1>3. /\ \A i \in Lanes : curr.keep[i] = (i < c)
      /\ \A i \in Lanes : curr.data[i] = IF i < c THEN [pkt |-> p, pos |-> g + l + i] ELSE NoByte
  BY <1>2, FedWord
<1>4. \A i \in Lanes : /\ word.data[i] = IF i + l < BUFFER THEN curr.data[i + l] ELSE NoByte
                       /\ word.keep[i] = (i + l < BUFFER /\ curr.keep[i + l])
  BY DEF Shifts
<1>5. ASSUME NEW i \in Lanes
      PROVE  word.keep[i] = (i < n)
  <2>1. CASE i + l < BUFFER
    <3>1. word.keep[i] = (i + l < c) /\ i + l \in Lanes
      <4>1. i + l \in Lanes
        BY <2>1, <1>1
      <4>2. curr.keep[i + l] = (i + l < c)
        BY <4>1, <1>3
      <4>3. word.keep[i] = curr.keep[i + l]
        <5>1. word.keep[i] = (i + l < BUFFER /\ curr.keep[i + l])
          BY <1>4
        <5>2. curr.keep[i + l] \in BOOLEAN
          BY <4>1 DEF Word
        <5> QED BY <5>1, <5>2, <2>1
      <4> QED BY <4>1, <4>2, <4>3
    <3>2. (i + l < c) <=> (i < n)
      BY <1>1, <1>2
    <3> QED BY <3>1, <3>2
  <2>2. CASE ~(i + l < BUFFER)
    <3>1. ~(i < n)
      BY <2>2, <1>1, <1>2
    <3> QED BY <3>1, <2>2, <1>4
  <2> QED BY <2>1, <2>2
<1>6. keepToLen(word.keep) = n
  <2>1. word.keep = [i \in Lanes |-> word.keep[i]]
    BY DEF Word
  <2> QED BY <2>1, <1>5, ContiguousIs
<1>7. ASSUME NEW i \in 0 .. n - 1
      PROVE  word.keep[i] /\ word.data[i] = [pkt |-> p, pos |-> g + BUFFER + i]
  <2>1. i \in Lanes /\ word.keep[i]
    <3>1. i \in Lanes /\ i < n
      BY <1>1
    <3> QED BY <3>1, <1>5
  <2>2. i + l < BUFFER /\ i + l \in Lanes /\ i + l < c /\ g + l + (i + l) = g + BUFFER + i
    BY <2>1, <1>1, <1>2
  <2> QED BY <2>1, <2>2, <1>3, <1>4
<1> QED BY <1>6, <1>7 DEF Run

-----------------------------------------------------------------------------
(***************************************************************************)
(* AlPullN                                                                 *)
(***************************************************************************)

\* What AlPullN finds: l bytes in its buffer and c in the next word curr, from
\* byte k of packet p on; g bytes of p have gone out.  It joins n bytes.
Reads(p, k, l, c, g, n, curr) ==
  /\ p \in Nat \ {0} /\ k \in Nat /\ l \in 0 .. BUFFER - 1 /\ c \in 1 .. BUFFER /\ g \in Nat
  /\ n \in 1 .. BUFFER /\ n = IF l + c < BUFFER THEN l + c ELSE BUFFER
  /\ curr = Head(tx_aligner)
  /\ p = AtPkt /\ k = AtPos /\ l = al.prevLength /\ c = Size(curr) /\ g = Gone(p)

\* PULL_N always finds such values.
LEMMA PullNBefore ==
  ASSUME IInv, AlPullN
  PROVE  \E p, k, l, c, g, n, curr : Reads(p, k, l, c, g, n, curr)
<1>1. al.state = "PULL_N" /\ tx_aligner # <<>> /\ tx_aligner' = Tail(tx_aligner) /\ packets' = packets
  BY DEF AlPullN
<1>2. PICK l \in 0 .. BUFFER - 1 : l = al.prevLength
  BY <1>1, InvFacts DEF PullInv
<1>3. PICK c \in 1 .. BUFFER : c = Size(Head(tx_aligner))
  BY <1>1, InvFacts, InputTake DEF IsFed
<1>4. PICK p \in Nat \ {0} : p = AtPkt
  BY InvFacts
<1>5. PICK g \in Nat : g = Gone(p)
  BY InvFacts, GoneIsNat
<1>6. PICK n \in 1 .. BUFFER : n = IF l + c < BUFFER THEN l + c ELSE BUFFER
  <2>1. (IF l + c < BUFFER THEN l + c ELSE BUFFER) \in 1 .. BUFFER
    BY AlignerAssumption
  <2> QED BY <2>1
<1>7. PICK k \in Nat : k = AtPos
  BY InvFacts
<1>8. Reads(p, k, l, c, g, n, Head(tx_aligner))
  BY <1>2, <1>3, <1>4, <1>5, <1>6, <1>7 DEF Reads
<1> QED BY <1>8

\* The packet it reads.
LEMMA PullNReads ==
  ASSUME IInv, AlPullN, NEW curr, curr = Head(tx_aligner)
  PROVE  /\ al.state = "PULL_N" /\ Cur = AtPkt /\ AtPos > 0
         /\ PacketsIn(al.prevWord) \subseteq {AtPkt}
         /\ AtPkt \notin damaged =>
              /\ Gone(AtPkt) + al.prevLength = AtPos /\ Gone(AtPkt) % BUFFER = 0
              /\ Run(al.prevWord, al.prevLength, AtPkt, Gone(AtPkt))
         /\ InputInv' /\ UNCHANGED <<packets, fed, sent>> /\ tx_aligner' = Tail(tx_aligner)
         /\ curr \in Word /\ IsFed(curr) /\ curr.last \in BOOLEAN
         /\ PacketOf(curr) = AtPkt /\ PosOf(curr) = AtPos
         /\ AtPkt \in 1 .. Len(packets) /\ packets[AtPkt].bytes \in Nat
         /\ AtPos + Size(curr) <= packets[AtPkt].bytes
         /\ curr.last => packets[AtPkt].closed /\ AtPos + Size(curr) = packets[AtPkt].bytes
         /\ AtPkt' = (IF curr.last THEN AtPkt + 1 ELSE AtPkt)
         /\ AtPos' = (IF curr.last THEN 0 ELSE AtPos + Size(curr))
<1>1. /\ al.state = "PULL_N" /\ tx_aligner # <<>> /\ tx_aligner' = Tail(tx_aligner)
      /\ UNCHANGED <<packets, fed, sent>>
  BY DEF AlPullN
<1>2. Cur = AtPkt
  BY <1>1 DEF Cur
<1>3. /\ AtPos > 0 /\ PacketsIn(al.prevWord) \subseteq {AtPkt}
      /\ AtPkt \notin damaged =>
           /\ Gone(AtPkt) + al.prevLength = AtPos /\ Gone(AtPkt) % BUFFER = 0
           /\ Run(al.prevWord, al.prevLength, AtPkt, Gone(AtPkt))
  BY <1>1, InvFacts DEF PullInv
<1>4. /\ InputInv' /\ curr \in Word /\ IsFed(curr) /\ Within(curr, packets)
      /\ PacketOf(curr) = AtPkt /\ PosOf(curr) = AtPos
      /\ AtPkt' = NextPkt(curr) /\ AtPos' = NextPos(curr)
  BY <1>1, InvFacts, InputTake
<1>5. /\ AtPkt \in 1 .. Len(packets) /\ AtPos + Size(curr) <= packets[AtPkt].bytes
      /\ curr.last => packets[AtPkt].closed /\ AtPos + Size(curr) = packets[AtPkt].bytes
  BY <1>4 DEF Within
<1>6. /\ AtPkt' = (IF curr.last THEN AtPkt + 1 ELSE AtPkt)
      /\ AtPos' = (IF curr.last THEN 0 ELSE AtPos + Size(curr))
  BY <1>4 DEF NextPkt, NextPos
<1>7. curr.last \in BOOLEAN
  BY <1>4 DEF IsFed
<1>8. packets[AtPkt].bytes \in Nat
  BY <1>5, InvFacts, PacketTypes
<1> QED BY <1>1, <1>2, <1>3, <1>4, <1>5, <1>6, <1>7, <1>8

\* What it does: it sends nothing, or a word; unless the packet is damaged, the
\* word holds the next n bytes, and the buffer those after them.
Does(p, l, c, g, n, curr) ==
  /\ damaged' = damaged \/ damaged' = damaged \cup {p}
  /\ p \in damaged' /\ p \notin damaged => packets[p].bytes > BUFFER
  /\ al' \in [state : {"IDLE", "PULL_FIRST", "PULL_N", "RESIDUE"},
              prevLength : 0 .. BUFFER - 1, prevWord : Word]
  /\ al'.state = AfterLast(curr.last, l + c > BUFFER) /\ PacketsIn(al'.prevWord) \subseteq {p}
  /\ \/ /\ UNCHANGED tcp_tx_data
        /\ p \notin damaged' =>
             /\ ~curr.last /\ l + c < BUFFER /\ al'.prevLength = l + c
             /\ Run(al'.prevWord, l + c, p, g)
     \/ \E send \in Word :
          /\ Len(tcp_tx_data) < PortDepth /\ tcp_tx_data' = Append(tcp_tx_data, send)
          /\ PacketsIn(send) \subseteq {p}
          /\ p \notin damaged' =>
               /\ curr.last \/ l + c >= BUFFER
               /\ keepToLen(send.keep) = n /\ send.last = (curr.last /\ l + c <= BUFFER)
               /\ Run(send, n, p, g)
               /\ l + c >= BUFFER =>
                    /\ al'.prevLength = l + c - BUFFER
                    /\ l + c > BUFFER => keepToLen(al'.prevWord.keep) = l + c - BUFFER
                    /\ Run(al'.prevWord, l + c - BUFFER, p, g + BUFFER)

\* From what it finds to what it does.
LEMMA PullNDoes ==
  ASSUME IInv, AlPullN, NEW p, NEW k, NEW l, NEW c, NEW g, NEW n, NEW curr,
         Reads(p, k, l, c, g, n, curr)
  PROVE  Does(p, l, c, g, n, curr)
<1>0. /\ p \in Nat \ {0} /\ k \in Nat /\ l \in 0 .. BUFFER - 1 /\ c \in 1 .. BUFFER /\ g \in Nat
      /\ n \in 1 .. BUFFER /\ n = IF l + c < BUFFER THEN l + c ELSE BUFFER
      /\ curr = Head(tx_aligner)
      /\ p = AtPkt /\ k = AtPos /\ l = al.prevLength /\ c = Size(curr) /\ g = Gone(p)
  BY DEF Reads
<1> USE <1>0
<1>1. BUFFER \in Nat /\ BUFFER >= 2 /\ ap_uint6(l) = l
  BY AlignerAssumption DEF ap_uint6
<1>2. /\ k > 0 /\ PacketsIn(al.prevWord) \subseteq {p}
      /\ p \notin damaged =>
           /\ g + l = k /\ g % BUFFER = 0
           /\ Run(al.prevWord, l, p, g)
      /\ curr \in Word /\ IsFed(curr) /\ curr.last \in BOOLEAN /\ PacketOf(curr) = p /\ PosOf(curr) = k
      /\ k + c <= packets[p].bytes /\ packets[p].bytes \in Nat
  BY PullNReads
<1> DEFINE hasResidue == c + l > BUFFER
           sendOf(joined) == [data |-> joined.data, keep |-> joined.keep, last |-> LastSent(curr.last, hasResidue)]
           restOf(last) == [data |-> shiftDown(l, curr).data, keep |-> shiftDown(l, curr).keep, last |-> last]
           isFull(word) == keepToLen(word.keep) = BUFFER
<1>3. PICK joined \in alignWords(l, al.prevWord, curr), unwritten \in BOOLEAN :
        LET sendWord == sendOf(joined)
            push     == curr.last \/ isFull(sendWord) \/ hasResidue
        IN  /\ push => Len(tcp_tx_data) < PortDepth
            /\ tcp_tx_data' = IF push THEN Append(tcp_tx_data, sendWord) ELSE tcp_tx_data
            /\ al' = [state      |-> AfterLast(curr.last, hasResidue),
                      prevLength |-> IF isFull(sendWord) THEN l + c - BUFFER ELSE keepToLen(sendWord.keep),
                      prevWord   |-> IF isFull(sendWord) THEN restOf(unwritten) ELSE sendWord]
            /\ damaged' = IF Damages(l, isFull(sendWord), hasResidue)
                          THEN damaged \cup {p} ELSE damaged
  <2>1. PICK joined \in alignWords(ap_uint6(al.prevLength), al.prevWord, curr), unwritten \in BOOLEAN :
          LET residue  == keepToLen(curr.keep) + al.prevLength > BUFFER
              sendWord == [data |-> joined.data, keep |-> joined.keep, last |-> LastSent(curr.last, residue)]
              full     == keepToLen(joined.keep) = BUFFER
              shifted  == shiftDown(ap_uint6(al.prevLength), curr)
              push     == curr.last \/ full \/ residue
          IN  /\ push => Len(tcp_tx_data) < PortDepth
              /\ tcp_tx_data' = IF push THEN Append(tcp_tx_data, sendWord) ELSE tcp_tx_data
              /\ al' = [state      |-> AfterLast(curr.last, residue),
                        prevLength |-> IF full THEN al.prevLength + keepToLen(curr.keep) - BUFFER
                                               ELSE keepToLen(joined.keep),
                        prevWord   |-> IF full THEN [data |-> shifted.data, keep |-> shifted.keep, last |-> unwritten]
                                               ELSE sendWord]
              /\ damaged' = IF Damages(ap_uint6(al.prevLength), full, residue)
                            THEN damaged \cup {PacketOf(curr)} ELSE damaged
    BY DEF AlPullN
  <2>2. ap_uint6(al.prevLength) = l /\ keepToLen(curr.keep) = c /\ PacketOf(curr) = p
    BY <1>1, <1>2 DEF Size
  <2> QED BY <2>1, <2>2
<1>4. PICK send : send = sendOf(joined)
  OBVIOUS
<1>5. PICK rest : rest = restOf(unwritten)
  OBVIOUS
<1> DEFINE push == curr.last \/ isFull(send) \/ hasResidue
<1>6. /\ push => Len(tcp_tx_data) < PortDepth
      /\ tcp_tx_data' = IF push THEN Append(tcp_tx_data, send) ELSE tcp_tx_data
      /\ al' = [state      |-> AfterLast(curr.last, hasResidue),
                prevLength |-> IF isFull(send) THEN l + c - BUFFER ELSE keepToLen(send.keep),
                prevWord   |-> IF isFull(send) THEN rest ELSE send]
      /\ damaged' = IF Damages(l, isFull(send), hasResidue) THEN damaged \cup {p} ELSE damaged
  BY <1>3, <1>4, <1>5
<1>7. al.prevWord \in Word /\ LastSent(curr.last, hasResidue) \in BOOLEAN
  BY InvFacts DEF LastSent
<1>8. /\ send \in Word /\ PacketsIn(send) \subseteq {p}
      /\ isFull(send) => l + c >= BUFFER
      /\ l > 0 =>
           /\ Joins(send, l, al.prevWord, curr)
  <2>1. /\ send \in Word /\ PacketsIn(send) \subseteq PacketsIn(al.prevWord) \cup {PacketOf(curr)}
        /\ isFull(send) => l + c >= BUFFER
        /\ l > 0 =>
             /\ Joins(send, l, al.prevWord, curr)
    BY <1>2, <1>4, <1>7, AlignedWord
  <2> QED BY <2>1, <1>2
<1>9. /\ rest \in Word /\ PacketsIn(rest) \subseteq {p}
      /\ Shifts(rest, l, curr)
  <2>1. rest = [data |-> shiftDown(l, curr).data, keep |-> shiftDown(l, curr).keep, last |-> unwritten]
    BY <1>5
  <2>2. curr \in Word /\ IsFed(curr) /\ PacketOf(curr) = p
    BY <1>2
  <2> QED BY <2>1, <2>2, ShiftedWord
<1>10. send.last = LastSent(curr.last, hasResidue)
  BY <1>4
<1> HIDE DEF sendOf, restOf
<1>11. keepToLen(send.keep) \in 0 .. BUFFER
  BY KeepLength
<1>12. damaged' = damaged \/ damaged' = damaged \cup {p}
  BY <1>6
<1>13. ASSUME p \in damaged', p \notin damaged
       PROVE  packets[p].bytes > BUFFER
  <2>1. Damages(l, isFull(send), hasResidue)
    BY <1>6, <1>13
  <2>2. g + l = k /\ g % BUFFER = 0
    BY <1>2, <1>13
  <2>3. CASE l = 0
    <3>1. g > 0
      BY <2>2, <2>3, <1>2
    <3>2. g >= BUFFER
      <4>1. CASE g < BUFFER
        <5>1. g % BUFFER = g
          BY <4>1, <1>1
        <5> QED BY <5>1, <2>2, <3>1
      <4> QED BY <4>1, <1>1
    <3>3. k + c <= packets[p].bytes /\ packets[p].bytes \in Nat
      BY <1>2
    <3>4. k + c > BUFFER
      <4>1. g = k
        BY <2>2, <2>3
      <4> QED BY <4>1, <3>2, <1>1
    <3> QED BY <3>3, <3>4, <1>1
  <2>4. CASE c + l > BUFFER
    BY <2>2, <2>4, <1>1, <1>2
  <2> QED BY <2>1, <2>3, <2>4 DEF Damages
<1>14. /\ al' \in [state : {"IDLE", "PULL_FIRST", "PULL_N", "RESIDUE"},
                   prevLength : 0 .. BUFFER - 1, prevWord : Word]
       /\ al'.state = AfterLast(curr.last, l + c > BUFFER) /\ PacketsIn(al'.prevWord) \subseteq {p}
       /\ al'.prevLength = (IF isFull(send) THEN l + c - BUFFER ELSE keepToLen(send.keep))
       /\ al'.prevWord = (IF isFull(send) THEN rest ELSE send)
  <2>1. AfterLast(curr.last, hasResidue) \in {"IDLE", "PULL_FIRST", "PULL_N", "RESIDUE"}
    BY DEF AfterLast
  <2>2. (IF isFull(send) THEN l + c - BUFFER ELSE keepToLen(send.keep)) \in 0 .. BUFFER - 1
    BY <1>1, <1>8, <1>11
  <2>3. (IF isFull(send) THEN rest ELSE send) \in Word
    BY <1>8, <1>9
  <2>4. hasResidue = (l + c > BUFFER)
    BY <1>1
  <2>5. PacketsIn(IF isFull(send) THEN rest ELSE send) \subseteq {p}
    BY <1>8, <1>9
  <2> HIDE DEF isFull, hasResidue
  <2> QED BY <2>1, <2>2, <2>3, <2>4, <2>5, <1>6
<1>15. ASSUME p \notin damaged'
       PROVE  /\ l > 0 /\ p \notin damaged
              /\ keepToLen(send.keep) = n
              /\ Run(send, n, p, g)
              /\ l + c > BUFFER => l = BUFFER - l
  <2>1. ~Damages(l, isFull(send), hasResidue) /\ p \notin damaged
    BY <1>6, <1>15
  <2>2. l # 0
    BY <2>1 DEF Damages
  <2>3. l \in 1 .. BUFFER - 1
    BY <2>2, <1>1
  <2>4. /\ g + l = k
        /\ Run(al.prevWord, l, p, g)
    BY <2>1, <1>2
  <2>5. /\ keepToLen(send.keep) = n
        /\ Run(send, n, p, g)
    <3>1. curr \in Word /\ IsFed(curr) /\ PacketOf(curr) = p /\ PosOf(curr) = g + l
      BY <2>4, <1>2
    <3>2. /\ send \in Word
          /\ Joins(send, l, al.prevWord, curr)
      BY <2>3, <1>8
    <3>3. n = IF l + Size(curr) < BUFFER THEN l + Size(curr) ELSE BUFFER
      OBVIOUS
    <3> HIDE DEF isFull, hasResidue, push
    <3> QED BY <2>3, <2>4, <3>1, <3>2, <3>3, <1>7, JoinedRun
  <2>6. ASSUME l + c > BUFFER
        PROVE  l = BUFFER - l
    <3>1. isFull(send) /\ hasResidue
      BY <2>5, <2>6, <1>1
    <3> QED BY <3>1, <2>1 DEF Damages
  <2> QED BY <2>1, <2>3, <2>5, <2>6
<1>16. CASE ~push
  <2>1. UNCHANGED tcp_tx_data
    BY <1>6, <1>16
  <2>2. ASSUME p \notin damaged'
        PROVE  /\ ~curr.last /\ l + c < BUFFER /\ al'.prevLength = l + c
               /\ Run(al'.prevWord, l + c, p, g)
    <3>1. n # BUFFER
      BY <2>2, <1>15, <1>16
    <3>2. l + c < BUFFER /\ n = l + c
      BY <3>1, <1>1
    <3>3. al'.prevLength = n /\ al'.prevWord = send
      BY <2>2, <3>1, <1>14, <1>15
    <3> QED BY <3>2, <3>3, <2>2, <1>15, <1>16
  <2> QED BY <2>1, <2>2, <1>12, <1>13, <1>14 DEF Does
<1>17. CASE push
  <2>1. Len(tcp_tx_data) < PortDepth /\ tcp_tx_data' = Append(tcp_tx_data, send)
    BY <1>6, <1>17
  <2>2. ASSUME p \notin damaged'
        PROVE  /\ curr.last \/ l + c >= BUFFER
               /\ keepToLen(send.keep) = n /\ send.last = (curr.last /\ l + c <= BUFFER)
               /\ Run(send, n, p, g)
    <3>1. curr.last \/ l + c >= BUFFER
      BY <1>1, <1>8, <1>17
    <3>2. send.last = (curr.last /\ l + c <= BUFFER)
      BY <1>1, <1>2, <1>10 DEF LastSent
    <3> QED BY <3>1, <3>2, <2>2, <1>15
  <2>3. ASSUME p \notin damaged', l + c >= BUFFER
        PROVE  /\ al'.prevLength = l + c - BUFFER
               /\ l + c > BUFFER => keepToLen(al'.prevWord.keep) = l + c - BUFFER
               /\ Run(al'.prevWord, l + c - BUFFER, p, g + BUFFER)
    <3>1. isFull(send)
      BY <2>3, <1>1, <1>15
    <3>2. al'.prevLength = l + c - BUFFER /\ al'.prevWord = rest
      BY <3>1, <1>14
    <3>3. CASE l + c = BUFFER
      <4>1. l + c - BUFFER = 0 /\ ~(l + c > BUFFER)
        BY <3>3, <1>1
      <4> QED BY <4>1, <3>2 DEF Run
    <3>4. CASE l + c > BUFFER
      <4>1. l = BUFFER - l /\ l \in 1 .. BUFFER - 1
        BY <2>3, <3>4, <1>1, <1>15
      <4>2. PICK m \in 1 .. BUFFER : m = l + c - BUFFER
        BY <3>4, <1>1
      <4>3. g + l = k
        BY <2>3, <1>2, <1>15
      <4>4. /\ keepToLen(rest.keep) = m
            /\ Run(rest, m, p, g + BUFFER)
        <5>1. curr \in Word /\ IsFed(curr) /\ PacketOf(curr) = p /\ PosOf(curr) = g + l
          BY <4>3, <1>2
        <5>2. m = l + Size(curr) - BUFFER
          BY <4>2
        <5> HIDE DEF isFull, hasResidue, push
        <5> QED BY <4>1, <5>1, <5>2, <1>9, ShiftedRun
      <4> QED BY <4>2, <4>4, <3>2
    <3> QED BY <3>3, <3>4, <2>3, <1>1
  <2> HIDE DEF isFull, hasResidue
  <2> QED BY <2>1, <2>2, <2>3, <1>8, <1>12, <1>13, <1>14 DEF Does
<1> QED BY <1>16, <1>17

\* Nothing has gone out of the packets ahead.
LEMMA NoneAhead ==
  ASSUME IInv, NEW q \in Nat \ {0}, q > Cur
  PROVE  Gone(q) = 0
<1>1. \A k \in 1 .. Len(offered) : q \notin PacketsIn(offered[k])
  <2> SUFFICES ASSUME NEW k \in 1 .. Len(offered), q \in PacketsIn(offered[k])
               PROVE  FALSE
    OBVIOUS
  <2>1. q <= Cur
    BY InvFacts DEF OrderInv
  <2> QED BY <2>1, InvFacts
<1> QED BY <1>1, InvFacts, OfferedType, CountNone DEF Gone

\* The step of PULL_N keeps the invariant.
LEMMA PullNInv ==
  ASSUME IInv, AlPullN
  PROVE  IInv'
<1>1. PICK p, k, l, c, g, n, curr : Reads(p, k, l, c, g, n, curr)
  BY PullNBefore
<1>2. /\ p \in Nat \ {0} /\ k \in Nat /\ l \in 0 .. BUFFER - 1 /\ c \in 1 .. BUFFER /\ g \in Nat
      /\ n \in 1 .. BUFFER /\ n = IF l + c < BUFFER THEN l + c ELSE BUFFER
      /\ curr = Head(tx_aligner)
      /\ p = AtPkt /\ k = AtPos /\ l = al.prevLength /\ c = Size(curr) /\ g = Gone(p)
  BY <1>1 DEF Reads
<1>3. BUFFER \in Nat /\ BUFFER >= 2
  BY AlignerAssumption
<1> USE <1>2, <1>3
<1>5. /\ Cur = p /\ k > 0
      /\ p \notin damaged => g + l = k /\ g % BUFFER = 0
      /\ InputInv' /\ UNCHANGED <<packets, fed, sent>> /\ tx_aligner' = Tail(tx_aligner)
      /\ curr.last \in BOOLEAN /\ tx_aligner # <<>>
      /\ p \in 1 .. Len(packets)
      /\ curr.last => packets[p].closed /\ k + c = packets[p].bytes
      /\ AtPkt' = (IF curr.last THEN p + 1 ELSE p)
      /\ AtPos' = (IF curr.last THEN 0 ELSE k + c)
  <2>1. tx_aligner # <<>>
    BY DEF AlPullN
  <2> QED BY <2>1, PullNReads
<1>6. /\ damaged' = damaged \/ damaged' = damaged \cup {p}
      /\ al' \in [state : {"IDLE", "PULL_FIRST", "PULL_N", "RESIDUE"},
                  prevLength : 0 .. BUFFER - 1, prevWord : Word]
      /\ al'.state = AfterLast(curr.last, l + c > BUFFER) /\ PacketsIn(al'.prevWord) \subseteq {p}
      /\ \/ /\ UNCHANGED tcp_tx_data
            /\ p \notin damaged' =>
                 /\ ~curr.last /\ l + c < BUFFER /\ al'.prevLength = l + c
                 /\ Run(al'.prevWord, l + c, p, g)
         \/ \E send \in Word :
              /\ Len(tcp_tx_data) < PortDepth /\ tcp_tx_data' = Append(tcp_tx_data, send)
              /\ PacketsIn(send) \subseteq {p}
              /\ p \notin damaged' =>
                   /\ curr.last \/ l + c >= BUFFER
                   /\ keepToLen(send.keep) = n /\ send.last = (curr.last /\ l + c <= BUFFER)
                   /\ Run(send, n, p, g)
                   /\ l + c >= BUFFER =>
                        /\ al'.prevLength = l + c - BUFFER
                        /\ l + c > BUFFER => keepToLen(al'.prevWord.keep) = l + c - BUFFER
                        /\ Run(al'.prevWord, l + c - BUFFER, p, g + BUFFER)
  <2>1. Does(p, l, c, g, n, curr)
    BY <1>1, PullNDoes
  <2> QED BY <2>1 DEF Does
<1>7. /\ tcp_tx_data' \in Seq(Word) /\ Len(tcp_tx_data') <= PortDepth
      /\ \A q \in Nat \ {0} : q # p => Gone(q)' = Gone(q)
      /\ \A q \in Nat \ {0} : q > p => Gone(q)' = 0
      /\ \A j \in 1 .. Len(offered') : \A q \in PacketsIn(offered'[j]) : q <= p
      /\ PacketsSeparate' /\ offered' \in Seq(Word)
      /\ p \notin damaged' =>
           \/ /\ ~curr.last /\ Gone(p)' = g /\ al'.prevLength = l + c
              /\ Run(al'.prevWord, l + c, p, g)
           \/ /\ curr.last \/ l + c >= BUFFER
              /\ Gone(p)' = g + n
              /\ l + c >= BUFFER =>
                   /\ al'.prevLength = l + c - BUFFER
                   /\ l + c > BUFFER => keepToLen(al'.prevWord.keep) = l + c - BUFFER
                   /\ Run(al'.prevWord, l + c - BUFFER, p, g + BUFFER)
  <2>1. tcp_tx_data \in Seq(Word) /\ Len(tcp_tx_data) <= PortDepth /\ Len(tcp_tx_data) \in Nat /\ PortDepth \in Nat
    BY InvFacts, AlignerAssumption DEF TypeOK
  <2>2. offered \in Seq(Word)
    BY InvFacts, OfferedType
  <2>3. CASE /\ UNCHANGED tcp_tx_data
             /\ p \notin damaged' =>
                  /\ ~curr.last /\ l + c < BUFFER /\ al'.prevLength = l + c
                  /\ Run(al'.prevWord, l + c, p, g)
    <3>1. offered' = offered
      BY <2>3, <1>5 DEF offered
    <3>2. \A q : Gone(q)' = Gone(q)
      BY <3>1 DEF Gone
    <3>3. \A q \in Nat \ {0} : q > p => Gone(q) = 0
      BY <1>5, NoneAhead
    <3>4. PacketsSeparate' /\ \A j \in 1 .. Len(offered') : \A q \in PacketsIn(offered'[j]) : q <= p
      BY <3>1, <1>5, InvFacts DEF OrderInv, PacketsSeparate
    <3> QED BY <2>1, <2>2, <2>3, <3>1, <3>2, <3>3, <3>4
  <2>4. ASSUME NEW send \in Word,
               tcp_tx_data' = Append(tcp_tx_data, send), Len(tcp_tx_data) < PortDepth,
               PacketsIn(send) \subseteq {p},
               p \notin damaged' =>
                 /\ curr.last \/ l + c >= BUFFER
                 /\ keepToLen(send.keep) = n
                 /\ Run(send, n, p, g)
                 /\ l + c >= BUFFER =>
                      /\ al'.prevLength = l + c - BUFFER
                      /\ l + c > BUFFER => keepToLen(al'.prevWord.keep) = l + c - BUFFER
                      /\ Run(al'.prevWord, l + c - BUFFER, p, g + BUFFER)
        PROVE  /\ tcp_tx_data' \in Seq(Word) /\ Len(tcp_tx_data') <= PortDepth
               /\ \A q \in Nat \ {0} : q # p => Gone(q)' = Gone(q)
               /\ \A q \in Nat \ {0} : q > p => Gone(q)' = 0
               /\ \A j \in 1 .. Len(offered') : \A q \in PacketsIn(offered'[j]) : q <= p
               /\ PacketsSeparate' /\ offered' \in Seq(Word)
               /\ p \notin damaged' =>
                    /\ curr.last \/ l + c >= BUFFER
                    /\ Gone(p)' = g + n
                    /\ l + c >= BUFFER =>
                         /\ al'.prevLength = l + c - BUFFER
                         /\ l + c > BUFFER => keepToLen(al'.prevWord.keep) = l + c - BUFFER
                         /\ Run(al'.prevWord, l + c - BUFFER, p, g + BUFFER)
    <3>1. p \notin damaged' => keepToLen(send.keep) = n /\ \A i \in 0 .. n - 1 : send.data[i].pkt = p
      <4> SUFFICES ASSUME p \notin damaged', NEW i \in 0 .. n - 1
                   PROVE  keepToLen(send.keep) = n /\ send.data[i].pkt = p
        BY <2>4
      <4>1. send.data[i] = [pkt |-> p, pos |-> g + i] /\ keepToLen(send.keep) = n
        BY <2>4 DEF Run
      <4> QED BY <4>1
    <3>5. TypeOK /\ OrderInv
      BY InvFacts
    <3>6. offered' = Append(offered, send)
      <4>1. sent' = sent /\ tcp_tx_data' = Append(tcp_tx_data, send)
        BY <1>5, <2>4
      <4> QED BY <4>1, <3>5, OfferedGrows
    <3>7. /\ \A q \in Nat \ {0} : q # p => Gone(q)' = Gone(q)
          /\ \A q \in Nat \ {0} : q > p => Gone(q)' = 0
          /\ \A j \in 1 .. Len(offered') : \A q \in PacketsIn(offered'[j]) : q <= p
          /\ PacketsSeparate'
          /\ (\A i \in 0 .. keepToLen(send.keep) - 1 : send.data[i].pkt = p)
               => Gone(p)' = Gone(p) + keepToLen(send.keep)
      <4>1. p = Cur /\ PacketsIn(send) \subseteq {p}
        BY <1>5, <2>4
      <4> QED BY <4>1, <3>5, <3>6, WordGoes
    <3>8. p \notin damaged' => Gone(p)' = g + n
      BY <3>1, <3>7
    <3>2. /\ offered' = Append(offered, send)
          /\ \A q \in Nat \ {0} : q # p => Gone(q)' = Gone(q)
          /\ \A q \in Nat \ {0} : q > p => Gone(q)' = 0
          /\ \A j \in 1 .. Len(offered') : \A q \in PacketsIn(offered'[j]) : q <= p
          /\ PacketsSeparate'
          /\ p \notin damaged' => Gone(p)' = g + n
      BY <3>6, <3>7, <3>8
    <3>3. tcp_tx_data' \in Seq(Word) /\ Len(tcp_tx_data') <= PortDepth
      BY <2>1, <2>4
    <3>4. offered' \in Seq(Word)
      BY <2>2, <3>2
    <3> QED BY <2>4, <3>2, <3>3, <3>4
  <2> QED BY <1>6, <2>3, <2>4
<1>8. TypeOK'
  <2>1. tx_aligner \in Seq(Word) /\ Len(tx_aligner) <= TxAlignerDepth /\ TxAlignerDepth \in Nat
    BY InvFacts, AlignerAssumption DEF TypeOK
  <2>2. tx_aligner' \in Seq(Word) /\ Len(tx_aligner') <= TxAlignerDepth
    BY <2>1, <1>5
  <2>3. al' \in [state : {"IDLE", "PULL_FIRST", "PULL_N", "RESIDUE"}, prevLength : 0 .. BUFFER, prevWord : Word]
    BY <1>6
  <2>4. damaged' \subseteq 1 .. Len(packets')
    BY <1>5, <1>6, InvFacts
  <2>5. packets' \in Seq([bytes : Nat \ {0}, closed : BOOLEAN]) /\ fed' \in Nat /\ sent' \in Seq(Word)
    BY <1>5, InvFacts DEF TypeOK
  <2> QED BY <2>2, <2>3, <2>4, <2>5, <1>7 DEF TypeOK
<1>9. \A q \in damaged' : q \in Nat /\ q <= p
  BY <1>6, InvFacts DEF DamageInv
<1>10. DamageInv'
  <2>1. \A q \in damaged' : q <= AtPkt'
    BY <1>5, <1>9
  <2>2. AtPos' = 0 => AtPkt' \notin damaged'
    <3> SUFFICES ASSUME AtPos' = 0
                 PROVE  AtPkt' \notin damaged'
      OBVIOUS
    <3>1. AtPkt' = p + 1
      BY <1>5
    <3> QED BY <3>1, <1>9
  <2> QED BY <2>1, <2>2 DEF DamageInv
<1>11. /\ al'.state = "IDLE" => curr.last /\ ~(l + c > BUFFER) /\ Cur' = p + 1
       /\ al'.state # "IDLE" => Cur' = p
       /\ al'.state = "PULL_N" => ~curr.last
       /\ al'.state = "RESIDUE" => curr.last /\ l + c > BUFFER
       /\ al'.state \in {"IDLE", "PULL_N", "RESIDUE"}
  <2>1. CASE ~curr.last
    BY <2>1, <1>5, <1>6 DEF AfterLast, Cur
  <2>2. CASE curr.last /\ l + c > BUFFER
    BY <2>2, <1>5, <1>6 DEF AfterLast, Cur
  <2>3. CASE curr.last /\ ~(l + c > BUFFER)
    BY <2>3, <1>5, <1>6 DEF AfterLast, Cur
  <2> QED BY <2>1, <2>2, <2>3
<1>12. OrderInv'
  <2> SUFFICES ASSUME NEW j \in 1 .. Len(offered'), NEW q \in PacketsIn(offered'[j])
               PROVE  q <= Cur'
    BY <1>7 DEF OrderInv
  <2>1. q \in Nat
    <3>1. offered'[j] \in Word
      BY <1>7
    <3> QED BY <3>1 DEF PacketsIn, Word
  <2>2. q <= p
    BY <1>7
  <2>3. Cur' = p \/ Cur' = p + 1
    BY <1>11
  <2> QED BY <2>1, <2>2, <2>3
<1>13. Settled(Cur)'
  <2> SUFFICES ASSUME NEW q \in 1 .. Cur' - 1
               PROVE  q \in damaged' \/ (packets[q].closed /\ Gone(q)' = packets[q].bytes)
    BY <1>5 DEF Settled
  <2>1. CASE q = p
    <3>1. curr.last /\ ~(l + c > BUFFER)
      BY <2>1, <1>11
    <3>2. p \notin damaged' => g + l = k
      BY <1>5, <1>6
    <3>3. p \notin damaged' => Gone(p)' = g + n /\ n = l + c
      BY <3>1, <1>7
    <3>4. ASSUME p \notin damaged'
          PROVE  packets[p].closed /\ Gone(p)' = packets[p].bytes
      <4>1. packets[p].closed /\ k + c = packets[p].bytes
        BY <3>1, <1>5
      <4>2. Gone(p)' = g + (l + c)
        BY <3>3, <3>4
      <4>3. g + (l + c) = k + c
        BY <3>2, <3>4
      <4> QED BY <4>1, <4>2, <4>3
    <3> QED BY <2>1, <3>4
  <2>2. CASE q # p
    <3>1. q \in 1 .. p - 1
      BY <2>2, <1>11
    <3>2. q \in damaged \/ (packets[q].closed /\ Gone(q) = packets[q].bytes)
      BY <3>1, <1>5, InvFacts
    <3>3. Gone(q)' = Gone(q)
      BY <3>1, <2>2, <1>7
    <3> QED BY <3>2, <3>3, <1>6
  <2> QED BY <2>1, <2>2
<1>14. RestInv'
  <2> SUFFICES ASSUME al'.state = "IDLE"
               PROVE  RestInv'
    BY <1>11 DEF RestInv
  <2>1. AtPkt' = p + 1 /\ AtPos' = 0
    BY <1>5, <1>11
  <2>2. AtPkt' \notin damaged'
    BY <2>1, <1>9
  <2>3. Gone(p + 1)' = 0
    BY <1>7
  <2>4. Gone(AtPkt)' = 0
    BY <2>1, <2>3 DEF Gone
  <2> QED BY <2>1, <2>2, <2>4, WholeWords DEF RestInv
<1>15. PullInv'
  <2> SUFFICES ASSUME al'.state = "PULL_N"
               PROVE  PullInv'
    BY DEF PullInv
  <2>1. ~curr.last
    BY <1>11
  <2>2. AtPkt' = p /\ AtPos' = k + c /\ AtPos' > 0
    BY <2>1, <1>5
  <2>3. al'.prevLength < BUFFER /\ PacketsIn(al'.prevWord) \subseteq {AtPkt'}
    BY <2>2, <1>6
  <2>4. Gone(AtPkt)' = Gone(p)'
    BY <2>2 DEF Gone
  <2>5. ASSUME p \notin damaged'
        PROVE  /\ Gone(p)' + al'.prevLength = k + c /\ Gone(p)' % BUFFER = 0
               /\ Run(al'.prevWord, al'.prevLength, p, Gone(p)')
    <3>1. g + l = k /\ g % BUFFER = 0
      BY <2>5, <1>5, <1>6
    <3>2. CASE /\ ~curr.last /\ Gone(p)' = g /\ al'.prevLength = l + c
               /\ Run(al'.prevWord, l + c, p, g)
      <4>1. g + (l + c) = k + c
        BY <3>1
      <4> QED BY <3>1, <3>2, <4>1
    <3>3. CASE /\ curr.last \/ l + c >= BUFFER
               /\ Gone(p)' = g + n
               /\ l + c >= BUFFER =>
                    /\ al'.prevLength = l + c - BUFFER
                    /\ l + c > BUFFER => keepToLen(al'.prevWord.keep) = l + c - BUFFER
                    /\ Run(al'.prevWord, l + c - BUFFER, p, g + BUFFER)
      <4>1. l + c >= BUFFER /\ n = BUFFER
        BY <2>1, <3>3
      <4>2. (g + BUFFER) + (l + c - BUFFER) = k + c
        BY <3>1
      <4>3. (g + BUFFER) % BUFFER = 0
        BY <3>1, WholeWords
      <4> QED BY <3>3, <4>1, <4>2, <4>3
    <3> QED BY <2>5, <3>2, <3>3, <1>7
  <2> QED BY <2>2, <2>3, <2>4, <2>5 DEF PullInv
<1>16. ResidueInv'
  <2> SUFFICES ASSUME al'.state = "RESIDUE"
               PROVE  ResidueInv'
    BY DEF ResidueInv
  <2>1. curr.last /\ l + c > BUFFER /\ Cur' = p
    BY <1>11
  <2>2. AtPos' = 0 /\ Cur' \in 1 .. Len(packets') /\ PacketsIn(al'.prevWord) \subseteq {Cur'}
    BY <2>1, <1>5, <1>6
  <2>3. Gone(Cur)' = Gone(p)'
    BY <2>1 DEF Gone
  <2>4. ASSUME p \notin damaged'
        PROVE  /\ al'.prevLength \in 1 .. BUFFER
               /\ keepToLen(al'.prevWord.keep) = al'.prevLength
               /\ \A i \in 0 .. al'.prevLength - 1 : al'.prevWord.data[i] = [pkt |-> p, pos |-> Gone(p)' + i]
               /\ packets'[p].closed /\ Gone(p)' + al'.prevLength = packets'[p].bytes
    <3>1. g + l = k
      BY <2>4, <1>5, <1>6
    <3>2. /\ Gone(p)' = g + BUFFER
          /\ al'.prevLength = l + c - BUFFER
          /\ keepToLen(al'.prevWord.keep) = l + c - BUFFER
          /\ Run(al'.prevWord, l + c - BUFFER, p, g + BUFFER)
      BY <2>1, <2>4, <1>7
    <3>3. l + c - BUFFER \in 1 .. BUFFER /\ (g + BUFFER) + (l + c - BUFFER) = k + c
      BY <2>1, <3>1
    <3>4. packets'[p].closed /\ k + c = packets'[p].bytes
      BY <2>1, <1>5
    <3>5. \A i \in 0 .. al'.prevLength - 1 : al'.prevWord.data[i] = [pkt |-> p, pos |-> Gone(p)' + i]
      BY <3>2 DEF Run
    <3> QED BY <3>2, <3>3, <3>4, <3>5
  <2> QED BY <2>1, <2>2, <2>3, <2>4 DEF ResidueInv
<1> QED BY <1>5, <1>8, <1>10, <1>12, <1>13, <1>14, <1>15, <1>16 DEF IInv

-----------------------------------------------------------------------------
(***************************************************************************)
(* The theorems                                                            *)
(***************************************************************************)

\* Every step of the specification keeps the invariant.
LEMMA StepInv ==
  ASSUME IInv, [Next]_vars
  PROVE  IInv'
<1>1. CASE Aligner
  BY <1>1, IdleInv, PullFirstInv, PullNInv, ResidueStepInv DEF Aligner
<1>2. CASE Feed
  BY <1>2, FeedInv
<1>3. CASE TcpTake
  BY <1>3, TakeInv
<1>4. CASE Poll
  BY <1>4, StutterInv DEF Poll
<1>5. CASE UNCHANGED vars
  BY <1>5, StutterInv
<1> QED BY <1>1, <1>2, <1>3, <1>4, <1>5 DEF Next

\* The invariant holds in every state.
LEMMA Invariance == Spec => []IInv
<1>1. Init => IInv
  BY InitInv
<1>2. IInv /\ [Next]_vars => IInv'
  BY StepInv
<1> QED BY <1>1, <1>2, PTL DEF Spec

\* Every register and FIFO of response_aligner.cc holds a value of its type,
\* and neither FIFO more words than its depth.
THEOREM TypeCorrect == Spec => []TypeOK
<1>1. IInv => TypeOK
  BY DEF IInv
<1> QED BY <1>1, Invariance, PTL

\* No word that leaves response_aligner.cc mixes two packets, and the packets
\* leave in the order they came, damaged ones included.
THEOREM PacketsKeptApart == Spec => []PacketsSeparate
<1>1. IInv => PacketsSeparate
  BY DEF IInv, OrderInv
<1> QED BY <1>1, Invariance, PTL

\* The cardinalities that PacketStream and the invariant count with are one.
LEMMA CardinalityIs ==
  ASSUME NEW S
  PROVE  Stream!Cardinality(S) = Cardinality(S)
BY DEF Cardinality, Stream!Cardinality

\* So are the bytes of a packet that have gone out.
LEMMA DeliveredIs ==
  ASSUME NEW p
  PROVE  Stream!Delivered(p) = Gone(p)
<1> DEFINE str == [k \in DOMAIN offered |-> Seen(offered[k])]
<1>1. Stream!Delivered(p) = Stream!Cardinality(Places(str, p))
  BY DEF Places, Stream!Delivered
<1> QED BY <1>1, CardinalityIs DEF Count, Gone, StreamOf

\* The packet PULL_N reads is that of the byte expected next.
LEMMA ReadingIs ==
  ASSUME IInv, al.state = "PULL_N"
  PROVE  Reading = AtPkt
<1>1. AtPos > 0 /\ tx_aligner \in Seq(Word)
  BY InvFacts DEF PullInv, TypeOK
<1>2. CASE tx_aligner = <<>>
  <2>1. AtPkt = FeedPkt /\ AtPos = FeedPos
    BY <1>2 DEF AtPkt, AtPos, PktAt, PosAt
  <2>2. Open
    BY <1>1, <2>1 DEF FeedPos
  <2> QED BY <1>2, <2>1, <2>2 DEF Reading, FeedPkt
<1>3. CASE tx_aligner # <<>>
  <2>1. AtPkt = PacketOf(Head(tx_aligner))
    BY <1>1, <1>3, InvFacts, ChainHead DEF AtPkt, InputInv
  <2> QED BY <1>3, <2>1 DEF Reading
<1> QED BY <1>2, <1>3

\* In PULL_N the buffer prevWord is never full, so its length fits the six bits
\* of the parameter, and its first prevLength lanes are the bytes that follow
\* those its packet has already sent (response_aligner.cc:336-424).
THEOREM BufferFollows == Spec => []BufferFollowsStream
<1>1. ASSUME IInv
      PROVE  BufferFollowsStream
  <2> SUFFICES ASSUME al.state = "PULL_N"
               PROVE  /\ al.prevLength < BUFFER
                      /\ Reading \notin damaged =>
                           \A i \in 0 .. al.prevLength - 1 :
                             /\ al.prevWord.keep[i]
                             /\ al.prevWord.data[i] = [pkt |-> Reading, pos |-> Stream!Delivered(Reading) + i]
    BY DEF BufferFollowsStream
  <2>1. PICK p : p = AtPkt
    OBVIOUS
  <2>2. Reading = p /\ Stream!Delivered(p) = Gone(p)
    BY <1>1, <2>1, ReadingIs, DeliveredIs
  <2>3. al.prevLength < BUFFER /\ (p \notin damaged => Run(al.prevWord, al.prevLength, p, Gone(p)))
    BY <1>1, <2>1, InvFacts DEF PullInv
  <2> QED BY <2>2, <2>3 DEF Run
<1>2. IInv => BufferFollowsStream
  BY <1>1
<1> QED BY <1>2, Invariance, PTL

-----------------------------------------------------------------------------
(***************************************************************************)
(* The refinement of PacketStream                                          *)
(***************************************************************************)

\* The packet whose turn it is.
LEMMA CurrentIs ==
  ASSUME IInv, NEW p \in 1 .. Len(packets), p = Cur
  PROVE  Stream!Current(p)
<1>1. \A q \in 1 .. p - 1 : q \in damaged \/ (packets[q].closed /\ Gone(q) = packets[q].bytes)
  BY InvFacts
<1>2. \A q \in 1 .. p - 1 : q \in damaged \/ Stream!Complete(q)
  BY <1>1, DeliveredIs DEF Stream!Complete
<1> QED BY <1>2 DEF Stream!Current

\* The stream after a word has left.
LEMMA StreamGrows ==
  ASSUME TypeOK, NEW send \in Word, offered' = Append(offered, send)
  PROVE  /\ StreamOf(offered)' = Append(StreamOf(offered), Seen(send))
         /\ StreamOf(offered)' = Append(StreamOf(offered), StreamOf(offered)'[Len(StreamOf(offered)')])
<1>1. offered \in Seq(Word)
  BY OfferedType
<1>2. StreamOf(offered)' = StreamOf(Append(offered, send))
  BY DEF StreamOf
<1>3. StreamOf(offered)' = Append(StreamOf(offered), Seen(send))
  BY <1>1, <1>2, StreamAppend
<1>4. PICK more \in Seq(Word) : more = Append(offered, send) /\ Len(more) \in 1 .. Len(more) /\ more[Len(more)] = send
  BY <1>1
<1>5. StreamOf(more)[Len(StreamOf(more))] = Seen(send)
  <2>1. Len(StreamOf(more)) = Len(more) /\ \A k \in 1 .. Len(more) : StreamOf(more)[k] = Seen(more[k])
    BY <1>4, StreamAppend
  <2> QED BY <1>4, <2>1
<1>6. StreamOf(offered)' = StreamOf(more)
  BY <1>2, <1>4
<1> QED BY <1>3, <1>5, <1>6

\* A word with the next n bytes of the packet whose turn it is.
Sends(p, n, send) ==
  /\ keepToLen(send.keep) = n
  /\ \A i \in 0 .. n - 1 : send.data[i] = [pkt |-> p, pos |-> Gone(p) + i]
  /\ Gone(p) + n <= packets[p].bytes
  /\ n < BUFFER \/ send.last => packets[p].closed /\ Gone(p) + n = packets[p].bytes

\* Such a word is one that PacketStream sends.
LEMMA SendIs ==
  ASSUME IInv, NEW p \in 1 .. Len(packets), p = Cur, p \notin damaged,
         NEW n \in 1 .. BUFFER, NEW send \in Word, Sends(p, n, send),
         offered' = Append(offered, send), UNCHANGED <<packets, damaged>>
  PROVE  Stream!SendWord
<1>1. TypeOK /\ BUFFER \in Nat /\ send.last \in BOOLEAN
  BY InvFacts DEF Word
<1>2. PICK g \in Nat : g = Gone(p) /\ Stream!Delivered(p) = g
  BY <1>1, GoneIsNat, DeliveredIs
<1>3. Stream!Current(p)
  BY CurrentIs
<1>4. /\ keepToLen(send.keep) = n
      /\ \A i \in 0 .. n - 1 : send.data[i] = [pkt |-> p, pos |-> g + i]
      /\ g + n <= packets[p].bytes
      /\ n < BUFFER \/ send.last => packets[p].closed /\ g + n = packets[p].bytes
  BY <1>2 DEF Sends
<1>5. Seen(send) = [bytes |-> [i \in 1 .. n |-> [pkt |-> p, pos |-> (g + n) - n + i - 1]], last |-> send.last]
  <2>1. \A i \in 1 .. n : send.data[i - 1] = [pkt |-> p, pos |-> (g + n) - n + i - 1]
    <3> TAKE i \in 1 .. n
    <3>1. i - 1 \in 0 .. n - 1 /\ g + (i - 1) = (g + n) - n + i - 1
      BY <1>1
    <3> QED BY <3>1, <1>4
  <2>2. [i \in 1 .. n |-> send.data[i - 1]] = [i \in 1 .. n |-> [pkt |-> p, pos |-> (g + n) - n + i - 1]]
    BY <2>1
  <2>3. Seen(send) = [bytes |-> [i \in 1 .. n |-> send.data[i - 1]], last |-> send.last]
    BY <1>4 DEF Seen
  <2> QED BY <2>2, <2>3
<1>6. StreamOf(offered)' = Append(StreamOf(offered), Seen(send))
  BY <1>1, StreamGrows
<1>7. [k \in DOMAIN offered |-> Seen(offered[k])]'
        = Append([k \in DOMAIN offered |-> Seen(offered[k])],
                 [bytes |-> [i \in 1 .. n |-> [pkt |-> p, pos |-> (g + n) - n + i - 1]], last |-> send.last])
  BY <1>5, <1>6 DEF StreamOf
<1>8. PICK last \in BOOLEAN : last = send.last
  BY <1>1
<1>9. /\ g + n <= packets[p].bytes
      /\ n < BUFFER => packets[p].closed /\ g + n = packets[p].bytes
      /\ last => packets[p].closed /\ g + n = packets[p].bytes
  BY <1>4, <1>8
<1>10. [k \in DOMAIN offered |-> Seen(offered[k])]'
         = Append([k \in DOMAIN offered |-> Seen(offered[k])],
                  [bytes |-> [i \in 1 .. n |-> [pkt |-> p, pos |-> (Stream!Delivered(p) + n) - n + i - 1]],
                   last  |-> last])
  BY <1>2, <1>7, <1>8, Zenon
<1>11. /\ p \in (1 .. Len(packets)) \ damaged
       /\ Stream!Delivered(p) + n <= packets[p].bytes
       /\ n < BUFFER => packets[p].closed /\ Stream!Delivered(p) + n = packets[p].bytes
       /\ last => packets[p].closed /\ Stream!Delivered(p) + n = packets[p].bytes
  BY <1>2, <1>9
<1>12. LET upto == Stream!Delivered(p) + n
           final == packets[p].closed /\ upto = packets[p].bytes
       IN  /\ Stream!Current(p)
           /\ upto <= packets[p].bytes
           /\ n < BUFFER => final
           /\ last => final
           /\ [k \in DOMAIN offered |-> Seen(offered[k])]'
                = Append([k \in DOMAIN offered |-> Seen(offered[k])],
                         [bytes |-> [i \in 1 .. n |-> [pkt |-> p, pos |-> upto - n + i - 1]],
                          last  |-> last])
  BY <1>3, <1>10, <1>11, Zenon
<1>13. UNCHANGED <<packets, damaged>>
  OBVIOUS
<1> QED BY <1>11, <1>12, <1>13, Zenon DEF Stream!SendWord

\* The aligner's writes are those of a damaged packet's: a word, or none.
LEMMA AnyGoes ==
  ASSUME TypeOK, sent' = sent,
         \/ tcp_tx_data' = tcp_tx_data
         \/ \E send \in Word : tcp_tx_data' = Append(tcp_tx_data, send)
  PROVE  Stream!AnyWord
<1>1. CASE tcp_tx_data' = tcp_tx_data
  <2>1. offered' = offered
    BY <1>1 DEF offered
  <2> QED BY <2>1 DEF Stream!AnyWord
<1>2. ASSUME NEW send \in Word, tcp_tx_data' = Append(tcp_tx_data, send)
      PROVE  Stream!AnyWord
  <2>1. offered' = Append(offered, send)
    BY <1>2, OfferedGrows
  <2>2. StreamOf(offered)' = Append(StreamOf(offered), StreamOf(offered)'[Len(StreamOf(offered)')])
    BY <2>1, StreamGrows
  <2> QED BY <2>2 DEF Stream!AnyWord, StreamOf
<1> QED BY <1>1, <1>2

\* Feed starts a packet or adds to the open one.
LEMMA FeedRefines ==
  ASSUME IInv, Feed
  PROVE  Stream!StartPacket \/ Stream!GrowPacket
<1>1. packets \in Seq(Packet) /\ Len(packets) \in Nat
  BY InvFacts, PacketTypes
<1>2. /\ UNCHANGED <<damaged, [k \in DOMAIN offered |-> Seen(offered[k])]>>
  <2>1. UNCHANGED <<tcp_tx_data, sent, damaged>>
    BY DEF Feed
  <2>2. offered' = offered
    BY <2>1 DEF offered
  <2> QED BY <2>1, <2>2
<1>3. PICK n \in 1 .. BUFFER, last \in BOOLEAN :
        LET p == IF Open THEN Len(packets) ELSE Len(packets) + 1
            k == IF Open THEN packets[p].bytes ELSE 0
            packet == [bytes |-> k + n, closed |-> last]
        IN  packets' = IF Open THEN [packets EXCEPT ![p] = packet] ELSE Append(packets, packet)
  BY DEF Feed
<1>4. CASE Open
  <2>1. packets # <<>> /\ ~packets[Len(packets)].closed
    BY <1>4 DEF Open
  <2>2. PICK p \in 1 .. Len(packets) : p = Len(packets)
    BY <2>1, <1>1
  <2>3. packets' = [packets EXCEPT ![p] = [bytes |-> packets[p].bytes + n, closed |-> last]]
    BY <1>3, <1>4, <2>2
  <2>4. packets[p] = [bytes |-> packets[p].bytes, closed |-> packets[p].closed]
    BY <2>2, InvFacts, PacketTypes
  <2>5. packets' = [packets EXCEPT ![p].bytes = @ + n, ![p].closed = last]
    <3>1. [packets EXCEPT ![p].bytes = @ + n, ![p].closed = last]
            = [packets EXCEPT ![p] = [bytes |-> packets[p].bytes + n, closed |-> last]]
      <4> DEFINE new == [bytes |-> packets[p].bytes + n, closed |-> last]
                 one == [packets EXCEPT ![p].bytes = packets[p].bytes + n]
      <4>1. one[p] = [bytes |-> packets[p].bytes + n, closed |-> packets[p].closed]
            /\ DOMAIN one = DOMAIN packets /\ p \in DOMAIN packets
        BY <1>1, <2>4
      <4>2. \A q \in DOMAIN packets : q # p => one[q] = packets[q]
        BY <1>1
      <4> HIDE DEF one
      <4>3. [one[p] EXCEPT !.closed = last] = new
        BY <4>1
      <4>4. [one EXCEPT ![p] = [one[p] EXCEPT !.closed = last]] = [q \in DOMAIN one |-> IF q = p THEN new ELSE one[q]]
        BY <4>1, <4>3
      <4>5. [one EXCEPT ![p].closed = last] = [one EXCEPT ![p] = [one[p] EXCEPT !.closed = last]]
        OBVIOUS
      <4>6. [q \in DOMAIN one |-> IF q = p THEN new ELSE one[q]] = [q \in DOMAIN packets |-> IF q = p THEN new ELSE packets[q]]
        BY <4>1, <4>2
      <4>7. [packets EXCEPT ![p] = new] = [q \in DOMAIN packets |-> IF q = p THEN new ELSE packets[q]]
        OBVIOUS
      <4>8. [one EXCEPT ![p].closed = last] = [packets EXCEPT ![p] = new]
        BY <4>4, <4>5, <4>6, <4>7, Zenon
      <4> QED BY <4>8 DEF one
    <3> QED BY <2>3, <3>1
  <2> QED BY <1>2, <2>1, <2>2, <2>5 DEF Stream!GrowPacket
<1>5. CASE ~Open
  <2>1. packets # <<>> => packets[Len(packets)].closed
    BY <1>5, <1>1 DEF Open
  <2>2. packets' = Append(packets, [bytes |-> 0 + n, closed |-> last])
    BY <1>3, <1>5
  <2>3. 0 + n = n
    BY InvFacts
  <2> QED BY <1>2, <2>1, <2>2, <2>3 DEF Stream!StartPacket
<1> QED BY <1>4, <1>5

\* AlResidue sends a word of the packet whose turn it is.
LEMMA ResidueRefines ==
  ASSUME IInv, AlResidue
  PROVE  Stream!SendWord \/ Stream!SendDamaged
<1>1. PICK p \in Nat \ {0} : p = Cur
  BY InvFacts
<1>2. /\ al.state = "RESIDUE" /\ tcp_tx_data' = Append(tcp_tx_data, al.prevWord)
      /\ offered' = Append(offered, al.prevWord) /\ al.prevWord \in Word
      /\ UNCHANGED <<packets, sent, damaged>> /\ p \in 1 .. Len(packets)
      /\ p \notin damaged =>
           /\ al.prevLength \in 1 .. BUFFER /\ keepToLen(al.prevWord.keep) = al.prevLength
           /\ \A i \in 0 .. al.prevLength - 1 : al.prevWord.data[i] = [pkt |-> p, pos |-> Gone(p) + i]
  BY <1>1, ResidueWord
<1>3. CASE p \in damaged
  <2>1. Stream!Current(p)
    BY <1>1, <1>2, CurrentIs
  <2>2. Stream!AnyWord
    BY <1>2, InvFacts, AnyGoes
  <2> QED BY <1>2, <1>3, <2>1, <2>2 DEF Stream!SendDamaged
<1>4. CASE p \notin damaged
  <2>1. PICK n \in 1 .. BUFFER : n = al.prevLength
    BY <1>2, <1>4
  <2>2. CASE AtPos = 0
    <3>1. packets[p].closed /\ Gone(p) + n = packets[p].bytes
      BY <1>1, <1>2, <1>4, <2>1, <2>2, InvFacts DEF ResidueInv
    <3>2. Sends(p, n, al.prevWord)
      <4>1. packets[p].bytes \in Nat
        BY <1>2, InvFacts, PacketTypes
      <4>2. Gone(p) + n <= packets[p].bytes
        BY <3>1, <4>1
      <4> QED BY <1>2, <1>4, <2>1, <3>1, <4>2 DEF Sends
    <3> QED BY <1>1, <1>2, <1>4, <3>2, SendIs
  <2>3. CASE AtPos > 0
    <3>1. p = AtPkt /\ Gone(p) + BUFFER = AtPos /\ n = BUFFER /\ ~al.prevWord.last
      BY <1>1, <1>2, <2>1, <2>3, InvFacts DEF ResidueInv, Cur
    <3>2. AtPos <= packets[p].bytes
      BY <2>3, <3>1, InvFacts
    <3>3. Sends(p, n, al.prevWord)
      <4>1. ~(n < BUFFER)
        BY <3>1, InvFacts
      <4> QED BY <1>2, <1>4, <2>1, <3>1, <3>2, <4>1 DEF Sends
    <3> QED BY <1>1, <1>2, <1>4, <3>3, SendIs
  <2> QED BY <2>2, <2>3, InvFacts
<1> QED BY <1>3, <1>4

\* AlPullN sends a word of the packet it reads, damages that packet, or goes on
\* with a damaged one.
LEMMA PullNRefines ==
  ASSUME IInv, AlPullN
  PROVE  \/ Stream!SendWord \/ Stream!Damage \/ Stream!SendDamaged
         \/ UNCHANGED <<packets, damaged, offered>>
<1>1. PICK p, k, l, c, g, n, curr : Reads(p, k, l, c, g, n, curr)
  BY PullNBefore
<1>2. /\ p \in Nat \ {0} /\ k \in Nat /\ l \in 0 .. BUFFER - 1 /\ c \in 1 .. BUFFER /\ g \in Nat
      /\ n \in 1 .. BUFFER /\ n = IF l + c < BUFFER THEN l + c ELSE BUFFER
      /\ curr = Head(tx_aligner)
      /\ p = AtPkt /\ k = AtPos /\ l = al.prevLength /\ c = Size(curr) /\ g = Gone(p)
  BY <1>1 DEF Reads
<1>3. BUFFER \in Nat /\ BUFFER >= 2
  BY AlignerAssumption
<1> USE <1>2, <1>3
<1>4. /\ Cur = p
      /\ p \notin damaged => g + l = k /\ g % BUFFER = 0
      /\ packets' = packets /\ sent' = sent
      /\ p \in 1 .. Len(packets) /\ packets[p].bytes \in Nat /\ k + c <= packets[p].bytes
      /\ curr.last => packets[p].closed /\ k + c = packets[p].bytes
  BY PullNReads
<1>5. /\ damaged' = damaged \/ damaged' = damaged \cup {p}
      /\ p \in damaged' /\ p \notin damaged => packets[p].bytes > BUFFER
      /\ \/ tcp_tx_data' = tcp_tx_data
         \/ \E send \in Word :
              /\ tcp_tx_data' = Append(tcp_tx_data, send)
              /\ p \notin damaged' =>
                   /\ curr.last \/ l + c >= BUFFER
                   /\ keepToLen(send.keep) = n /\ send.last = (curr.last /\ l + c <= BUFFER)
                   /\ Run(send, n, p, g)
  <2>1. Does(p, l, c, g, n, curr)
    BY <1>1, PullNDoes
  <2> QED BY <2>1 DEF Does
<1>6. Stream!Current(p)
  BY <1>4, CurrentIs
<1>7. Stream!AnyWord
  BY <1>4, <1>5, InvFacts, AnyGoes
<1>8. CASE p \in damaged
  <2>1. damaged' = damaged
    BY <1>5, <1>8
  <2> QED BY <1>4, <1>6, <1>7, <1>8, <2>1 DEF Stream!SendDamaged
<1>9. CASE p \notin damaged /\ p \in damaged'
  <2>1. damaged' = damaged \cup {p} /\ packets[p].bytes > BUFFER
    BY <1>5, <1>9
  <2>2. Stream!Delivered(p) % BUFFER = 0
    BY <1>4, <1>9, DeliveredIs
  <2> QED BY <1>4, <1>6, <1>7, <1>9, <2>1, <2>2 DEF Stream!Damage
<1>10. CASE p \notin damaged'
  <2>1. p \notin damaged /\ damaged' = damaged /\ g + l = k
    BY <1>4, <1>5, <1>10
  <2>2. CASE tcp_tx_data' = tcp_tx_data
    BY <1>4, <2>1, <2>2 DEF offered
  <2>3. ASSUME NEW send \in Word, tcp_tx_data' = Append(tcp_tx_data, send),
               curr.last \/ l + c >= BUFFER,
               keepToLen(send.keep) = n, send.last = (curr.last /\ l + c <= BUFFER),
               Run(send, n, p, g)
        PROVE  Stream!SendWord
    <3>1. offered' = Append(offered, send)
      BY <1>4, <2>3, InvFacts, OfferedGrows
    <3>2. g + (l + c) = k + c /\ n <= l + c
      BY <2>1
    <3>3. g + n <= packets[p].bytes
      BY SMTT(30), <3>2, <1>4
    <3>4. ASSUME n < BUFFER \/ send.last
          PROVE  packets[p].closed /\ g + n = packets[p].bytes
      <4>1. send.last => curr.last /\ l + c <= BUFFER
        BY <2>3
      <4>2. n < BUFFER => l + c < BUFFER
        OBVIOUS
      <4>3. curr.last /\ l + c <= BUFFER
        BY <3>4, <4>1, <4>2, <2>3
      <4>4. n = l + c
        BY <4>3
      <4> QED BY <4>3, <4>4, <3>2, <1>4
    <3>5. \A i \in 0 .. n - 1 : send.data[i] = [pkt |-> p, pos |-> g + i]
      BY <2>3 DEF Run
    <3>6. Sends(p, n, send)
      BY <2>3, <3>3, <3>4, <3>5 DEF Sends
    <3> QED BY <1>4, <2>1, <2>3, <3>1, <3>6, SendIs
  <2> QED BY <1>5, <1>10, <2>2, <2>3
<1> QED BY <1>8, <1>9, <1>10

\* The initial states are those of PacketStream.
LEMMA InitRefines == Init => Stream!PInit
<1> SUFFICES ASSUME Init
             PROVE  Stream!PInit
  OBVIOUS
<1>1. offered = <<>>
  BY DEF Init, offered
<1>2. [k \in DOMAIN offered |-> Seen(offered[k])] = <<>>
  BY <1>1
<1> QED BY <1>2 DEF Init, Stream!PInit

\* Every step is one of PacketStream's, or changes nothing it sees.
LEMMA StepRefines ==
  ASSUME IInv, [Next]_vars
  PROVE  [Stream!PNext]_(Stream!avars)
<1>1. ASSUME UNCHANGED <<packets, damaged, offered>>
      PROVE  UNCHANGED Stream!avars
  BY <1>1 DEF Stream!avars
<1>2. CASE AlIdle
  <2>1. UNCHANGED <<packets, damaged, offered>>
    BY <1>2 DEF AlIdle, offered
  <2> QED BY <1>1, <2>1
<1>3. CASE AlPullFirst
  <2>1. UNCHANGED <<packets, damaged, offered>>
    BY <1>3 DEF AlPullFirst, offered
  <2> QED BY <1>1, <2>1
<1>4. CASE AlPullN
  BY <1>1, <1>4, PullNRefines DEF Stream!PNext
<1>5. CASE AlResidue
  BY <1>5, ResidueRefines DEF Stream!PNext
<1>6. CASE Feed
  BY <1>6, FeedRefines DEF Stream!PNext
<1>7. CASE TcpTake
  <2>1. UNCHANGED <<packets, damaged, offered>>
    BY <1>7, InvFacts, OfferedKept DEF TcpTake
  <2> QED BY <1>1, <2>1
<1>8. CASE UNCHANGED vars
  <2>1. UNCHANGED <<packets, damaged, offered>>
    BY <1>8 DEF vars, offered
  <2> QED BY <1>1, <2>1
<1> QED BY <1>2, <1>3, <1>4, <1>5, <1>6, <1>7, <1>8 DEF Next, Aligner, Poll

\* response_aligner.cc implements PacketStream: it forwards the bytes of every
\* packet in order, once and packed into full words, and sets last on no word
\* but the final one of a packet; a packet is given up only if it is longer than
\* a word and while whole words of it have gone out, and then only that one.
THEOREM ImplementsPacketStream == Spec => RefinesPacketStream
<1>1. Init => Stream!PInit
  BY InitRefines
<1>2. IInv /\ [Next]_vars => [Stream!PNext]_(Stream!avars)
  BY StepRefines
<1> QED BY <1>1, <1>2, Invariance, PTL DEF Spec, RefinesPacketStream, Stream!PSpec
=============================================================================
