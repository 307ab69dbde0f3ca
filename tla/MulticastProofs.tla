-------------------------- MODULE MulticastProofs --------------------------
(***************************************************************************)
(* Safety of the multicast for every set of workers, every message size and *)
(* every behaviour of the networks.                                         *)
(***************************************************************************)
EXTENDS Multicast, FiniteSetTheorems, SequenceTheorems, TLAPS

-----------------------------------------------------------------------------
\* Euclid's division, for the layout of a message in packets.
LEMMA Division ==
    ASSUME NEW n \in Nat, NEW d \in Nat \ {0}
    PROVE  /\ n \div d \in Nat
           /\ n % d \in 0 .. d - 1
           /\ n = d * (n \div d) + (n % d)
  OBVIOUS

\* A factor that is not larger gives a product that is not larger.
LEMMA ProductMonotone ==
    ASSUME NEW d \in Nat, NEW a \in Nat, NEW b \in Nat, a <= b
    PROVE  d * a <= d * b
  OBVIOUS

LEMMA PacketsNeededType ==
    ASSUME NEW n \in Nat \ {0}, NEW d \in Nat \ {0}
    PROVE  PacketsNeeded(n, d) \in Nat \ {0}
  BY Division DEF PacketsNeeded

LEMMA SeqLenType ==
    ASSUME NEW m \in Message
    PROVE  SeqLen(m) \in Nat \ {0}
  BY PacketsNeededType, SizesAreValid DEF SeqLen

\* The data packets that set_data() plans start inside the message.
LEMMA OffsetInside ==
    ASSUME NEW n \in Nat \ {0}, NEW d \in Nat \ {0},
           NEW s \in Nat, s < PacketsNeeded(n, d)
    PROVE  d * s < n
  <1> DEFINE q == n \div d
             r == n % d
  <1>1. q \in Nat /\ r \in 0 .. d - 1 /\ n = d * q + r
    BY Division
  <1>2. CASE r = 0
    <2>1. s <= q - 1 /\ q - 1 \in Nat
      BY <1>1, <1>2 DEF PacketsNeeded
    <2>2. d * s <= d * (q - 1)
      BY <2>1, ProductMonotone
    <2>3. d * (q - 1) = d * q - d
      BY <1>1
    <2> QED
      BY <1>1, <1>2, <2>2, <2>3
  <1>3. CASE r # 0
    <2>1. s <= q
      BY <1>1, <1>3 DEF PacketsNeeded
    <2>2. d * s <= d * q
      BY <1>1, <2>1, ProductMonotone
    <2> QED
      BY <1>1, <1>3, <2>2
  <1> QED
    BY <1>2, <1>3

\* No packet of a message is empty.
LEMMA DataSizeType ==
    ASSUME NEW m \in Message, NEW s \in PacketNumbers(SeqLen(m))
    PROVE  DataSize(m, s) \in Nat \ {0}
  <1>1. s \in Nat /\ s <= SeqLen(m)
    BY SeqLenType DEF PacketNumbers
  <1>2. CASE IsChecksum(m, s)
    BY <1>2, SizesAreValid DEF DataSize
  <1>3. CASE ~ IsChecksum(m, s)
    <2>1. s < SeqLen(m)
      BY <1>1, <1>3, SeqLenType DEF IsChecksum
    <2>2. PacketSize * s < SizeOf[m]
      <3>1. CASE m \in Command
        BY <2>1, <1>1, <3>1, SizesAreValid DEF SeqLen
      <3>2. CASE m \notin Command
        BY <2>1, <1>1, <3>2, SizesAreValid, OffsetInside DEF SeqLen
      <3> QED
        BY <3>1, <3>2
    <2>3. PacketSize * s \in Nat
      BY <1>1, SizesAreValid
    <2> QED
      BY <1>3, <2>2, <2>3, SizesAreValid DEF DataSize, Least
  <1> QED
    BY <1>2, <1>3

-----------------------------------------------------------------------------
\* A partial message keeps its shape whatever packet is added to it.
LEMMA NewPartialType ==
    ASSUME NEW m \in Message, NEW s \in PacketNumbers(SeqLen(m))
    PROVE  NewPartial(m, s) \in PartialMessage
  <1>1. DataSize(m, s) \in Nat \ {0}
    BY DataSizeType
  <1>2. SizeOf[m] \in Nat \ {0}
    BY SizesAreValid
  <1>3. PacketsNeeded(SizeOf[m], DataSize(m, s)) \in Nat
    BY <1>1, <1>2, PacketsNeededType
  <1> QED
    BY <1>1, <1>2, <1>3 DEF NewPartial, PartialMessage, IsChecksum

LEMMA AddPieceType ==
    ASSUME NEW r \in PartialMessage, NEW m \in Message, NEW s \in Nat
    PROVE  AddPiece(r, m, s) \in PartialMessage
  <1>1. s * r.packetSize \in Nat
    BY DEF PartialMessage
  <1> QED
    BY <1>1 DEF AddPiece, PartialMessage

LEMMA SetChecksumType ==
    ASSUME NEW r \in PartialMessage, NEW m \in Message
    PROVE  SetChecksum(r, m) \in PartialMessage
  BY DEF SetChecksum, PartialMessage

-----------------------------------------------------------------------------
LEMMA PacketNumbersFinite ==
    ASSUME NEW n \in Nat
    PROVE  /\ IsFiniteSet(PacketNumbers(n))
           /\ Cardinality(PacketNumbers(n)) = n + 1
  BY FS_Interval DEF PacketNumbers

\* The sets the counters count are finite.
LEMMA BitsFinite ==
    ASSUME NEW ids, NEW W, IsFiniteSet(W), NEW a, IsAccounting(a, ids, W)
    PROVE  /\ IsFiniteSet(a.acks) /\ Cardinality(a.acks) \in Nat
           /\ \A s : /\ IsFiniteSet(AckedBy(a, s))
                    /\ Cardinality(AckedBy(a, s)) \in Nat
                    /\ AckedBy(a, s) \subseteq W
           /\ \A w : /\ IsFiniteSet(Missing(a, w))
                    /\ Cardinality(Missing(a, w)) \in Nat
  <1>1. IsFiniteSet(PacketNumbers(a.seqLen))
    BY PacketNumbersFinite DEF IsAccounting
  <1>2. IsFiniteSet(W \X PacketNumbers(a.seqLen))
    BY <1>1, FS_Product
  <1>3. a.acks \in SUBSET (W \X PacketNumbers(a.seqLen)) /\ a.living = W
    BY DEF IsAccounting
  <1>4. IsFiniteSet(a.acks) /\ Cardinality(a.acks) \in Nat
    BY <1>2, <1>3, FS_Subset, FS_CardinalityType
  <1>5. ASSUME NEW s
        PROVE  /\ IsFiniteSet(AckedBy(a, s))
               /\ Cardinality(AckedBy(a, s)) \in Nat
               /\ AckedBy(a, s) \subseteq W
    <2>1. AckedBy(a, s) \in SUBSET W
      BY <1>3 DEF AckedBy
    <2> QED
      BY <2>1, FS_Subset, FS_CardinalityType
  <1>6. ASSUME NEW w
        PROVE  /\ IsFiniteSet(Missing(a, w))
               /\ Cardinality(Missing(a, w)) \in Nat
    <2>1. Missing(a, w) \in SUBSET PacketNumbers(a.seqLen)
      BY DEF Missing
    <2> QED
      BY <1>1, <2>1, FS_Subset, FS_CardinalityType
  <1> QED
    BY <1>4, <1>5, <1>6

-----------------------------------------------------------------------------
\* Registering a message and both kinds of acknowledgement keep the shape of
\* the accounting, its message and its packets.
LEMMA NewAcksType ==
    ASSUME NEW ids, NEW i \in ids, NEW W, NEW n \in Nat
    PROVE  IsAccounting(NewAcks(i, W, n), ids, W)
  BY DEF IsAccounting, NewAcks

LEMMA AcknowledgeType ==
    ASSUME NEW ids, NEW W, NEW a, IsAccounting(a, ids, W),
           NEW w, NEW s, CanAcknowledge(a, w, s)
    PROVE  /\ IsAccounting(Acknowledge(a, w, s), ids, W)
           /\ Acknowledge(a, w, s).id = a.id
           /\ Acknowledge(a, w, s).living = a.living
           /\ Acknowledge(a, w, s).seqLen = a.seqLen
           /\ Acknowledge(a, w, s).acks = a.acks \cup {<<w, s>>}
  <1> DEFINE counters == [a.packetCounters EXCEPT ![s] = @ + 1]
             b == [ id             |-> a.id,
                    living         |-> a.living,
                    seqLen         |-> a.seqLen,
                    acks           |-> a.acks \cup {<<w, s>>},
                    ackCounter     |-> a.ackCounter + 1,
                    packetCounters |-> counters ]
  <1>1. CASE <<w, s>> \in a.acks
    BY <1>1 DEF Acknowledge
  <1>2. CASE <<w, s>> \notin a.acks
    <2>1. Acknowledge(a, w, s) = b
      BY <1>2 DEF IsAccounting, Acknowledge
    <2>2. /\ a.packetCounters \in [PacketNumbers(a.seqLen) -> Nat]
          /\ a.ackCounter \in Nat /\ a.living = W /\ a.id \in ids
          /\ a.acks \subseteq W \X PacketNumbers(a.seqLen) /\ a.seqLen \in Nat
      BY DEF IsAccounting
    <2>3. s \in PacketNumbers(a.seqLen) /\ w \in W
      BY <2>2 DEF CanAcknowledge
    <2>4. counters \in [PacketNumbers(a.seqLen) -> Nat]
      BY <2>2, <2>3
    <2>5. IsAccounting(b, ids, W)
      BY <2>2, <2>3, <2>4 DEF IsAccounting
    <2> QED
      BY <2>1, <2>5
  <1> QED
    BY <1>1, <1>2

LEMMA AcknowledgeWholeType ==
    ASSUME NEW ids, NEW W, IsFiniteSet(W), NEW a, IsAccounting(a, ids, W),
           NEW w \in W
    PROVE  /\ IsAccounting(AcknowledgeWhole(a, w), ids, W)
           /\ AcknowledgeWhole(a, w).id = a.id
           /\ AcknowledgeWhole(a, w).living = a.living
           /\ AcknowledgeWhole(a, w).seqLen = a.seqLen
           /\ AcknowledgeWhole(a, w).acks = a.acks \cup ({w} \X Missing(a, w))
  <1>1. Cardinality(Missing(a, w)) \in Nat
    BY BitsFinite
  <1>2. {w} \X Missing(a, w) \subseteq W \X PacketNumbers(a.seqLen)
    BY DEF Missing
  <1> DEFINE counters == [s \in PacketNumbers(a.seqLen) |->
                             IF s \in Missing(a, w) THEN a.packetCounters[s] + 1
                                                    ELSE a.packetCounters[s]]
             b == [ id             |-> a.id,
                    living         |-> a.living,
                    seqLen         |-> a.seqLen,
                    acks           |-> a.acks \cup ({w} \X Missing(a, w)),
                    ackCounter     |-> a.ackCounter + Cardinality(Missing(a, w)),
                    packetCounters |-> counters ]
  <1>3. AcknowledgeWhole(a, w) = b
    <2> DEFINE a1 == [a EXCEPT !.acks = @ \cup ({w} \X Missing(a, w))]
               a2 == [a1 EXCEPT !.ackCounter = @ + Cardinality(Missing(a, w))]
               a3 == [a2 EXCEPT !.packetCounters = counters]
    <2>1. AcknowledgeWhole(a, w) = a3
      BY DEF AcknowledgeWhole
    <2> QED
      BY <2>1 DEF IsAccounting
  <1>4. /\ a.packetCounters \in [PacketNumbers(a.seqLen) -> Nat]
        /\ a.ackCounter \in Nat /\ a.living = W /\ a.id \in ids
        /\ a.acks \subseteq W \X PacketNumbers(a.seqLen) /\ a.seqLen \in Nat
    BY DEF IsAccounting
  <1>5. counters \in [PacketNumbers(a.seqLen) -> Nat]
    BY <1>4
  <1>6. IsAccounting(b, ids, W)
    BY <1>1, <1>2, <1>4, <1>5 DEF IsAccounting
  <1> QED
    BY <1>3, <1>6

-----------------------------------------------------------------------------
\* The counters keep counting the bits.
LEMMA NewAcksCounters ==
    ASSUME NEW i, NEW W, NEW n \in Nat
    PROVE  CountersMatchBits(NewAcks(i, W, n))
  <1> DEFINE a == NewAcks(i, W, n)
  <1>1. a.acks = {} /\ \A s : AckedBy(a, s) = {}
    BY DEF NewAcks, AckedBy
  <1>2. a.ackCounter = 0 /\ \A s \in PacketNumbers(a.seqLen) : a.packetCounters[s] = 0
    BY DEF NewAcks
  <1> QED
    BY <1>1, <1>2, FS_EmptySet DEF CountersMatchBits

LEMMA AcknowledgeCounters ==
    ASSUME NEW ids, NEW W, IsFiniteSet(W), NEW a, IsAccounting(a, ids, W),
           CountersMatchBits(a), NEW w, NEW s, CanAcknowledge(a, w, s)
    PROVE  CountersMatchBits(Acknowledge(a, w, s))
  <1> DEFINE b == Acknowledge(a, w, s)
  <1>1. CASE <<w, s>> \in a.acks
    BY <1>1 DEF Acknowledge
  <1>2. CASE <<w, s>> \notin a.acks
    <2>1. /\ b.acks = a.acks \cup {<<w, s>>}
          /\ b.living = a.living /\ b.seqLen = a.seqLen
          /\ b.ackCounter = a.ackCounter + 1
          /\ \A t \in PacketNumbers(a.seqLen) :
                b.packetCounters[t] = IF t = s THEN a.packetCounters[t] + 1
                                               ELSE a.packetCounters[t]
      BY <1>2 DEF Acknowledge, IsAccounting, CanAcknowledge
    <2>2. b.ackCounter = Cardinality(b.acks)
      <3>1. IsFiniteSet(a.acks)
        BY BitsFinite
      <3>2. Cardinality(b.acks) = Cardinality(a.acks) + 1
        BY <1>2, <2>1, <3>1, FS_AddElement
      <3> QED
        BY <2>1, <3>2 DEF CountersMatchBits
    <2>3. ASSUME NEW t \in PacketNumbers(a.seqLen), t # s
          PROVE  b.packetCounters[t] = Cardinality(AckedBy(b, t))
      <3>1. AckedBy(b, t) = AckedBy(a, t)
        BY <2>1, <2>3 DEF AckedBy
      <3> QED
        BY <2>1, <2>3, <3>1 DEF CountersMatchBits
    <2>4. b.packetCounters[s] = Cardinality(AckedBy(b, s))
      <3>1. AckedBy(b, s) = AckedBy(a, s) \cup {w}
        BY <2>1 DEF AckedBy, CanAcknowledge
      <3>2. w \notin AckedBy(a, s)
        BY <1>2 DEF AckedBy
      <3>3. IsFiniteSet(AckedBy(a, s))
        BY BitsFinite
      <3> QED
        BY ZenonT(40), <2>1, <3>1, <3>2, <3>3, FS_AddElement
           DEF CountersMatchBits, CanAcknowledge
    <2> QED
      BY <2>1, <2>2, <2>3, <2>4 DEF CountersMatchBits
  <1> QED
    BY <1>1, <1>2

LEMMA AcknowledgeWholeCounters ==
    ASSUME NEW ids, NEW W, IsFiniteSet(W), NEW a, IsAccounting(a, ids, W),
           CountersMatchBits(a), NEW w \in W
    PROVE  CountersMatchBits(AcknowledgeWhole(a, w))
  <1> DEFINE b == AcknowledgeWhole(a, w)
             M == Missing(a, w)
  <1>1. IsFiniteSet(M) /\ Cardinality(M) \in Nat
    BY BitsFinite
  <1>2. /\ b.acks = a.acks \cup ({w} \X M)
        /\ b.living = a.living /\ b.seqLen = a.seqLen
        /\ b.ackCounter = a.ackCounter + Cardinality(M)
        /\ \A t \in PacketNumbers(a.seqLen) :
              b.packetCounters[t] = IF t \in M THEN a.packetCounters[t] + 1
                                              ELSE a.packetCounters[t]
    BY DEF AcknowledgeWhole, IsAccounting
  <1>3. b.ackCounter = Cardinality(b.acks)
    <2>1. /\ IsFiniteSet({w} \X M)
          /\ Cardinality({w} \X M) = Cardinality(M)
      <3>1. IsFiniteSet({w}) /\ Cardinality({w}) = 1
        BY FS_Singleton
      <3>2. 1 * Cardinality(M) = Cardinality(M)
        BY <1>1
      <3> QED
        BY <1>1, <3>1, <3>2, FS_Product
    <2>2. a.acks \cap ({w} \X M) = {}
      BY DEF Missing
    <2>3. Cardinality(a.acks \cap ({w} \X M)) = 0
      BY <2>2, FS_EmptySet
    <2>4. IsFiniteSet(a.acks) /\ Cardinality(a.acks) \in Nat
      BY BitsFinite
    <2>5. Cardinality(a.acks \cup ({w} \X M)) = Cardinality(a.acks) + Cardinality(M)
      <3> DEFINE T == {w} \X M
      <3>1. Cardinality(a.acks \cup T) =
               Cardinality(a.acks) + Cardinality(T) - Cardinality(a.acks \cap T)
        BY <2>1, <2>4, FS_Union
      <3> QED
        BY <1>1, <2>1, <2>3, <2>4, <3>1
    <2> QED
      BY <1>2, <2>5 DEF CountersMatchBits
  <1>4. ASSUME NEW t \in PacketNumbers(a.seqLen)
        PROVE  b.packetCounters[t] = Cardinality(AckedBy(b, t))
    <2>1. CASE t \in M
      <3>1. AckedBy(b, t) = AckedBy(a, t) \cup {w}
        BY <1>2, <2>1 DEF AckedBy, IsAccounting
      <3>2. w \notin AckedBy(a, t)
        BY <2>1 DEF AckedBy, Missing
      <3>3. IsFiniteSet(AckedBy(a, t))
        BY BitsFinite
      <3> QED
        BY ZenonT(60), <1>2, <2>1, <3>1, <3>2, <3>3, FS_AddElement
           DEF CountersMatchBits
    <2>2. CASE t \notin M
      <3>1. AckedBy(b, t) = AckedBy(a, t)
        BY <1>2, <2>2 DEF AckedBy
      <3> QED
        BY <1>2, <2>2, <3>1 DEF CountersMatchBits
    <2> QED
      BY <2>1, <2>2
  <1> QED
    BY <1>2, <1>3, <1>4 DEF CountersMatchBits

-----------------------------------------------------------------------------
\* What the answers computed from the counters say about the bits.
LEMMA PacketAcknowledgedByAll ==
    ASSUME NEW ids, NEW W, IsFiniteSet(W), NEW a, IsAccounting(a, ids, W),
           CountersMatchBits(a), NEW s \in PacketNumbers(a.seqLen),
           PacketAcknowledged(a, s)
    PROVE  W \X {s} \subseteq a.acks
  <1>1. a.living = W
    BY DEF IsAccounting
  <1>2. AckedBy(a, s) \in SUBSET W
    BY BitsFinite
  <1>3. Cardinality(W) = Cardinality(AckedBy(a, s))
    BY <1>1 DEF CountersMatchBits, PacketAcknowledged
  <1>4. AckedBy(a, s) = W
    BY <1>2, <1>3, FS_Subset
  <1> QED
    BY <1>4 DEF AckedBy

\* all_has_been_acknowledged() is true exactly when every bit is set.
LEMMA AllAcknowledgedIffAllBits ==
    ASSUME NEW ids, NEW W, IsFiniteSet(W), NEW a, IsAccounting(a, ids, W),
           CountersMatchBits(a)
    PROVE  AllAcknowledged(a) <=> a.acks = W \X PacketNumbers(a.seqLen)
  <1> DEFINE all == W \X PacketNumbers(a.seqLen)
  <1>1. a.living = W /\ a.acks \in SUBSET all /\ a.seqLen \in Nat
    BY DEF IsAccounting
  <1>2. IsFiniteSet(all)
        /\ Cardinality(all) = Cardinality(W) * (a.seqLen + 1)
    BY <1>1, PacketNumbersFinite, FS_Product
  <1>3. Cardinality(all) = (a.seqLen + 1) * Cardinality(a.living)
    BY <1>1, <1>2, FS_CardinalityType
  <1>4. AllAcknowledged(a) <=> Cardinality(all) = Cardinality(a.acks)
    BY <1>3 DEF AllAcknowledged, CountersMatchBits
  <1> QED
    BY <1>1, <1>2, <1>4, FS_Subset

-----------------------------------------------------------------------------
\* The sender's queue of packet numbers.
LEMMA QueueTail ==
    ASSUME NEW S, NEW q \in Seq(S), q # <<>>
    PROVE  /\ Head(q) \in S /\ Head(q) \in Range(q)
           /\ Tail(q) \in Seq(S)
           /\ Len(Tail(q)) = Len(q) - 1
           /\ Range(Tail(q)) \subseteq Range(q)
           /\ Range(q) \subseteq Range(Tail(q)) \cup {Head(q)}
  <1>1. /\ Head(q) \in S /\ Tail(q) \in Seq(S)
        /\ Len(Tail(q)) = Len(q) - 1 /\ Len(q) \in Nat \ {0}
        /\ Head(q) = q[1]
        /\ DOMAIN q = 1 .. Len(q) /\ DOMAIN Tail(q) = 1 .. Len(Tail(q))
        /\ \A i \in 1 .. Len(Tail(q)) : Tail(q)[i] = q[i + 1]
    BY HeadTailProperties, LenProperties, EmptySeq
  <1>2. Head(q) \in Range(q)
    BY <1>1 DEF Range
  <1>3. Range(Tail(q)) \subseteq Range(q)
    BY <1>1 DEF Range
  <1>4. ASSUME NEW i \in 1 .. Len(q)
        PROVE  q[i] \in Range(Tail(q)) \cup {Head(q)}
    <2>1. CASE i = 1
      BY <1>1, <2>1
    <2>2. CASE i # 1
      <3>1. i - 1 \in 1 .. Len(Tail(q)) /\ Tail(q)[i - 1] = q[i]
        BY <1>1, <2>2
      <3> QED
        BY <1>1, <3>1 DEF Range
    <2> QED
      BY <2>1, <2>2
  <1> QED
    BY <1>1, <1>2, <1>3, <1>4 DEF Range

LEMMA QueueAppend ==
    ASSUME NEW S, NEW q \in Seq(S), NEW e \in S
    PROVE  /\ Append(q, e) \in Seq(S)
           /\ Len(Append(q, e)) = Len(q) + 1
           /\ Range(Append(q, e)) = Range(q) \cup {e}
  <1>1. /\ Append(q, e) \in Seq(S) /\ Len(Append(q, e)) = Len(q) + 1
        /\ Len(q) \in Nat
        /\ DOMAIN q = 1 .. Len(q) /\ DOMAIN Append(q, e) = 1 .. Len(q) + 1
        /\ \A i \in 1 .. Len(q) : Append(q, e)[i] = q[i]
        /\ Append(q, e)[Len(q) + 1] = e
    BY AppendProperties, LenProperties
  <1> QED
    BY <1>1 DEF Range

\* Rotating the queue loses no packet and adds none.
LEMMA QueueRotation ==
    ASSUME NEW S, NEW q \in Seq(S), q # <<>>
    PROVE  /\ Append(Tail(q), Head(q)) \in Seq(S)
           /\ Len(Append(Tail(q), Head(q))) = Len(q)
           /\ Range(Append(Tail(q), Head(q))) = Range(q)
  <1>1. Len(q) \in Nat
    BY LenProperties
  <1>2. /\ Head(q) \in S /\ Head(q) \in Range(q)
        /\ Tail(q) \in Seq(S) /\ Len(Tail(q)) = Len(q) - 1
        /\ Range(Tail(q)) \cup {Head(q)} = Range(q)
    BY QueueTail
  <1>3. PICK r \in Seq(S), e \in S : r = Tail(q) /\ e = Head(q)
    BY <1>2
  <1>4. /\ Append(r, e) \in Seq(S) /\ Len(Append(r, e)) = Len(r) + 1
        /\ Range(Append(r, e)) = Range(r) \cup {e}
    BY QueueAppend
  <1>5. Append(r, e) = Append(Tail(q), Head(q))
    BY <1>3
  <1>6. Len(r) + 1 = Len(q) /\ Range(r) \cup {e} = Range(q)
    BY <1>1, <1>2, <1>3
  <1> HIDE <1>3
  <1> QED
    BY <1>4, <1>5, <1>6

-----------------------------------------------------------------------------
\* What travels on the networks.
LEMMA PacketFields ==
    ASSUME NEW p \in Packet
    PROVE  /\ p.msg \in Message /\ IdOf[p.msg] \in Id
           /\ p.seq \in PacketNumbers(SeqLen(p.msg)) /\ p.seq \in Nat
  <1>1. PICK m \in Message : p \in [msg : {m}, seq : PacketNumbers(SeqLen(m))]
    BY DEF Packet
  <1> QED
    BY <1>1, SeqLenType DEF PacketNumbers, Id

LEMMA PacketMade ==
    ASSUME NEW m \in Message, NEW s \in PacketNumbers(SeqLen(m))
    PROVE  [msg |-> m, seq |-> s] \in Packet
  <1>1. [msg |-> m, seq |-> s] \in [msg : {m}, seq : PacketNumbers(SeqLen(m))]
    OBVIOUS
  <1> QED
    BY <1>1 DEF Packet

LEMMA AckOfType ==
    ASSUME NEW w \in Member, NEW p \in Packet
    PROVE  AckOf(w, p) \in PacketAck
  BY DEF AckOf, PacketAck

LEMMA CarryType ==
    ASSUME NEW S, NEW net \in SUBSET S, NEW d \in S
    PROVE  Carry(net, d) \in SUBSET S
  BY DEF Carry

LEMMA AfterDeliveryType ==
    ASSUME NEW net, NEW d, NEW left \in AfterDelivery(net, d)
    PROVE  left \subseteq net
  BY DEF AfterDelivery

-----------------------------------------------------------------------------
\* Steps that leave a part of the state alone leave its type alone.
LEMMA MasterStutter ==
    ASSUME MasterTypeOK, UNCHANGED masterVars
    PROVE  MasterTypeOK'
  BY DEF MasterTypeOK, masterVars

LEMMA SenderStutter ==
    ASSUME SenderTypeOK, SenderInv,
           UNCHANGED <<senderVars, senderActive, acks, ackPc>>
    PROVE  SenderTypeOK' /\ SenderInv'
  BY DEF SenderTypeOK, SenderInv, senderVars

LEMMA NetworkStutter ==
    ASSUME NetworkTypeOK, UNCHANGED networkVars
    PROVE  NetworkTypeOK'
  BY DEF NetworkTypeOK, networkVars

LEMMA ReceiverStutter ==
    ASSUME ReceiverTypeOK, UNCHANGED receiverVars
    PROVE  ReceiverTypeOK'
  BY DEF ReceiverTypeOK, receiverVars

-----------------------------------------------------------------------------
\* The inductive invariant behind type correctness: Head(seq_no_queue) is a
\* packet of the message only because the inner loop never outruns the queue
\* and the queue holds packets of that message.
TypeInv == TypeOK /\ SenderInv

LEMMA InitTypeInv == Init => TypeInv
  <1> SUFFICES ASSUME Init PROVE TypeInv
    OBVIOUS
  <1>1. MasterTypeOK /\ NetworkTypeOK
    BY DEF Init, MasterTypeOK, NetworkTypeOK
  <1>2. SenderTypeOK /\ SenderInv
    <2>1. outcome \in [Message -> {"none", "sent", "failed"}]
      BY DEF Init
    <2>2. SenderTypeOK
      BY <2>1, EmptySeq DEF Init, SenderTypeOK, Sending
    <2>3. SenderInv
      BY DEF Init, SenderInv, Sending
    <2> QED
      BY <2>2, <2>3
  <1>3. ReceiverTypeOK
    BY DEF Init, ReceiverTypeOK, Handling
  <1> QED
    BY <1>1, <1>2, <1>3 DEF TypeInv, TypeOK

\* The steps of the sender thread.
LEMMA SenderStepTypeInv ==
    ASSUME TypeInv, SenderStep
    PROVE  TypeInv'
  <1> USE DEF TypeInv, TypeOK
  <1>1. CASE BeginSend
    <2>1. outQueue \in Seq(Message) /\ outQueue # <<>>
      BY <1>1 DEF BeginSend, MasterTypeOK
    <2>2. cur' \in Message /\ outQueue' \in Seq(Message)
      BY <1>1, <2>1, QueueTail DEF BeginSend
    <2>3. SeqLen(cur') \in Nat \ {0} /\ IdOf[cur'] \in Id
      BY <2>2, SeqLenType DEF Id
    <2>4. IsAccounting(acks', Id, Worker)
      BY <1>1, <2>3, NewAcksType DEF BeginSend
    <2>5. acks'.id = IdOf[cur'] /\ acks'.seqLen = SeqLen(cur')
      BY <1>1 DEF BeginSend, NewAcks
    <2>6. /\ seqQueue' \in Seq(Nat)
          /\ Range(seqQueue') \subseteq PacketNumbers(SeqLen(cur'))
      <3>1. /\ seqQueue' = [i \in 1 .. SeqLen(cur') + 1 |-> i - 1]
            /\ SeqLen(cur') + 1 \in Nat
        BY <1>1, <2>3 DEF BeginSend
      <3>2. \A i \in 1 .. SeqLen(cur') + 1 : i - 1 \in PacketNumbers(SeqLen(cur'))
        BY <2>3 DEF PacketNumbers
      <3>3. \A i \in 1 .. SeqLen(cur') + 1 : i - 1 \in Nat
        OBVIOUS
      <3> QED
        BY <3>1, <3>2, <3>3 DEF Range
    <2>7. SenderTypeOK' /\ SenderInv'
      BY <1>1, <2>2, <2>4, <2>5, <2>6 DEF BeginSend, SenderTypeOK, SenderInv, Sending
    <2>8. MasterTypeOK'
      BY <1>1, <2>2 DEF BeginSend, MasterTypeOK
    <2> QED
      BY <1>1, <2>7, <2>8, NetworkStutter, ReceiverStutter DEF BeginSend
  <1>2. CASE OuterLoop
    <2>1. Len(seqQueue) \in Nat
      BY LenProperties DEF SenderTypeOK
    <2>2. SenderTypeOK' /\ SenderInv'
      BY <1>2, <2>1 DEF OuterLoop, SenderTypeOK, SenderInv, Sending
    <2> QED
      BY <1>2, <2>2, MasterStutter, NetworkStutter, ReceiverStutter DEF OuterLoop
  <1>3. ASSUME InBatch
        PROVE  /\ cur \in Message /\ seqQueue \in Seq(Nat) /\ seqQueue # <<>>
               /\ batch \in Nat \ {0} /\ batch <= Len(seqQueue)
               /\ Len(seqQueue) \in Nat
               /\ Head(seqQueue) \in PacketNumbers(SeqLen(cur))
    <2>1. /\ cur \in Message /\ seqQueue \in Seq(Nat)
          /\ batch \in Nat \ {0} /\ batch <= Len(seqQueue)
          /\ Range(seqQueue) \subseteq PacketNumbers(SeqLen(cur))
      BY <1>3 DEF InBatch, SenderTypeOK, SenderInv, Sending
    <2>2. seqQueue # <<>> /\ Len(seqQueue) \in Nat
      BY <2>1, EmptySeq, LenProperties
    <2> QED
      BY <2>1, <2>2, QueueTail
  <1>4. CASE SendPacket
    <2>1. /\ seqQueue' \in Seq(Nat) /\ Len(seqQueue') = Len(seqQueue)
          /\ Range(seqQueue') = Range(seqQueue)
      BY <1>3, <1>4, QueueRotation DEF SendPacket
    <2>2. SenderTypeOK' /\ SenderInv'
      <3>1. batch' \in Nat /\ batch' <= Len(seqQueue')
        BY <1>3, <1>4, <2>1 DEF SendPacket, EndIteration
      <3>2. /\ expired \in BOOLEAN /\ returnStatus' = ~ expired
            /\ senderPc' = IF expired THEN "finish" ELSE "batch"
        BY <1>4 DEF SendPacket, EndIteration, SenderTypeOK
      <3>3. SenderTypeOK'
        BY <1>3, <1>4, <2>1, <3>1, <3>2 DEF SendPacket, InBatch, SenderTypeOK, Sending
      <3>4. SenderInv'
        BY <1>3, <1>4, <2>1, <3>1, <3>2 DEF SendPacket, InBatch, SenderInv, Sending
      <3> QED
        BY <3>3, <3>4
    <2>3. [msg |-> cur, seq |-> Head(seqQueue)] \in Packet
      BY <1>3, <1>4, PacketMade DEF SendPacket
    <2>4. NetworkTypeOK'
      BY <1>4, <2>3, CarryType DEF SendPacket, NetworkTypeOK
    <2> QED
      BY <1>4, <2>2, <2>4, MasterStutter, ReceiverStutter DEF SendPacket
  <1>5. CASE DropPacket
    <2>1. /\ seqQueue' \in Seq(Nat) /\ Len(seqQueue') = Len(seqQueue) - 1
          /\ Range(seqQueue') \subseteq Range(seqQueue)
      BY <1>3, <1>5, QueueTail DEF DropPacket
    <2>2. SenderTypeOK' /\ SenderInv'
      <3>1. batch' \in Nat /\ batch' <= Len(seqQueue')
        BY <1>3, <1>5, <2>1 DEF DropPacket, EndIteration
      <3>2. /\ expired \in BOOLEAN /\ returnStatus' = ~ expired
            /\ senderPc' = IF expired THEN "finish" ELSE "batch"
        BY <1>5 DEF DropPacket, EndIteration, SenderTypeOK
      <3>3. SenderTypeOK'
        BY <1>3, <1>5, <2>1, <3>1, <3>2 DEF DropPacket, InBatch, SenderTypeOK, Sending
      <3>4. SenderInv'
        BY <1>3, <1>5, <2>1, <3>1, <3>2 DEF DropPacket, InBatch, SenderInv, Sending
      <3> QED
        BY <3>3, <3>4
    <2> QED
      BY <1>5, <2>2, MasterStutter, NetworkStutter, ReceiverStutter DEF DropPacket
  <1>6. CASE SendFails
    <2>1. /\ seqQueue' \in Seq(Nat) /\ Range(seqQueue') \subseteq Range(seqQueue)
      BY <1>3, <1>6, QueueTail DEF SendFails
    <2>2. SenderTypeOK' /\ SenderInv'
      BY <1>3, <1>6, <2>1 DEF SendFails, InBatch, SenderTypeOK, SenderInv, Sending
    <2> QED
      BY <1>6, <2>2, MasterStutter, NetworkStutter, ReceiverStutter DEF SendFails
  <1>7. CASE EndBatch
    <2>1. SenderTypeOK' /\ SenderInv'
      BY <1>7 DEF EndBatch, SenderTypeOK, SenderInv, Sending
    <2> QED
      BY <1>7, <2>1, MasterStutter, NetworkStutter, ReceiverStutter DEF EndBatch
  <1>8. CASE FinishSend
    <2>1. SenderTypeOK' /\ SenderInv'
      <3>1. outcome' \in [Message -> {"none", "sent", "failed"}]
        BY <1>8 DEF FinishSend, SenderTypeOK
      <3>2. SenderTypeOK'
        BY <1>8, <3>1, EmptySeq DEF FinishSend, SenderTypeOK, Sending
      <3>3. SenderInv'
        BY <1>8 DEF FinishSend, SenderInv, Sending
      <3> QED
        BY <3>2, <3>3
    <2> QED
      BY <1>8, <2>1, MasterStutter, NetworkStutter, ReceiverStutter DEF FinishSend
  <1>9. CASE SenderExits
    <2>1. SenderTypeOK' /\ SenderInv'
      BY <1>9 DEF SenderExits, SenderTypeOK, SenderInv, Sending
    <2> QED
      BY <1>9, <2>1, MasterStutter, NetworkStutter, ReceiverStutter DEF SenderExits
  <1>10. ASSUME NEW a \in wholeAcks, DrainAck(a)
         PROVE  TypeInv'
    <2>1. senderPc = "drain" /\ IsAccounting(acks, Id, Worker)
      BY <1>10 DEF DrainAck, SenderTypeOK, Sending
    <2>2. ASSUME a.id = acks.id /\ a.src \in acks.living
          PROVE  SenderTypeOK' /\ SenderInv'
      <3>1. a.src \in Worker
        BY <2>1, <2>2 DEF IsAccounting
      <3>2. acks' = AcknowledgeWhole(acks, a.src) /\ UNCHANGED <<senderPc, returnStatus>>
        BY <1>10, <2>2 DEF DrainAck
      <3>3. /\ IsAccounting(acks', Id, Worker)
            /\ acks'.id = acks.id /\ acks'.seqLen = acks.seqLen
        BY <2>1, <3>1, <3>2, MulticastAssumption, AcknowledgeWholeType
      <3> QED
        BY <1>10, <2>1, <3>2, <3>3 DEF DrainAck, SenderTypeOK, SenderInv, Sending
    <2>3. ASSUME ~ (a.id = acks.id /\ a.src \in acks.living)
          PROVE  SenderTypeOK' /\ SenderInv'
      <3>1. /\ UNCHANGED acks
            /\ \/ UNCHANGED <<senderPc, returnStatus>>
               \/ senderPc' = "finish" /\ returnStatus' = FALSE
        BY <1>10, <2>3 DEF DrainAck
      <3>2. CASE UNCHANGED <<senderPc, returnStatus>>
        BY <1>10, <2>1, <3>1, <3>2 DEF DrainAck, SenderTypeOK, SenderInv, Sending
      <3>3. CASE senderPc' = "finish" /\ returnStatus' = FALSE
        <4>1. SenderTypeOK'
          BY <1>10, <2>1, <3>1, <3>3 DEF DrainAck, SenderTypeOK, Sending
        <4>2. SenderInv'
          BY <1>10, <2>1, <3>1, <3>3 DEF DrainAck, SenderInv, Sending
        <4> QED
          BY <4>1, <4>2
      <3> QED
        BY <3>1, <3>2, <3>3
    <2>4. NetworkTypeOK'
      BY <1>10 DEF DrainAck, NetworkTypeOK
    <2> QED
      BY <1>10, <2>2, <2>3, <2>4, MasterStutter, ReceiverStutter DEF DrainAck
  <1> QED
    BY <1>1, <1>2, <1>4, <1>5, <1>6, <1>7, <1>8, <1>9, <1>10 DEF SenderStep

\* The steps of the main thread of the master and of its ack_processor.
LEMMA MasterStepTypeInv ==
    ASSUME TypeInv, MasterStep
    PROVE  TypeInv'
  <1> USE DEF TypeInv, TypeOK
  <1>1. ASSUME NEW m \in Message, Produce(m)
        PROVE  TypeInv'
    <2>1. MasterTypeOK'
      BY <1>1, QueueAppend DEF Produce, MasterTypeOK
    <2> QED
      BY <1>1, <2>1, SenderStutter, NetworkStutter, ReceiverStutter DEF Produce
  <1>2. ASSUME NEW m \in Message, RequestShutdown(m)
        PROVE  TypeInv'
    <2>1. MasterTypeOK'
      BY <1>2, QueueAppend DEF RequestShutdown, MasterTypeOK
    <2> QED
      BY <1>2, <2>1, SenderStutter, NetworkStutter, ReceiverStutter
         DEF RequestShutdown
  <1>3. CASE StopSender
    <2>1. MasterTypeOK'
      BY <1>3 DEF StopSender, MasterTypeOK
    <2>2. SenderTypeOK' /\ SenderInv'
      BY <1>3 DEF StopSender, SenderTypeOK, SenderInv, senderVars
    <2> QED
      BY <1>3, <2>1, <2>2, NetworkStutter, ReceiverStutter DEF StopSender
  <1>4. CASE Tick
    <2>1. SenderTypeOK' /\ SenderInv'
      BY <1>4 DEF Tick, SenderTypeOK, SenderInv
    <2> QED
      BY <1>4, <2>1, MasterStutter, NetworkStutter, ReceiverStutter DEF Tick
  <1>5. CASE AckProcessorExits
    <2>1. SenderTypeOK' /\ SenderInv'
      BY <1>5 DEF AckProcessorExits, SenderTypeOK, SenderInv, senderVars
    <2> QED
      BY <1>5, <2>1, MasterStutter, NetworkStutter, ReceiverStutter
         DEF AckProcessorExits
  <1>6. ASSUME NEW a \in netAck, ProcessAck(a)
        PROVE  TypeInv'
    <2>1. NetworkTypeOK'
      BY <1>6, AfterDeliveryType DEF ProcessAck, NetworkTypeOK
    <2>2. ackPc' \in {"run", "stopped", "aborted"}
      BY <1>6 DEF ProcessAck
    <2> UNCHANGED <<senderVars, senderActive>>
      BY <1>6 DEF ProcessAck
    <2>3. ASSUME UNCHANGED acks
          PROVE  SenderTypeOK' /\ SenderInv'
      BY <2>2, <2>3 DEF SenderTypeOK, SenderInv, senderVars
    <2>4. ASSUME acks # NoAcks, CanAcknowledge(acks, a.src, a.seq),
                 acks' = Acknowledge(acks, a.src, a.seq)
          PROVE  SenderTypeOK' /\ SenderInv'
      <3>1. senderPc \in Sending /\ IsAccounting(acks, Id, Worker)
        BY <2>4 DEF SenderTypeOK
      <3>2. /\ IsAccounting(acks', Id, Worker)
            /\ acks'.id = acks.id /\ acks'.seqLen = acks.seqLen
        BY <2>4, <3>1, AcknowledgeType
      <3> QED
        BY <2>2, <3>1, <3>2 DEF SenderTypeOK, SenderInv, senderVars
    <2>5. SenderTypeOK' /\ SenderInv'
      BY <1>6, <2>3, <2>4 DEF ProcessAck
    <2> QED
      BY <1>6, <2>1, <2>5, MasterStutter, ReceiverStutter DEF ProcessAck, networkVars
  <1> QED
    BY <1>1, <1>2, <1>3, <1>4, <1>5, <1>6 DEF MasterStep

\* The networks lose what they carry.
LEMMA NetworkStepTypeInv ==
    ASSUME TypeInv, NetworkStep
    PROVE  TypeInv'
  <1> USE DEF TypeInv, TypeOK
  <1>1. ASSUME NEW w \in Member, NEW p \in netData[w], LoseData(w, p)
        PROVE  TypeInv'
    <2>1. NetworkTypeOK'
      BY <1>1 DEF LoseData, NetworkTypeOK
    <2> QED
      BY <1>1, <2>1, MasterStutter, SenderStutter, ReceiverStutter DEF LoseData
  <1>2. ASSUME NEW a \in netAck, LoseAck(a)
        PROVE  TypeInv'
    <2>1. NetworkTypeOK'
      BY <1>2 DEF LoseAck, NetworkTypeOK
    <2> QED
      BY <1>2, <2>1, MasterStutter, SenderStutter, ReceiverStutter DEF LoseAck
  <1> QED
    BY <1>1, <1>2 DEF NetworkStep

-----------------------------------------------------------------------------
\* The receiver works on packets that travelled, and what it makes of them
\* keeps the shape of a partial message.
LEMMA ReceivesType ==
    ASSUME ReceiverTypeOK, NetworkTypeOK, NEW w \in Member, NEW p, Receives(w, p)
    PROVE  /\ p \in Packet /\ rxPc[w] = "recv" /\ hand[w] = NoPacket
           /\ netData' \in [Member -> SUBSET Packet]
  <1>1. p \in Packet
    BY DEF Receives, NetworkTypeOK
  <1>2. PICK left \in AfterDelivery(netData[w], p) :
           netData' = [netData EXCEPT ![w] = left]
    BY DEF Receives
  <1>3. left \in SUBSET Packet
    BY <1>2, AfterDeliveryType DEF NetworkTypeOK
  <1> QED
    BY <1>1, <1>2, <1>3 DEF Receives, NetworkTypeOK, ReceiverTypeOK, Handling

LEMMA HandType ==
    ASSUME ReceiverTypeOK, NEW w \in Member, rxPc[w] \in Handling
    PROVE  /\ hand[w] \in Packet /\ InHand(w) \in Message /\ HandId(w) \in Id
           /\ hand[w].seq \in PacketNumbers(SeqLen(InHand(w))) /\ hand[w].seq \in Nat
  <1>1. hand[w] \in Packet
    BY DEF ReceiverTypeOK
  <1> QED
    BY <1>1, PacketFields DEF InHand, HandId

LEMMA PartialType ==
    ASSUME ReceiverTypeOK, NEW w \in Member, rxPc[w] \in Handling
    PROVE  Partial(w) \in PartialMessage /\ PartialAfter(w) \in PartialMessage
  <1>1. Partial(w) \in PartialMessage
    BY HandType, NewPartialType DEF Partial, ReceiverTypeOK
  <1>2. PartialAfter(w) \in PartialMessage
    BY <1>1, HandType, AddPieceType, SetChecksumType DEF PartialAfter
  <1> QED
    BY <1>1, <1>2

\* ReceiverTypeOK in the parts that the receiver's steps disturb one by one.
HandTypeOK ==
    /\ rxPc \in [Member -> Handling \cup {"recv", "stopped", "aborted"}]
    /\ DOMAIN hand = Member
    /\ \A w \in Member : IF rxPc[w] \in Handling THEN hand[w] \in Packet
                                                  ELSE hand[w] = NoPacket

PartialTypeOK ==
    /\ DOMAIN active = Member
    /\ \A w \in Member :
          /\ DOMAIN active[w] \subseteq Id
          /\ \A i \in DOMAIN active[w] : active[w][i] \in PartialMessage

QueueTypeOK ==
    /\ rxActive \in [Member -> BOOLEAN]
    /\ recent \in [Member -> SUBSET Id]
    /\ inbox \in [Member -> Seq(Message)]
    /\ consumed \in [Member -> Nat]

LEMMA ReceiverParts ==
    ReceiverTypeOK <=> HandTypeOK /\ PartialTypeOK /\ QueueTypeOK
  BY DEF ReceiverTypeOK, HandTypeOK, PartialTypeOK, QueueTypeOK

LEMMA ReceiverPartsNext ==
    ReceiverTypeOK' <=> HandTypeOK' /\ PartialTypeOK' /\ QueueTypeOK'
  BY DEF ReceiverTypeOK, HandTypeOK, PartialTypeOK, QueueTypeOK

LEMMA GoOnType ==
    ASSUME HandTypeOK, NEW w \in Member, GoOn(w)
    PROVE  HandTypeOK'
  <1>1. Continue(w) \in {"recv", "stopped"}
    BY DEF Continue
  <1> QED
    BY <1>1 DEF GoOn, HandTypeOK, Handling

LEMMA AbortType ==
    ASSUME HandTypeOK, PartialTypeOK, QueueTypeOK, NEW w \in Member, Abort(w),
           UNCHANGED <<rxActive, inbox, consumed>>
    PROVE  HandTypeOK' /\ PartialTypeOK' /\ QueueTypeOK'
  <1>1. HandTypeOK'
    BY DEF Abort, HandTypeOK, Handling
  <1>2. PartialTypeOK'
    BY DEF Abort, PartialTypeOK
  <1>3. QueueTypeOK'
    BY DEF Abort, QueueTypeOK
  <1> QED
    BY <1>1, <1>2, <1>3

\* The steps that take a packet from the network.
LEMMA ReceiveTypeInv ==
    ASSUME TypeInv, NEW w \in Member, NEW p, ReceiveStep(w, p) \/ AckFails(w, p)
    PROVE  TypeInv'
  <1> USE DEF TypeInv, TypeOK
  <1>1. HandTypeOK /\ PartialTypeOK /\ QueueTypeOK
    BY ReceiverParts
  <1>2. ASSUME Receives(w, p)
        PROVE  /\ p \in Packet /\ p.msg \in Message /\ AckOf(w, p) \in PacketAck
               /\ netData' \in [Member -> SUBSET Packet]
    BY <1>2, ReceivesType, PacketFields, AckOfType
  <1>3. CASE ReceiveCommand(w, p)
    <2>1. NetworkTypeOK'
      BY <1>2, <1>3 DEF ReceiveCommand, NetworkTypeOK
    <2>2. HandTypeOK'
      BY <1>1, <1>2, <1>3 DEF ReceiveCommand, Receives, HandTypeOK, Handling
    <2>3. PartialTypeOK'
      BY <1>1, <1>3 DEF ReceiveCommand, PartialTypeOK
    <2>4. QueueTypeOK'
      <3>1. inbox' \in [Member -> Seq(Message)]
        BY <1>1, <1>2, <1>3, QueueAppend DEF ReceiveCommand, QueueTypeOK
      <3> QED
        BY <1>1, <1>3, <3>1 DEF ReceiveCommand, QueueTypeOK
    <2> QED
      BY <1>3, <2>1, <2>2, <2>3, <2>4, ReceiverPartsNext, MasterStutter,
         SenderStutter DEF ReceiveCommand
  <1>4. CASE ReceiveResent(w, p)
    <2>1. NetworkTypeOK'
      BY <1>2, <1>4, CarryType DEF ReceiveResent, NetworkTypeOK
    <2>2. HandTypeOK'
      BY <1>1, <1>4, GoOnType DEF ReceiveResent
    <2>3. PartialTypeOK'
      BY <1>1, <1>4 DEF ReceiveResent, PartialTypeOK
    <2>4. QueueTypeOK'
      BY <1>1, <1>4 DEF ReceiveResent, QueueTypeOK
    <2> QED
      BY <1>4, <2>1, <2>2, <2>3, <2>4, ReceiverPartsNext, MasterStutter,
         SenderStutter DEF ReceiveResent
  <1>5. CASE ReceiveNew(w, p)
    <2>1. NetworkTypeOK'
      BY <1>2, <1>5, CarryType DEF ReceiveNew, NetworkTypeOK
    <2>2. HandTypeOK'
      BY <1>1, <1>2, <1>5 DEF ReceiveNew, HandTypeOK, Handling
    <2>3. PartialTypeOK'
      BY <1>1, <1>5 DEF ReceiveNew, PartialTypeOK
    <2>4. QueueTypeOK'
      BY <1>1, <1>5 DEF ReceiveNew, QueueTypeOK
    <2> QED
      BY <1>5, <2>1, <2>2, <2>3, <2>4, ReceiverPartsNext, MasterStutter,
         SenderStutter DEF ReceiveNew
  <1>6. CASE AckFails(w, p)
    <2>1. NetworkTypeOK'
      BY <1>2, <1>6 DEF AckFails, NetworkTypeOK
    <2>2. HandTypeOK' /\ PartialTypeOK' /\ QueueTypeOK'
      BY <1>1, <1>6, AbortType DEF AckFails
    <2> QED
      BY <1>6, <2>1, <2>2, ReceiverPartsNext, MasterStutter, SenderStutter
         DEF AckFails
  <1> QED
    BY <1>3, <1>4, <1>5, <1>6 DEF ReceiveStep

LEMMA WithPartialType ==
    ASSUME PartialTypeOK, NEW w \in Member, NEW i \in Id, NEW r \in PartialMessage,
           active' = [active EXCEPT ![w] = WithPartial(@, i, r)]
    PROVE  PartialTypeOK'
  <1> DEFINE f == WithPartial(active[w], i, r)
  <1>1. DOMAIN f \subseteq Id /\ \A j \in DOMAIN f : f[j] \in PartialMessage
    BY DEF WithPartial, PartialTypeOK
  <1> HIDE DEF f
  <1>2. active' = [active EXCEPT ![w] = f]
    BY DEF f
  <1> QED
    BY <1>1, <1>2 DEF PartialTypeOK

LEMMA WithoutPartialType ==
    ASSUME PartialTypeOK, NEW w \in Member, NEW i,
           active' = [active EXCEPT ![w] = WithoutPartial(@, i)]
    PROVE  PartialTypeOK'
  <1> DEFINE f == WithoutPartial(active[w], i)
  <1>1. DOMAIN f \subseteq Id /\ \A j \in DOMAIN f : f[j] \in PartialMessage
    BY DEF WithoutPartial, PartialTypeOK
  <1> HIDE DEF f
  <1>2. active' = [active EXCEPT ![w] = f]
    BY DEF f
  <1> QED
    BY <1>1, <1>2 DEF PartialTypeOK

\* The steps that handle the packet in hand, and those of the main thread.
LEMMA HandleTypeInv ==
    ASSUME TypeInv, NEW w \in Member, HandleStep(w)
    PROVE  TypeInv'
  <1> USE DEF TypeInv, TypeOK
  <1>1. HandTypeOK /\ PartialTypeOK /\ QueueTypeOK
    BY ReceiverParts
  <1>2. ASSUME rxPc[w] \in Handling
        PROVE  /\ hand[w] \in Packet /\ HandId(w) \in Id
               /\ PartialAfter(w) \in PartialMessage
    BY <1>2, HandType, PartialType
  <1>3. CASE ProcessAborts(w)
    <2>1. HandTypeOK' /\ PartialTypeOK' /\ QueueTypeOK'
      BY <1>1, <1>3, AbortType DEF ProcessAborts
    <2> QED
      BY <1>3, <2>1, ReceiverPartsNext, MasterStutter, SenderStutter, NetworkStutter
         DEF ProcessAborts
  <1>4. CASE StorePacket(w)
    <2>1. HandTypeOK'
      BY <1>1, <1>4, GoOnType DEF StorePacket
    <2>2. PartialTypeOK'
      BY <1>1, <1>2, <1>4, WithPartialType DEF StorePacket, Handling
    <2>3. QueueTypeOK'
      BY <1>1, <1>4 DEF StorePacket, QueueTypeOK
    <2> QED
      BY <1>4, <2>1, <2>2, <2>3, ReceiverPartsNext, MasterStutter, SenderStutter,
         NetworkStutter DEF StorePacket
  <1>5. CASE DeliverMessage(w)
    <2>1. HandTypeOK'
      BY <1>1, <1>5 DEF DeliverMessage, HandTypeOK, Handling
    <2>2. PartialTypeOK'
      BY <1>1, <1>5, WithoutPartialType DEF DeliverMessage
    <2>3. QueueTypeOK'
      <3>1. PartialAfter(w).checksum \in Message
        BY <1>2, <1>5
           DEF DeliverMessage, Verdict, IsComplete, PartialMessage, Handling
      <3>2. inbox' \in [Member -> Seq(Message)]
        BY <1>1, <1>5, <3>1, QueueAppend DEF DeliverMessage, QueueTypeOK
      <3> QED
        BY <1>1, <1>5, <3>2 DEF DeliverMessage, QueueTypeOK
    <2> QED
      BY <1>5, <2>1, <2>2, <2>3, ReceiverPartsNext, MasterStutter, SenderStutter,
         NetworkStutter DEF DeliverMessage
  <1>6. CASE DiscardMessage(w)
    <2>1. HandTypeOK'
      BY <1>1, <1>6, GoOnType DEF DiscardMessage
    <2>2. PartialTypeOK'
      BY <1>1, <1>6, WithoutPartialType DEF DiscardMessage
    <2>3. QueueTypeOK'
      BY <1>1, <1>6 DEF DiscardMessage, QueueTypeOK
    <2> QED
      BY <1>6, <2>1, <2>2, <2>3, ReceiverPartsNext, MasterStutter, SenderStutter,
         NetworkStutter DEF DiscardMessage
  <1>7. CASE RecordReceived(w)
    <2>1. CASE Abort(w)
      BY <1>1, <1>7, <2>1, AbortType, ReceiverPartsNext, MasterStutter,
         SenderStutter, NetworkStutter DEF RecordReceived
    <2>2. CASE ~ Abort(w)
      <3>1. HandTypeOK'
        BY <1>1, <1>7, <2>2 DEF RecordReceived, HandTypeOK, Handling
      <3>2. PartialTypeOK'
        BY <1>1, <1>7, <2>2 DEF RecordReceived, PartialTypeOK
      <3>3. QueueTypeOK'
        BY ZenonT(30), <1>1, <1>2, <1>7, <2>2 DEF RecordReceived, QueueTypeOK, Handling
      <3> QED
        BY <1>7, <3>1, <3>2, <3>3, ReceiverPartsNext, MasterStutter,
           SenderStutter, NetworkStutter DEF RecordReceived
    <2> QED
      BY <2>1, <2>2
  <1>8. CASE SendWholeAck(w)
    <2>1. NetworkTypeOK'
      <3>1. [src |-> w, id |-> HandId(w)] \in WholeAck
        BY <1>2, <1>8 DEF SendWholeAck, WholeAck, Handling
      <3>2. wholeAcks' = wholeAcks \/ wholeAcks' = wholeAcks \cup {[src |-> w, id |-> HandId(w)]}
        BY <1>8 DEF SendWholeAck
      <3> QED
        BY <1>8, <3>1, <3>2 DEF SendWholeAck, NetworkTypeOK
    <2>2. HandTypeOK' /\ PartialTypeOK' /\ QueueTypeOK'
      <3>1. CASE Abort(w)
        BY <1>1, <1>8, <3>1, AbortType DEF SendWholeAck
      <3>2. CASE ~ Abort(w)
        <4>1. GoOn(w) /\ UNCHANGED <<rxActive, active, recent, inbox, consumed>>
          BY <1>8, <3>2 DEF SendWholeAck
        <4> QED
          BY <1>1, <4>1, GoOnType DEF PartialTypeOK, QueueTypeOK
      <3> QED
        BY <3>1, <3>2
    <2> QED
      BY <1>8, <2>1, <2>2, ReceiverPartsNext, MasterStutter, SenderStutter
         DEF SendWholeAck
  <1> QED
    BY <1>3, <1>4, <1>5, <1>6, <1>7, <1>8 DEF HandleStep

LEMMA WorkerMainTypeInv ==
    ASSUME TypeInv, NEW w \in Member, Consume(w) \/ StopReceiver(w)
    PROVE  TypeInv'
  <1> USE DEF TypeInv, TypeOK
  <1>1. CASE Consume(w)
    <2>1. ReceiverTypeOK'
      BY <1>1 DEF Consume, ReceiverTypeOK
    <2> QED
      BY <1>1, <2>1, MasterStutter, SenderStutter, NetworkStutter DEF Consume
  <1>2. CASE StopReceiver(w)
    <2>1. ReceiverTypeOK'
      BY <1>2 DEF StopReceiver, ReceiverTypeOK
    <2> QED
      BY <1>2, <2>1, MasterStutter, SenderStutter, NetworkStutter DEF StopReceiver
  <1> QED
    BY <1>1, <1>2

LEMMA StutterTypeInv ==
    ASSUME TypeInv, UNCHANGED vars
    PROVE  TypeInv'
  BY MasterStutter, SenderStutter, NetworkStutter, ReceiverStutter
     DEF TypeInv, TypeOK, vars

LEMMA NextTypeInv ==
    ASSUME TypeInv, [Next]_vars
    PROVE  TypeInv'
  <1>1. CASE \E w \in Member : MemberStep(w)
    <2>1. PICK w \in Member : MemberStep(w)
      BY <1>1
    <2> QED
      BY <2>1, ReceiveTypeInv, HandleTypeInv, WorkerMainTypeInv DEF MemberStep
  <1> QED
    BY <1>1, SenderStepTypeInv, MasterStepTypeInv, NetworkStepTypeInv,
       StutterTypeInv DEF Next, HostStep

\* Every variable keeps the shape the code gives it: in particular the sender
\* never takes a packet number from an empty seq_no_queue, and the sizes a
\* receiver derives from the first packet of a message are never zero.
THEOREM TypeCorrect == Spec => []TypeOK
  <1>1. TypeInv => TypeOK
    BY DEF TypeInv
  <1> QED
    BY <1>1, InitTypeInv, NextTypeInv, PTL DEF Spec

\* The sender thread's own view of its message is right (SenderInv).
THEOREM SenderIsRight == Spec => []SenderInv
  <1>1. TypeInv => SenderInv
    BY DEF TypeInv
  <1> QED
    BY <1>1, InitTypeInv, NextTypeInv, PTL DEF Spec

-----------------------------------------------------------------------------
\* The accounting.  TypeInv, CountersAgree and NothingGivenUp are inductive
\* together: a packet leaves the queue on the word of a counter.
SafetyInv == TypeInv /\ CountersAgree /\ NothingGivenUp

LEMMA InitSafetyInv == Init => SafetyInv
  BY InitTypeInv DEF SafetyInv, Init, CountersAgree, NothingGivenUp, Sending

\* What the proofs below use of the type invariant.
LEMMA SendingFacts ==
    ASSUME TypeInv, senderPc \in Sending
    PROVE  /\ cur \in Message /\ IsFiniteSet(Worker)
           /\ IsAccounting(acks, Id, Worker) /\ acks.living = Worker
           /\ acks.seqLen = SeqLen(cur) /\ SeqLen(cur) \in Nat
           /\ seqQueue \in Seq(Nat)
  <1>1. cur \in Message /\ IsAccounting(acks, Id, Worker) /\ seqQueue \in Seq(Nat)
    BY DEF TypeInv, TypeOK, SenderTypeOK
  <1>2. acks.living = Worker
    BY <1>1 DEF IsAccounting
  <1>3. acks.seqLen = SeqLen(cur)
    BY DEF TypeInv, SenderInv
  <1> QED
    BY <1>1, <1>2, <1>3, SeqLenType, MulticastAssumption

LEMMA InBatchFacts ==
    ASSUME TypeInv, InBatch
    PROVE  /\ senderPc \in Sending /\ seqQueue # <<>> /\ returnStatus
           /\ Head(seqQueue) \in PacketNumbers(SeqLen(cur))
  <1>1. /\ senderPc \in Sending /\ returnStatus /\ seqQueue \in Seq(Nat)
        /\ batch \in Nat \ {0} /\ batch <= Len(seqQueue)
        /\ Range(seqQueue) \subseteq PacketNumbers(SeqLen(cur))
    BY DEF InBatch, TypeInv, TypeOK, SenderTypeOK, SenderInv, Sending
  <1>2. seqQueue # <<>>
    BY <1>1, EmptySeq
  <1> QED
    BY <1>1, <1>2, QueueTail

LEMMA AcksUnchanged ==
    ASSUME SafetyInv, acks' = acks, cur' = cur, seqQueue' = seqQueue,
           senderPc' \in Sending => senderPc \in Sending,
           senderPc \in Sending /\ returnStatus' => returnStatus
    PROVE  CountersAgree' /\ NothingGivenUp'
  BY DEF SafetyInv, CountersAgree, NothingGivenUp

LEMMA SenderStepSafety ==
    ASSUME SafetyInv, SenderStep
    PROVE  CountersAgree' /\ NothingGivenUp'
  <1> USE DEF SafetyInv
  <1>1. CASE BeginSend
    <2>1. outQueue \in Seq(Message) /\ outQueue # <<>>
      BY <1>1 DEF BeginSend, TypeInv, TypeOK, MasterTypeOK
    <2>2. cur' \in Message /\ SeqLen(cur') \in Nat
      BY <1>1, <2>1, QueueTail, SeqLenType DEF BeginSend
    <2>3. CountersMatchBits(acks')
      BY <1>1, <2>2, NewAcksCounters DEF BeginSend
    <2>4. ASSUME NEW s \in PacketNumbers(SeqLen(cur'))
          PROVE  s \in Range(seqQueue')
      <3>1. seqQueue' = [i \in 1 .. SeqLen(cur') + 1 |-> i - 1]
        BY <1>1 DEF BeginSend
      <3>2. s + 1 \in 1 .. SeqLen(cur') + 1 /\ (s + 1) - 1 = s
        BY <2>2 DEF PacketNumbers
      <3>3. s + 1 \in DOMAIN seqQueue' /\ seqQueue'[s + 1] = s
        BY <3>1, <3>2
      <3> QED
        BY <3>3 DEF Range
    <2> QED
      BY <2>3, <2>4 DEF CountersAgree, NothingGivenUp
  <1>2. CASE OuterLoop
    BY <1>2, AcksUnchanged DEF OuterLoop, Sending
  <1>3. CASE SendPacket
    <2>1. Range(seqQueue') = Range(seqQueue)
      BY <1>3, InBatchFacts, SendingFacts, QueueRotation DEF SendPacket
    <2> QED
      BY <1>3, <2>1, InBatchFacts DEF SendPacket, CountersAgree, NothingGivenUp
  <1>4. CASE DropPacket
    <2>1. /\ senderPc \in Sending /\ returnStatus
          /\ Head(seqQueue) \in PacketNumbers(SeqLen(cur))
          /\ PacketAcknowledged(acks, Head(seqQueue))
      BY <1>4, InBatchFacts DEF DropPacket
    <2>2. Worker \X {Head(seqQueue)} \subseteq acks.acks
      BY <2>1, SendingFacts, PacketAcknowledgedByAll DEF CountersAgree
    <2>3. Range(seqQueue) \subseteq Range(seqQueue') \cup {Head(seqQueue)}
      BY <1>4, InBatchFacts, SendingFacts, QueueTail DEF DropPacket
    <2>4. UNCHANGED <<acks, cur>>
      BY <1>4 DEF DropPacket
    <2> QED
      BY <2>1, <2>2, <2>3, <2>4 DEF CountersAgree, NothingGivenUp
  <1>5. CASE SendFails
    BY <1>5, InBatchFacts DEF SendFails, CountersAgree, NothingGivenUp
  <1>6. CASE EndBatch
    BY <1>6, AcksUnchanged DEF EndBatch, Sending
  <1>7. CASE FinishSend
    BY <1>7 DEF FinishSend, Sending, CountersAgree, NothingGivenUp
  <1>8. CASE SenderExits
    BY <1>8 DEF SenderExits, Sending, CountersAgree, NothingGivenUp
  <1>9. ASSUME NEW a \in wholeAcks, DrainAck(a)
        PROVE  CountersAgree' /\ NothingGivenUp'
    <2>1. senderPc = "drain" /\ senderPc \in Sending /\ UNCHANGED <<cur, seqQueue>>
      BY <1>9 DEF DrainAck, Sending
    <2>2. CASE a.id = acks.id /\ a.src \in acks.living
      <3>1. a.src \in Worker
        BY <2>1, <2>2, SendingFacts
      <3>2. acks' = AcknowledgeWhole(acks, a.src) /\ UNCHANGED <<senderPc, returnStatus>>
        BY <1>9, <2>2 DEF DrainAck
      <3>3. CountersMatchBits(acks')
        BY <2>1, <3>1, <3>2, SendingFacts, AcknowledgeWholeCounters DEF CountersAgree
      <3>4. acks.acks \subseteq acks'.acks
        <4>1. IsAccounting(acks, Id, Worker) /\ IsFiniteSet(Worker)
          BY <2>1, SendingFacts
        <4>2. acks'.acks = acks.acks \cup ({a.src} \X Missing(acks, a.src))
          BY <3>1, <3>2, <4>1, AcknowledgeWholeType
        <4> QED
          BY <4>2
      <3> QED
        BY <2>1, <3>2, <3>3, <3>4 DEF CountersAgree, NothingGivenUp
    <2>3. CASE ~ (a.id = acks.id /\ a.src \in acks.living)
      <3>1. UNCHANGED acks /\ (returnStatus' => returnStatus)
        BY <1>9, <2>3 DEF DrainAck
      <3> QED
        BY <2>1, <3>1, AcksUnchanged
    <2> QED
      BY <2>2, <2>3
  <1> QED
    BY <1>1, <1>2, <1>3, <1>4, <1>5, <1>6, <1>7, <1>8, <1>9 DEF SenderStep

LEMMA ProcessAckSafety ==
    ASSUME SafetyInv, NEW a \in netAck, ProcessAck(a)
    PROVE  CountersAgree' /\ NothingGivenUp'
  <1> USE DEF SafetyInv
  <1>1. UNCHANGED <<cur, seqQueue, senderPc, returnStatus>>
    BY DEF ProcessAck, senderVars
  <1>2. CASE UNCHANGED acks
    BY <1>1, <1>2, AcksUnchanged
  <1>3. CASE /\ acks # NoAcks /\ CanAcknowledge(acks, a.src, a.seq)
             /\ acks' = Acknowledge(acks, a.src, a.seq)
    <2>1. senderPc \in Sending
      BY <1>3 DEF TypeInv, TypeOK, SenderTypeOK
    <2>2. CountersMatchBits(acks')
      BY <1>3, <2>1, SendingFacts, AcknowledgeCounters DEF CountersAgree
    <2>3. acks.acks \subseteq acks'.acks
      BY <1>3, <2>1, SendingFacts, AcknowledgeType
    <2> QED
      BY <1>1, <2>2, <2>3 DEF CountersAgree, NothingGivenUp
  <1> QED
    BY <1>2, <1>3 DEF ProcessAck

LEMMA NextSafetyInv ==
    ASSUME SafetyInv, [Next]_vars
    PROVE  SafetyInv'
  <1> USE DEF SafetyInv
  <1>1. TypeInv'
    BY NextTypeInv
  <1>2. CASE SenderStep
    BY <1>1, <1>2, SenderStepSafety
  <1>3. CASE \E a \in netAck : ProcessAck(a)
    BY <1>1, <1>3, ProcessAckSafety
  <1>4. CASE UNCHANGED <<acks, cur, seqQueue, senderPc, returnStatus>>
    BY <1>1, <1>4, AcksUnchanged
  <1>5. ASSUME NEW m \in Message, Produce(m) \/ RequestShutdown(m)
        PROVE  UNCHANGED <<acks, cur, seqQueue, senderPc, returnStatus>>
    BY <1>5 DEF Produce, RequestShutdown, senderVars
  <1>6. ASSUME StopSender \/ Tick \/ AckProcessorExits
        PROVE  UNCHANGED <<acks, cur, seqQueue, senderPc, returnStatus>>
    BY <1>6 DEF StopSender, Tick, AckProcessorExits, senderVars
  <1>7. ASSUME NEW w \in Member, MemberStep(w)
        PROVE  UNCHANGED <<acks, cur, seqQueue, senderPc, returnStatus>>
    <2>1. ASSUME HandleStep(w) \/ Consume(w) \/ StopReceiver(w)
          PROVE  UNCHANGED <<acks, senderVars>>
      BY <2>1 DEF HandleStep, ProcessAborts, StorePacket, DeliverMessage,
         DiscardMessage, RecordReceived, SendWholeAck, Consume, StopReceiver
    <2>2. ASSUME NEW p \in netData[w], ReceiveStep(w, p) \/ AckFails(w, p)
          PROVE  UNCHANGED <<acks, senderVars>>
      BY <2>2 DEF ReceiveStep, ReceiveCommand, ReceiveResent, ReceiveNew, AckFails
    <2> QED
      BY <1>7, <2>1, <2>2 DEF MemberStep, senderVars
  <1>8. ASSUME NetworkStep
        PROVE  UNCHANGED <<acks, cur, seqQueue, senderPc, returnStatus>>
    BY <1>8 DEF NetworkStep, LoseData, LoseAck, senderVars
  <1>9. ASSUME UNCHANGED vars
        PROVE  UNCHANGED <<acks, cur, seqQueue, senderPc, returnStatus>>
    BY <1>9 DEF vars, senderVars
  <1> QED
    BY <1>2, <1>3, <1>4, <1>5, <1>6, <1>7, <1>8, <1>9
       DEF Next, HostStep, MasterStep

LEMMA SpecSafetyInv == Spec => []SafetyInv
  BY InitSafetyInv, NextSafetyInv, PTL DEF Spec

\* The counters of eddl_message_acks are right for every set of workers, every
\* message and however often acknowledgements are repeated.
THEOREM CountersAlwaysAgree == Spec => []CountersAgree
  <1>1. SafetyInv => CountersAgree
    BY DEF SafetyInv
  <1> QED
    BY <1>1, SpecSafetyInv, PTL

\* A packet leaves seq_no_queue only when every worker has acknowledged it.
THEOREM NothingIsGivenUp == Spec => []NothingGivenUp
  <1>1. SafetyInv => NothingGivenUp
    BY DEF SafetyInv
  <1> QED
    BY <1>1, SpecSafetyInv, PTL

\* send_message() fails only after an exception or because it was stopped:
\* otherwise its queue is empty, so every bit is set, so the global counter is
\* the one all_has_been_acknowledged() compares it with.
THEOREM FailuresHaveCauses == Spec => FailureHasCause
  <1> DEFINE Cause == \A m \in Message :
                outcome[m] = "none" /\ outcome'[m] = "failed" =>
                    ~ returnStatus \/ ~ senderActive
  <1>1. ASSUME SafetyInv, [Next]_vars
        PROVE  Cause
    <2>1. CASE FinishSend
      <3> SUFFICES ASSUME returnStatus, senderActive,
                          NEW m \in Message, outcome[m] = "none"
                   PROVE  outcome'[m] # "failed"
        BY DEF Cause
      <3>1. /\ senderPc = "finish" /\ senderPc \in Sending /\ seqQueue = <<>>
        BY <1>1, <2>1 DEF FinishSend, SafetyInv, TypeInv, SenderInv, Sending
      <3>2. Range(seqQueue) = {}
        BY <3>1 DEF Range
      <3>3. \A s \in PacketNumbers(SeqLen(cur)) : Worker \X {s} \subseteq acks.acks
        BY <1>1, <3>1, <3>2 DEF SafetyInv, NothingGivenUp
      <3>4. acks.acks = Worker \X PacketNumbers(SeqLen(cur))
        <4>1. acks.acks \subseteq Worker \X PacketNumbers(SeqLen(cur))
          BY <1>1, <3>1, SendingFacts DEF SafetyInv, IsAccounting
        <4> QED
          BY <3>3, <4>1
      <3>5. AllAcknowledged(acks)
        BY <1>1, <3>1, <3>4, SendingFacts, AllAcknowledgedIffAllBits
           DEF SafetyInv, CountersAgree
      <3> QED
        BY <2>1, <3>5, <1>1
           DEF FinishSend, SafetyInv, TypeInv, TypeOK, SenderTypeOK
    <2>2. CASE UNCHANGED outcome
      BY <2>2
    <2>3. ASSUME SenderStep PROVE FinishSend \/ UNCHANGED outcome
      BY <2>3 DEF SenderStep, BeginSend, OuterLoop, SendPacket, DropPacket,
         SendFails, EndBatch, SenderExits, DrainAck
    <2>4. ASSUME NEW w \in Member, MemberStep(w) PROVE UNCHANGED outcome
      <3>1. ASSUME HandleStep(w) \/ Consume(w) \/ StopReceiver(w)
            PROVE  UNCHANGED senderVars
        BY <3>1 DEF HandleStep, ProcessAborts, StorePacket, DeliverMessage,
           DiscardMessage, RecordReceived, SendWholeAck, Consume, StopReceiver
      <3>2. ASSUME NEW p \in netData[w], ReceiveStep(w, p) \/ AckFails(w, p)
            PROVE  UNCHANGED senderVars
        BY <3>2 DEF ReceiveStep, ReceiveCommand, ReceiveResent, ReceiveNew, AckFails
      <3> QED
        BY <2>4, <3>1, <3>2 DEF MemberStep, senderVars
    <2>5. ASSUME MasterStep PROVE UNCHANGED outcome
      BY <2>5 DEF MasterStep, Produce, RequestShutdown, StopSender, Tick,
         AckProcessorExits, ProcessAck, senderVars
    <2>6. ASSUME NetworkStep PROVE UNCHANGED outcome
      BY <2>6 DEF NetworkStep, LoseData, LoseAck, senderVars
    <2>7. ASSUME UNCHANGED vars PROVE UNCHANGED outcome
      BY <2>7 DEF vars, senderVars
    <2> QED
      BY <1>1, <2>1, <2>2, <2>3, <2>4, <2>5, <2>6, <2>7 DEF Next, HostStep
  <1>2. SafetyInv /\ [Next]_vars => [Cause]_vars
    BY <1>1
  <1> QED
    BY <1>2, SpecSafetyInv, PTL DEF Spec, FailureHasCause

-----------------------------------------------------------------------------
(* What the receiver puts together *)

\* A partial message is laid out by its first packet, and has pieces of data
\* messages of its id and size, each once and inside of it.
PartialOK(i, r) ==
    /\ r.size \in Nat \ {0} /\ r.packetSize \in Nat \ {0}
    /\ r.seqLen = PacketsNeeded(r.size, r.packetSize)
    /\ r.isData => r.packetSize <= PacketSize
    /\ IsFiniteSet(r.pieces)
    /\ \A p \in r.pieces :
          /\ p.from \in Message \ Command /\ IdOf[p.from] = i
          /\ SizeOf[p.from] = r.size
          /\ p.seq < r.seqLen /\ p.at = p.seq * r.packetSize
          /\ p.seq < r.seqLen - 1 => r.packetSize = DataSize(p.from, p.seq)
    /\ \A p, q \in r.pieces : p.seq = q.seq => p = q
    /\ r.checksum # NoMessage => IdOf[r.checksum] = i

\* What waits for more packets is not complete.
MemberReassembly(w) ==
    /\ rxPc[w] \in Handling => ~ IsCommandPacket(hand[w])
    /\ \A i \in DOMAIN active[w] :
          PartialOK(i, active[w][i]) /\ ~ IsComplete(active[w][i])

ReassemblyInv == \A w \in Member : MemberReassembly(w)

\* A message that fits in a packet needs one.
LEMMA OnePacket ==
    ASSUME NEW n \in Nat \ {0}, NEW d \in Nat \ {0}
    PROVE  PacketsNeeded(n, d) = 1 <=> n <= d
  <1> DEFINE q == n \div d
             r == n % d
  <1>1. q \in Nat /\ r \in 0 .. d - 1 /\ n = d * q + r
    BY Division
  <1>2. PacketsNeeded(n, d) = q + (IF r # 0 THEN 1 ELSE 0)
    BY DEF PacketsNeeded
  <1> HIDE DEF q, r
  <1>3. CASE q = 0
    BY <1>1, <1>2, <1>3
  <1>4. CASE q = 1
    BY <1>1, <1>2, <1>4
  <1>5. CASE q > 1
    <2>1. d * 2 <= d * q
      BY <1>1, <1>5, ProductMonotone
    <2> QED
      BY <1>1, <1>2, <1>5, <2>1
  <1> QED
    BY <1>1, <1>3, <1>4, <1>5

LEMMA NewPartialOK ==
    ASSUME NEW m \in Message, NEW s \in PacketNumbers(SeqLen(m))
    PROVE  PartialOK(IdOf[m], NewPartial(m, s))
  <1>1. DataSize(m, s) \in Nat \ {0} /\ SizeOf[m] \in Nat \ {0}
    BY DataSizeType, SizesAreValid
  <1>2. ~ IsChecksum(m, s) => DataSize(m, s) <= PacketSize
    <2>1. s \in Nat /\ PacketSize \in Nat
      BY SeqLenType, SizesAreValid DEF PacketNumbers
    <2>2. SizeOf[m] - PacketSize * s \in Int
      BY <1>1, <2>1
    <2> QED
      BY <2>1, <2>2 DEF DataSize, Least
  <1>3. IsFiniteSet({})
    BY FS_EmptySet
  <1> QED
    BY <1>1, <1>2, <1>3 DEF NewPartial, PartialOK

LEMMA AddPieceOK ==
    ASSUME NEW m \in Message \ Command, NEW s \in Nat,
           NEW r \in PartialMessage, PartialOK(IdOf[m], r), ~ Rejects(r, m, s)
    PROVE  PartialOK(IdOf[m], AddPiece(r, m, s))
  <1>1. CASE Added(r, s)
    BY <1>1 DEF AddPiece
  <1>2. CASE ~ Added(r, s)
    <2> DEFINE new == [seq |-> s, from |-> m, at |-> s * r.packetSize]
               a   == AddPiece(r, m, s)
    <2>1. /\ a.pieces = r.pieces \cup {new}
          /\ a.size = r.size /\ a.packetSize = r.packetSize /\ a.seqLen = r.seqLen
          /\ a.isData = r.isData /\ a.checksum = r.checksum
      BY <1>2 DEF AddPiece, PartialMessage
    <2>2. IsFiniteSet(a.pieces)
      <3>1. \A x : IsFiniteSet(r.pieces \cup {x})
        BY FS_AddElement DEF PartialOK
      <3> HIDE DEF new, a
      <3> QED
        BY <2>1, <3>1
    <2>3. /\ new.seq = s /\ new.from = m /\ new.at = s * r.packetSize
          /\ s < r.seqLen /\ r.size = SizeOf[m]
          /\ s < r.seqLen - 1 => r.packetSize = DataSize(m, s)
      BY <1>2 DEF Rejects, PartialMessage
    <2>4. \A p \in r.pieces : p.seq # s
      BY <1>2 DEF Added
    <2> HIDE DEF new, a
    <2>5. \A p \in a.pieces :
             /\ p.from \in Message \ Command /\ IdOf[p.from] = IdOf[m]
             /\ SizeOf[p.from] = a.size
             /\ p.seq < a.seqLen /\ p.at = p.seq * a.packetSize
             /\ p.seq < a.seqLen - 1 => a.packetSize = DataSize(p.from, p.seq)
      BY <2>1, <2>3 DEF PartialOK
    <2>6. \A p, q \in a.pieces : p.seq = q.seq => p = q
      BY <2>1, <2>3, <2>4 DEF PartialOK
    <2>7. PartialOK(IdOf[m], a)
      BY <2>1, <2>2, <2>5, <2>6 DEF PartialOK
    <2> QED
      BY <2>7 DEF a
  <1> QED
    BY <1>1, <1>2

LEMMA SetChecksumOK ==
    ASSUME NEW m \in Message, NEW r \in PartialMessage, PartialOK(IdOf[m], r)
    PROVE  PartialOK(IdOf[m], SetChecksum(r, m))
  <1>1. CASE r.checksum = NoMessage
    <2> DEFINE a == SetChecksum(r, m)
    <2>1. /\ a.pieces = r.pieces /\ a.size = r.size /\ a.packetSize = r.packetSize
          /\ a.seqLen = r.seqLen /\ a.isData = r.isData /\ a.checksum = m
      BY <1>1 DEF SetChecksum, PartialMessage
    <2> HIDE DEF a
    <2>2. PartialOK(IdOf[m], a)
      BY <2>1 DEF PartialOK
    <2> QED
      BY <2>2 DEF a
  <1>2. CASE r.checksum # NoMessage
    BY <1>2 DEF SetChecksum
  <1> QED
    BY <1>1, <1>2

LEMMA PartialAfterOK ==
    ASSUME TypeInv, NEW w \in Member, MemberReassembly(w), rxPc[w] = "process"
    PROVE  /\ Partial(w) \in PartialMessage /\ PartialOK(HandId(w), Partial(w))
           /\ PartialAfter(w) \in PartialMessage
           /\ ~ Refused(w) => PartialOK(HandId(w), PartialAfter(w))
  <1>1. /\ InHand(w) \in Message /\ hand[w].seq \in Nat
        /\ hand[w].seq \in PacketNumbers(SeqLen(InHand(w)))
        /\ Partial(w) \in PartialMessage /\ PartialAfter(w) \in PartialMessage
    BY HandType, PartialType DEF TypeInv, TypeOK, Handling
  <1>2. PartialOK(HandId(w), Partial(w))
    <2>1. CASE HandId(w) \in DOMAIN active[w]
      BY <2>1 DEF Partial, MemberReassembly
    <2>2. CASE HandId(w) \notin DOMAIN active[w]
      BY <1>1, <2>2, NewPartialOK DEF Partial, HandId
    <2> QED
      BY <2>1, <2>2
  <1>3. ASSUME ~ Refused(w) PROVE PartialOK(HandId(w), PartialAfter(w))
    <2>1. CASE CarriesChecksum(w)
      BY <1>1, <1>2, <2>1, SetChecksumOK DEF PartialAfter, HandId
    <2>2. CASE ~ CarriesChecksum(w)
      <3>1. InHand(w) \in Message \ Command
        BY <1>1, <2>2 DEF MemberReassembly, IsCommandPacket, CarriesChecksum, Handling,
                          InHand
      <3> QED
        BY <1>1, <1>2, <1>3, <2>2, <3>1, AddPieceOK DEF PartialAfter, HandId, Refused
    <2> QED
      BY <2>1, <2>2
  <1> QED
    BY <1>1, <1>2, <1>3

\* As many pieces as packets: every place is taken.
LEMMA EveryPlaceTaken ==
    ASSUME NEW i, NEW r \in PartialMessage, PartialOK(i, r), Cardinality(r.pieces) = r.seqLen
    PROVE  \A s \in 0 .. r.seqLen - 1 : \E p \in r.pieces : p.seq = s
  <1> DEFINE places == 0 .. r.seqLen - 1
             taken  == {p.seq : p \in r.pieces}
             seqOf  == [p \in r.pieces |-> p.seq]
  <1>1. r.seqLen \in Nat /\ IsFiniteSet(r.pieces)
    BY DEF PartialMessage, PartialOK
  <1>2. \A p \in r.pieces : p.seq \in Nat
    BY DEF PartialMessage
  <1>3. taken \subseteq places
    BY <1>1, <1>2 DEF PartialOK
  <1>4. seqOf \in Bijection(r.pieces, taken)
    <2>1. seqOf \in [r.pieces -> taken]
      OBVIOUS
    <2>2. \A p, q \in r.pieces : seqOf[p] = seqOf[q] => p = q
      BY DEF PartialOK
    <2>3. \A s \in taken : \E p \in r.pieces : seqOf[p] = s
      OBVIOUS
    <2> QED
      BY <2>1, <2>2, <2>3 DEF Bijection, Injection, Surjection, IsInjective
  <1>5. IsFiniteSet(taken) /\ Cardinality(taken) = Cardinality(r.pieces)
    <2>1. ExistsBijection(r.pieces, taken)
      BY <1>4 DEF ExistsBijection
    <2> QED
      BY <1>1, <2>1, FS_Bijection
  <1>6. IsFiniteSet(places) /\ Cardinality(places) = r.seqLen
    BY SMTT(30), <1>1, FS_Interval
  <1> HIDE DEF places, taken, seqOf
  <1>7. taken = places
    BY <1>3, <1>5, <1>6, FS_Subset
  <1> QED
    BY <1>7 DEF places, taken

\* With its first packet in place a partial message has the layout of the
\* sender, or is a single packet.
LEMMA SenderLayout ==
    ASSUME NEW i, NEW r \in PartialMessage, PartialOK(i, r),
           NEW p \in r.pieces, p.seq = 0, r.seqLen # 1
    PROVE  r.packetSize = PacketSize /\ r.seqLen = SeqLen(p.from)
  <1>1. /\ p.from \in Message /\ p.from \notin Command /\ SizeOf[p.from] = r.size
        /\ r.size \in Nat \ {0} /\ r.packetSize \in Nat \ {0} /\ PacketSize \in Nat \ {0}
        /\ r.seqLen = PacketsNeeded(r.size, r.packetSize)
    BY SizesAreValid DEF PartialOK
  <1>2. r.seqLen \in Nat \ {0}
    BY <1>1, PacketsNeededType
  <1>3. r.packetSize = DataSize(p.from, 0)
    BY <1>2 DEF PartialOK
  <1>4. DataSize(p.from, 0) = Least(PacketSize, r.size)
    <2>1. ~ IsChecksum(p.from, 0)
      BY <1>1, SeqLenType DEF IsChecksum
    <2> QED
      BY <1>1, <2>1 DEF DataSize
  <1>5. r.packetSize # r.size
    BY <1>1, OnePacket
  <1> QED
    BY <1>1, <1>3, <1>4, <1>5 DEF Least, SeqLen

\* What is delivered is whole.
LEMMA WholeMessage ==
    ASSUME NEW i, NEW r \in PartialMessage, PartialOK(i, r),
           IsComplete(r), IsChecksumValid(r), r.isData
    PROVE  /\ r.checksum \in Message \ Command /\ IdOf[r.checksum] = i
           /\ \A s \in 0 .. SeqLen(r.checksum) - 1 :
                 [seq |-> s, from |-> r.checksum, at |-> s * PacketSize] \in r.pieces
  <1> DEFINE m == r.checksum
  <1>1. /\ r.size \in Nat \ {0} /\ r.packetSize \in Nat \ {0} /\ PacketSize \in Nat \ {0}
        /\ r.seqLen = PacketsNeeded(r.size, r.packetSize) /\ r.packetSize <= PacketSize
    BY SizesAreValid DEF PartialOK
  <1>2. r.seqLen \in Nat \ {0}
    BY <1>1, PacketsNeededType
  <1>3. \A s \in 0 .. r.seqLen - 1 : \E p \in r.pieces : p.seq = s
    BY EveryPlaceTaken DEF IsComplete
  <1>4. PICK p \in r.pieces : p.seq = 0
    BY <1>2, <1>3
  <1>5. \A q \in r.pieces : q.from = m /\ q.at = q.seq * PacketSize
    BY DEF IsChecksumValid
  <1>6. m \in Message \ Command /\ IdOf[m] = i /\ SizeOf[m] = r.size
    BY <1>4, <1>5 DEF PartialOK
  <1>7. SeqLen(m) = r.seqLen
    <2>1. CASE r.seqLen = 1
      <3>1. PacketsNeeded(r.size, r.packetSize) = 1
        BY <1>1, <2>1
      <3>2. r.size <= r.packetSize
        BY <1>1, <3>1, OnePacket
      <3>3. r.size <= PacketSize
        BY <1>1, <3>2
      <3>4. PacketsNeeded(r.size, PacketSize) = 1
        BY <1>1, <3>3, OnePacket
      <3> QED
        BY <1>6, <2>1, <3>4 DEF SeqLen
    <2>2. CASE r.seqLen # 1
      BY <1>4, <1>5, <2>2, SenderLayout
    <2> QED
      BY <2>1, <2>2
  <1>8. ASSUME NEW s \in 0 .. SeqLen(m) - 1
        PROVE  [seq |-> s, from |-> m, at |-> s * PacketSize] \in r.pieces
    <2>1. PICK q \in r.pieces : q.seq = s
      BY <1>3, <1>7, <1>8
    <2>2. q \in [seq : Nat, from : Message, at : Nat]
      BY DEF PartialMessage
    <2>3. q = [seq |-> s, from |-> m, at |-> s * PacketSize]
      BY <1>5, <2>1, <2>2
    <2> QED
      BY <2>3
  <1> QED
    BY <1>6, <1>8

-----------------------------------------------------------------------------
(* Who changes what a receiver has *)

\* Everything a member has but its flag and the count of its main thread.
Untouched(w) ==
    /\ rxPc'[w] = rxPc[w] /\ hand'[w] = hand[w] /\ active'[w] = active[w]
    /\ recent'[w] = recent[w] /\ inbox'[w] = inbox[w]

\* The receiver thread of member w makes a step.
Handles(w) == HandleStep(w) \/ (\E p \in netData[w] : ReceiveStep(w, p) \/ AckFails(w, p))

LEMMA OthersUntouched ==
    ASSUME TypeInv, NEW v \in Member, Handles(v), NEW w \in Member, w # v
    PROVE  Untouched(w) /\ consumed'[w] = consumed[w]
  <1>1. /\ DOMAIN rxPc = Member /\ DOMAIN hand = Member /\ DOMAIN active = Member
        /\ DOMAIN recent = Member /\ DOMAIN inbox = Member
    BY DEF TypeInv, TypeOK, ReceiverTypeOK
  <1>2. CASE HandleStep(v)
    BY <1>1, <1>2 DEF Untouched, HandleStep, ProcessAborts, StorePacket, DeliverMessage,
          DiscardMessage, RecordReceived, SendWholeAck, GoOn, Abort
  <1>3. ASSUME NEW p \in netData[v], ReceiveStep(v, p) \/ AckFails(v, p)
        PROVE  Untouched(w) /\ consumed'[w] = consumed[w]
    BY <1>1, <1>3 DEF Untouched, ReceiveStep, ReceiveCommand, ReceiveResent, ReceiveNew,
          AckFails, GoOn, Abort
  <1> QED
    BY <1>2, <1>3 DEF Handles

\* All other steps.
LEMMA NobodyHandles ==
    ASSUME TypeInv, [Next]_vars, \A v \in Member : ~ Handles(v), NEW w \in Member
    PROVE  Untouched(w)
  <1>1. ASSUME SenderStep \/ MasterStep \/ NetworkStep \/ UNCHANGED vars
        PROVE  UNCHANGED receiverVars
    <2>1. CASE SenderStep
      BY <2>1 DEF SenderStep, BeginSend, OuterLoop, SendPacket, DropPacket, SendFails,
                  EndBatch, FinishSend, SenderExits, DrainAck
    <2>2. CASE MasterStep
      BY <2>2 DEF MasterStep, Produce, RequestShutdown, StopSender, Tick, AckProcessorExits,
                  ProcessAck
    <2>3. CASE NetworkStep \/ UNCHANGED vars
      BY <2>3 DEF NetworkStep, LoseData, LoseAck, vars
    <2> QED
      BY <1>1, <2>1, <2>2, <2>3
  <1>2. ASSUME NEW v \in Member, MemberStep(v)
        PROVE  UNCHANGED <<rxPc, hand, active, recent, inbox>>
    <2>1. Consume(v) \/ StopReceiver(v)
      BY <1>2 DEF MemberStep, Handles
    <2> QED
      BY <2>1 DEF Consume, StopReceiver
  <1> QED
    BY <1>1, <1>2 DEF Next, HostStep, receiverVars, Untouched

\* To keep what is said of every member look at the one that makes a step.
LEMMA WhoHandles ==
    ASSUME TypeInv, [Next]_vars, NEW w \in Member
    PROVE  Untouched(w) \/ Handles(w)
  BY OthersUntouched, NobodyHandles

LEMMA InitReassembly == Init => ReassemblyInv
  BY DEF Init, ReassemblyInv, MemberReassembly, Handling

\* The cases of Verdict.
LEMMA Verdicts ==
    ASSUME NEW w
    PROVE  /\ Verdict(w) \in {"throw", "store", "discard", "deliver"}
           /\ Verdict(w) = "store" => ~ Refused(w) /\ ~ IsComplete(PartialAfter(w))
           /\ Verdict(w) = "deliver" <=> /\ ~ Refused(w) /\ IsComplete(PartialAfter(w))
                                         /\ IsChecksumValid(PartialAfter(w))
                                         /\ PartialAfter(w).isData
           /\ Verdict(w) = "discard" => /\ ~ Refused(w) /\ IsComplete(PartialAfter(w))
                                        /\ ~ IsChecksumValid(PartialAfter(w))
  BY DEF Verdict

\* What a receiver thread does to its own variables.
LEMMA NextReassembly ==
    ASSUME TypeInv, ReassemblyInv, [Next]_vars
    PROVE  ReassemblyInv'
  <1> SUFFICES ASSUME NEW w \in Member PROVE MemberReassembly(w)'
    BY DEF ReassemblyInv
  <1>1. MemberReassembly(w)
    BY DEF ReassemblyInv
  <1>2. /\ w \in DOMAIN rxPc /\ w \in DOMAIN hand /\ w \in DOMAIN active
    BY DEF TypeInv, TypeOK, ReceiverTypeOK
  <1>3. CASE Untouched(w)
    BY <1>1, <1>3 DEF Untouched, MemberReassembly
  <1>4. ASSUME NEW p \in netData[w], ReceiveStep(w, p) \/ AckFails(w, p)
        PROVE  MemberReassembly(w)'
    BY <1>1, <1>2, <1>4 DEF MemberReassembly, ReceiveStep, ReceiveCommand, ReceiveResent,
          ReceiveNew, AckFails, GoOn, Abort, Continue, Handling
  <1>5. CASE StorePacket(w)
    <2> DEFINE i == HandId(w)
               r == PartialAfter(w)
    <2>1. PartialOK(i, r) /\ ~ IsComplete(r)
      BY <1>1, <1>5, PartialAfterOK, Verdicts DEF StorePacket
    <2>2. active'[w] = WithPartial(active[w], i, r) /\ rxPc'[w] \in {"recv", "stopped"}
      BY <1>2, <1>5 DEF StorePacket, GoOn, Continue
    <2>3. PICK f, k, q : f = active[w] /\ k = i /\ q = r
      OBVIOUS
    <2>4. /\ DOMAIN WithPartial(f, k, q) = DOMAIN f \cup {k}
          /\ WithPartial(f, k, q)[k] = q
          /\ \A j \in DOMAIN f \ {k} : WithPartial(f, k, q)[j] = f[j]
      BY DEF WithPartial
    <2>5. /\ DOMAIN active'[w] = DOMAIN active[w] \cup {k} /\ active'[w][k] = q
          /\ \A j \in DOMAIN active[w] \ {k} : active'[w][j] = active[w][j]
      BY <2>2, <2>3, <2>4
    <2>6. PartialOK(k, q) /\ ~ IsComplete(q)
      BY <2>1, <2>3
    <2> HIDE DEF i, r
    <2>7. \A j \in DOMAIN active'[w] : PartialOK(j, active'[w][j]) /\ ~ IsComplete(active'[w][j])
      BY <1>1, <2>5, <2>6 DEF MemberReassembly
    <2> QED
      BY <2>2, <2>7 DEF MemberReassembly, Handling
  <1>6. CASE DeliverMessage(w) \/ DiscardMessage(w)
    <2>1. /\ active'[w] = WithoutPartial(active[w], HandId(w))
          /\ rxPc[w] = "process"
          /\ \/ rxPc'[w] \in {"recv", "stopped"}
             \/ hand'[w] = hand[w]
      BY <1>2, <1>6 DEF DeliverMessage, DiscardMessage, GoOn, Continue
    <2>2. /\ DOMAIN active'[w] \subseteq DOMAIN active[w]
          /\ \A j \in DOMAIN active'[w] : active'[w][j] = active[w][j]
      <3>1. PICK f, k : f = active[w] /\ k = HandId(w)
        OBVIOUS
      <3>2. /\ DOMAIN WithoutPartial(f, k) = DOMAIN f \ {k}
            /\ \A j \in DOMAIN f \ {k} : WithoutPartial(f, k)[j] = f[j]
        BY DEF WithoutPartial
      <3> QED
        BY <2>1, <3>1, <3>2
    <2> QED
      BY <1>1, <2>1, <2>2 DEF MemberReassembly, Handling
  <1>7. CASE ProcessAborts(w) \/ RecordReceived(w) \/ SendWholeAck(w)
    <2>1. CASE Abort(w)
      BY <1>2, <2>1 DEF Abort, MemberReassembly, Handling
    <2>2. CASE ~ Abort(w)
      BY <1>1, <1>2, <1>7, <2>2 DEF MemberReassembly, ProcessAborts, RecordReceived,
         SendWholeAck, GoOn, Continue, Handling
    <2> QED
      BY <2>1, <2>2
  <1> QED
    BY <1>3, <1>4, <1>5, <1>6, <1>7, WhoHandles DEF Handles, HandleStep

LEMMA SpecReassembly == Spec => [](TypeInv /\ ReassemblyInv)
  <1>1. Init => TypeInv /\ ReassemblyInv
    BY InitTypeInv, InitReassembly
  <1>2. TypeInv /\ ReassemblyInv /\ [Next]_vars => (TypeInv /\ ReassemblyInv)'
    BY NextTypeInv, NextReassembly
  <1> QED
    BY <1>1, <1>2, PTL DEF Spec

\* Every byte of a delivered message is in its place and of that message
\* (eddl_message::add_packet, is_message_complete, is_checksum_valid), whatever
\* the sizes, and however ids are reused and packets repeated or reordered.
THEOREM MessagesAreIntact == Spec => IntactDelivery
  <1> DEFINE Intact ==
        \A w \in Member :
          rxPc[w] = "process" /\ inbox'[w] # inbox[w] =>
              LET m == inbox'[w][Len(inbox'[w])]
              IN  \A s \in 0 .. SeqLen(m) - 1 :
                    [seq |-> s, from |-> m, at |-> s * PacketSize]
                        \in PartialAfter(w).pieces
  <1>1. ASSUME TypeInv, ReassemblyInv, [Next]_vars PROVE Intact
    <2> SUFFICES ASSUME NEW w \in Member, rxPc[w] = "process", inbox'[w] # inbox[w],
                        NEW m, m = inbox'[w][Len(inbox'[w])]
                 PROVE  \A s \in 0 .. SeqLen(m) - 1 :
                            [seq |-> s, from |-> m, at |-> s * PacketSize]
                                \in PartialAfter(w).pieces
      OBVIOUS
    <2>1. DeliverMessage(w)
      <3>1. Handles(w)
        BY <1>1, WhoHandles DEF Untouched
      <3>2. ASSUME NEW p \in netData[w] PROVE ~ ReceiveStep(w, p) /\ ~ AckFails(w, p)
        BY DEF ReceiveStep, ReceiveCommand, ReceiveResent, ReceiveNew, AckFails, Receives
      <3>3. ~ (StorePacket(w) \/ DiscardMessage(w) \/ ProcessAborts(w) \/ RecordReceived(w)
               \/ SendWholeAck(w))
        BY DEF StorePacket, DiscardMessage, ProcessAborts, RecordReceived, SendWholeAck
      <3> QED
        BY <3>1, <3>2, <3>3 DEF Handles, HandleStep
    <2>2. /\ PartialAfter(w) \in PartialMessage /\ PartialOK(HandId(w), PartialAfter(w))
          /\ IsComplete(PartialAfter(w)) /\ IsChecksumValid(PartialAfter(w))
          /\ PartialAfter(w).isData
      BY <1>1, <2>1, PartialAfterOK, Verdicts DEF DeliverMessage, ReassemblyInv
    <2>3. PICK r \in PartialMessage : r = PartialAfter(w)
      BY <2>2
    <2>4. /\ r.checksum \in Message
          /\ \A s \in 0 .. SeqLen(r.checksum) - 1 :
                [seq |-> s, from |-> r.checksum, at |-> s * PacketSize] \in r.pieces
      BY <2>2, <2>3, WholeMessage
    <2>5. inbox'[w] = Append(inbox[w], r.checksum) /\ inbox[w] \in Seq(Message)
      BY <1>1, <2>1, <2>3 DEF DeliverMessage, TypeInv, TypeOK, ReceiverTypeOK
    <2>6. m = r.checksum
      BY <2>4, <2>5, AppendProperties
    <2> QED
      BY <2>3, <2>4, <2>6
  <1>2. TypeInv /\ ReassemblyInv /\ [Next]_vars => [Intact]_vars
    BY <1>1
  <1> QED
    BY <1>2, SpecReassembly, PTL DEF Spec, IntactDelivery

-----------------------------------------------------------------------------
(* Sequences without repetitions, and what is delivered *)

NoneTwice(q) == \A i, j \in DOMAIN q : q[i] = q[j] => i = j

LEMMA AppendNoneTwice ==
    ASSUME NEW S, NEW q \in Seq(S), NEW e \in S, NoneTwice(q), e \notin Range(q)
    PROVE  NoneTwice(Append(q, e))
  <1>1. /\ Len(q) \in Nat /\ DOMAIN q = 1 .. Len(q) /\ DOMAIN Append(q, e) = 1 .. Len(q) + 1
        /\ \A i \in 1 .. Len(q) : Append(q, e)[i] = q[i]
        /\ Append(q, e)[Len(q) + 1] = e
    BY AppendProperties, LenProperties
  <1>2. \A i \in DOMAIN q : q[i] # e
    BY DEF Range
  <1>3. \A i \in 1 .. Len(q) + 1 : i \in 1 .. Len(q) \/ i = Len(q) + 1
    BY <1>1
  <1> QED
    BY <1>1, <1>2, <1>3 DEF NoneTwice

\* Which message is delivered.
LEMMA DeliveredMessage ==
    ASSUME TypeInv, NEW w \in Member, MemberReassembly(w), DeliverMessage(w)
    PROVE  \E m \in Message \ Command :
              /\ IdOf[m] = HandId(w) /\ inbox'[w] = Append(inbox[w], m)
              /\ m = PartialAfter(w).checksum
  <1>1. /\ rxPc[w] = "process" /\ ~ Refused(w) /\ IsComplete(PartialAfter(w))
        /\ IsChecksumValid(PartialAfter(w)) /\ PartialAfter(w).isData
    BY Verdicts DEF DeliverMessage
  <1>2. PICK r \in PartialMessage : r = PartialAfter(w)
    BY <1>1, PartialAfterOK
  <1>3. PartialOK(HandId(w), r)
    BY <1>1, <1>2, PartialAfterOK
  <1>4. r.checksum \in Message \ Command /\ IdOf[r.checksum] = HandId(w)
    BY <1>1, <1>2, <1>3, WholeMessage
  <1>5. inbox'[w] = Append(inbox[w], r.checksum)
    BY <1>2 DEF DeliverMessage, TypeInv, TypeOK, ReceiverTypeOK
  <1> QED
    BY <1>2, <1>4, <1>5

-----------------------------------------------------------------------------
(* The master sends messages in the order it queued them *)

\* How many messages the sender thread has taken from its queue.
Left == Len(produced) - Len(outQueue)

\* The sender is or was at work on message m.
Begun(m) == m = cur \/ outcome[m] # "none"

\* What is queued are the messages produced last, what is begun the others,
\* and none has been begun after the one being sent.
MasterInv ==
    /\ NoneTwice(produced)
    /\ mainPc = "run" => Range(produced) \cap Command = {}
    /\ Len(outQueue) <= Len(produced)
    /\ \A k \in DOMAIN outQueue : outQueue[k] = produced[Left + k]
    /\ \A m \in Message : Begun(m) => \E i \in 1 .. Left : produced[i] = m
    /\ senderPc \in Sending =>
          \A i, j \in DOMAIN produced :
             produced[i] = cur /\ outcome[produced[j]] # "none" => j < i

\* Steps of everyone else.
MasterQuiet ==
    /\ UNCHANGED <<produced, outQueue, cur, outcome>>
    /\ mainPc' = "run" => mainPc = "run"
    /\ senderPc' \in Sending => senderPc \in Sending

LEMMA MasterMoves ==
    ASSUME [Next]_vars
    PROVE  \/ BeginSend \/ FinishSend \/ MasterQuiet
           \/ \E m \in Message : Produce(m) \/ RequestShutdown(m)
  <1>1. ASSUME SenderStep PROVE BeginSend \/ FinishSend \/ MasterQuiet
    <2>1. ASSUME NEW a \in wholeAcks, DrainAck(a) PROVE MasterQuiet
      BY <2>1 DEF DrainAck, MasterQuiet, masterVars, Sending
    <2> QED
      BY <1>1, <2>1 DEF SenderStep, OuterLoop, SendPacket, DropPacket, SendFails, EndBatch,
         SenderExits, EndIteration, InBatch, MasterQuiet, masterVars, Sending
  <1>2. ASSUME MasterStep
        PROVE  MasterQuiet \/ (\E m \in Message : Produce(m) \/ RequestShutdown(m))
    <2>1. ASSUME NEW a \in netAck, ProcessAck(a) PROVE MasterQuiet
      BY <2>1 DEF ProcessAck, MasterQuiet, masterVars, senderVars
    <2>2. ASSUME StopSender \/ Tick \/ AckProcessorExits PROVE MasterQuiet
      BY <2>2 DEF StopSender, Tick, AckProcessorExits, MasterQuiet, masterVars, senderVars
    <2> QED
      BY <1>2, <2>1, <2>2 DEF MasterStep
  <1>3. ASSUME NEW v \in Member, MemberStep(v) PROVE MasterQuiet
    <2>1. ASSUME HandleStep(v) \/ Consume(v) \/ StopReceiver(v)
          PROVE  UNCHANGED <<masterVars, senderVars>>
      BY <2>1 DEF HandleStep, ProcessAborts, StorePacket, DeliverMessage, DiscardMessage,
                  RecordReceived, SendWholeAck, Consume, StopReceiver
    <2>2. ASSUME NEW p \in netData[v], ReceiveStep(v, p) \/ AckFails(v, p)
          PROVE  UNCHANGED <<masterVars, senderVars>>
      BY <2>2 DEF ReceiveStep, ReceiveCommand, ReceiveResent, ReceiveNew, AckFails
    <2> QED
      BY <1>3, <2>1, <2>2 DEF MemberStep, MasterQuiet, masterVars, senderVars
  <1>4. ASSUME NetworkStep \/ UNCHANGED vars PROVE MasterQuiet
    BY <1>4 DEF NetworkStep, LoseData, LoseAck, vars, MasterQuiet, masterVars, senderVars
  <1> QED
    BY <1>1, <1>2, <1>3, <1>4 DEF Next, HostStep

\* What is begun stays begun, and what counts as sent was so or is so now.
LEMMA BegunStays ==
    ASSUME TypeInv, [Next]_vars, NEW m \in Message
    PROVE  /\ Begun(m) => Begun(m)'
           /\ Begun(m)' => Begun(m) \/ (BeginSend /\ m = cur')
           /\ outcome[m] # "none" => outcome'[m] = outcome[m] \/ (FinishSend /\ m = cur)
  <1>1. /\ outcome \in [Message -> {"none", "sent", "failed"}]
        /\ senderPc \notin Sending => cur = NoMessage
        /\ m # NoMessage
    BY SizesAreValid DEF TypeInv, TypeOK, SenderTypeOK
  <1>2. CASE BeginSend
    BY <1>1, <1>2 DEF BeginSend, Begun, Sending
  <1>3. CASE FinishSend
    BY <1>1, <1>3 DEF FinishSend, Begun
  <1>4. CASE UNCHANGED <<cur, outcome>>
    BY <1>4 DEF Begun
  <1>5. ASSUME NEW k \in Message, Produce(k) \/ RequestShutdown(k)
        PROVE  UNCHANGED <<cur, outcome>>
    BY <1>5 DEF Produce, RequestShutdown, senderVars
  <1> QED
    BY <1>2, <1>3, <1>4, <1>5, MasterMoves DEF MasterQuiet

LEMMA InitMaster == Init => MasterInv
  <1> SUFFICES ASSUME Init PROVE MasterInv
    OBVIOUS
  <1>1. /\ produced = <<>> /\ outQueue = <<>> /\ cur = NoMessage /\ senderPc = "idle"
        /\ outcome = [m \in Message |-> "none"]
    BY DEF Init
  <1>2. Len(produced) = 0 /\ Len(outQueue) = 0 /\ DOMAIN produced = {} /\ DOMAIN outQueue = {}
    BY <1>1
  <1>3. \A m \in Message : ~ Begun(m)
    BY <1>1, SizesAreValid DEF Begun
  <1> QED
    BY <1>1, <1>2, <1>3 DEF MasterInv, NoneTwice, Sending, Range

LEMMA NextMaster ==
    ASSUME TypeInv, MasterInv, [Next]_vars
    PROVE  MasterInv'
  <1>1. /\ produced \in Seq(Message) /\ outQueue \in Seq(Message)
        /\ Len(produced) \in Nat /\ Len(outQueue) \in Nat
        /\ DOMAIN produced = 1 .. Len(produced) /\ DOMAIN outQueue = 1 .. Len(outQueue)
        /\ outcome \in [Message -> {"none", "sent", "failed"}]
        /\ Left \in Nat /\ Left + Len(outQueue) = Len(produced) /\ Left <= Len(produced)
    BY LenProperties DEF TypeInv, TypeOK, MasterTypeOK, SenderTypeOK, MasterInv, Left
  <1>2. CASE MasterQuiet
    <2>1. Left' = Left /\ \A m : Begun(m)' <=> Begun(m)
      BY <1>2 DEF MasterQuiet, Left, Begun
    <2> QED
      BY <1>2, <2>1 DEF MasterQuiet, MasterInv
  <1>3. CASE BeginSend
    <2>1. /\ outQueue # <<>> /\ cur' = Head(outQueue) /\ outQueue' = Tail(outQueue)
          /\ UNCHANGED <<mainPc, produced, outcome>>
      BY <1>3 DEF BeginSend
    <2>2. /\ Len(outQueue) >= 1 /\ Head(outQueue) = outQueue[1]
          /\ Len(outQueue') = Len(outQueue) - 1
          /\ DOMAIN outQueue' = 1 .. Len(outQueue) - 1
          /\ \A k \in 1 .. Len(outQueue) - 1 : outQueue'[k] = outQueue[k + 1]
      BY <1>1, <2>1, HeadTailProperties, EmptySeq, LenProperties
    <2>3. Left' = Left + 1 /\ Left + 1 \in 1 .. Len(produced) /\ cur' = produced[Left + 1]
      BY <1>1, <2>1, <2>2 DEF MasterInv, Left
    <2>4. ASSUME NEW k \in DOMAIN outQueue'
          PROVE  outQueue'[k] = produced'[Left' + k]
      <3>1. k + 1 \in DOMAIN outQueue /\ outQueue'[k] = outQueue[k + 1] /\ k \in Nat
        BY <1>1, <2>2
      <3>2. outQueue[k + 1] = produced[Left + (k + 1)]
        BY <3>1 DEF MasterInv
      <3>3. Left + (k + 1) = Left' + k
        BY <1>1, <2>3, <3>1
      <3> QED
        BY <2>1, <3>1, <3>2, <3>3
    <2>5. ASSUME NEW m \in Message, Begun(m)'
          PROVE  \E i \in 1 .. Left' : produced'[i] = m
      <3>1. CASE Begun(m)
        <4>1. PICK i \in 1 .. Left : produced[i] = m
          BY <3>1 DEF MasterInv
        <4>2. i \in 1 .. Left'
          BY <1>1, <2>3
        <4> QED
          BY <2>1, <4>1, <4>2
      <3>2. CASE m = cur'
        BY <1>1, <2>1, <2>3, <3>2
      <3> QED
        BY <2>5, <3>1, <3>2, BegunStays
    <2>6. ASSUME NEW i \in DOMAIN produced', NEW j \in DOMAIN produced',
                 produced'[i] = cur', outcome'[produced'[j]] # "none"
          PROVE  j < i
      <3>1. i = Left + 1
        BY <1>1, <2>1, <2>3, <2>6 DEF MasterInv, NoneTwice
      <3>2. produced[j] \in Message /\ Begun(produced[j])
        BY <1>1, <2>1, <2>6, ElementOfSeq DEF Begun
      <3>3. PICK k \in 1 .. Left : produced[k] = produced[j]
        BY <3>2 DEF MasterInv
      <3>4. k = j
        BY <1>1, <2>1, <2>6, <3>3 DEF MasterInv, NoneTwice
      <3> QED
        BY <1>1, <3>1, <3>4
    <2>7. Len(outQueue') <= Len(produced')
      BY <1>1, <2>1, <2>2
    <2> QED
      BY <2>1, <2>4, <2>5, <2>6, <2>7 DEF MasterInv, NoneTwice
  <1>4. CASE FinishSend
    <2>1. /\ UNCHANGED <<mainPc, produced, outQueue>> /\ senderPc' \notin Sending
      BY <1>4 DEF FinishSend, masterVars, Sending
    <2>2. Left' = Left
      BY <2>1 DEF Left
    <2>3. \A m \in Message : Begun(m)' => Begun(m)
      <3>1. ~ BeginSend
        BY <1>4 DEF BeginSend, FinishSend
      <3> QED
        BY <3>1, BegunStays
    <2> QED
      BY <2>1, <2>2, <2>3 DEF MasterInv
  <1>5. ASSUME NEW m \in Message, Produce(m) \/ RequestShutdown(m)
        PROVE  MasterInv'
    <2>1. /\ mainPc = "run" /\ m \notin Range(produced)
          /\ produced' = Append(produced, m) /\ UNCHANGED <<cur, outcome, senderPc>>
      BY <1>5 DEF Produce, RequestShutdown, MasterInv, senderVars
    <2>2. /\ Len(produced') = Len(produced) + 1 /\ DOMAIN produced' = 1 .. Len(produced) + 1
          /\ \A k \in 1 .. Len(produced) : produced'[k] = produced[k]
          /\ produced'[Len(produced) + 1] = m
          /\ Range(produced') = Range(produced) \cup {m}
      BY <1>1, <2>1, AppendProperties, LenProperties, QueueAppend
    <2>3. NoneTwice(produced')
      BY <1>1, <2>1, AppendNoneTwice DEF MasterInv
    <2>4. mainPc' = "run" => Range(produced') \cap Command = {}
      BY <1>5, <2>2 DEF Produce, RequestShutdown, MasterInv
    <2>5. /\ Len(outQueue') <= Len(produced') /\ Left' \in Nat /\ Left <= Left'
          /\ \A k \in DOMAIN outQueue' : outQueue'[k] = produced'[Left' + k]
      <3>1. CASE Produce(m)
        <4>1. outQueue' = Append(outQueue, m)
          BY <3>1 DEF Produce
        <4>2. /\ Len(outQueue') = Len(outQueue) + 1
              /\ DOMAIN outQueue' = 1 .. Len(outQueue) + 1
              /\ \A k \in 1 .. Len(outQueue) : outQueue'[k] = outQueue[k]
              /\ outQueue'[Len(outQueue) + 1] = m
          BY <1>1, <4>1, AppendProperties, LenProperties
        <4>3. Left' = Left
          BY <1>1, <2>2, <4>2 DEF Left
        <4>4. ASSUME NEW k \in 1 .. Len(outQueue)
              PROVE  outQueue'[k] = produced'[Left + k]
          <5>1. outQueue[k] = produced[Left + k] /\ Left + k \in 1 .. Len(produced)
            BY <1>1 DEF MasterInv
          <5> QED
            BY <2>2, <4>2, <5>1
        <4>5. outQueue'[Len(outQueue) + 1] = produced'[Left + (Len(outQueue) + 1)]
          <5>1. Left + (Len(outQueue) + 1) = Len(produced) + 1
            BY <1>1
          <5> QED
            BY <2>2, <4>2, <5>1
        <4>6. \A k \in 1 .. Len(outQueue) + 1 : k \in 1 .. Len(outQueue) \/ k = Len(outQueue) + 1
          BY <1>1
        <4> QED
          BY <1>1, <2>2, <4>2, <4>3, <4>4, <4>5, <4>6
      <3>2. CASE RequestShutdown(m)
        <4>1. outQueue' = <<m>>
          BY <3>2 DEF RequestShutdown
        <4>2. Len(outQueue') = 1 /\ DOMAIN outQueue' = 1 .. 1 /\ outQueue'[1] = m
          BY <4>1
        <4>3. Left' = Len(produced)
          BY <1>1, <2>2, <4>2 DEF Left
        <4> QED
          BY <1>1, <2>2, <4>2, <4>3
      <3> QED
        BY <1>5, <3>1, <3>2
    <2>6. ASSUME NEW k \in Message, Begun(k)'
          PROVE  \E i \in 1 .. Left' : produced'[i] = k
      <3>1. Begun(k)
        BY <2>1, <2>6 DEF Begun
      <3>2. PICK i \in 1 .. Left : produced[i] = k
        BY <3>1 DEF MasterInv
      <3>3. i \in 1 .. Left' /\ i \in 1 .. Len(produced)
        BY <1>1, <2>5
      <3> QED
        BY <2>2, <3>2, <3>3
    <2>7. ASSUME senderPc' \in Sending, NEW i \in DOMAIN produced', NEW j \in DOMAIN produced',
                 produced'[i] = cur', outcome'[produced'[j]] # "none"
          PROVE  j < i
      <3>1. \A k \in Message : Begun(k) => k \in Range(produced)
        <4>1. 1 .. Left \subseteq DOMAIN produced
          BY <1>1
        <4> QED
          BY <4>1 DEF MasterInv, Range
      <3>2. cur \in Message /\ produced'[j] \in Message
        BY <1>1, <2>1, <2>2, <2>7, ElementOfSeq DEF TypeInv, TypeOK, SenderTypeOK
      <3>3. produced'[i] # m /\ produced'[j] # m
        BY <2>1, <2>7, <3>1, <3>2 DEF Begun
      <3>4. i \in DOMAIN produced /\ j \in DOMAIN produced
        BY <1>1, <2>2, <3>3
      <3> QED
        BY <1>1, <2>1, <2>2, <2>7, <3>4 DEF MasterInv
    <2> QED
      BY <2>3, <2>4, <2>5, <2>6, <2>7 DEF MasterInv
  <1> QED
    BY <1>2, <1>3, <1>4, <1>5, MasterMoves

-----------------------------------------------------------------------------
(* Nobody has a message before its turn *)

\* What a partial message consists of.
PartsBegun(r) == /\ r.checksum # NoMessage => Begun(r.checksum)
                 /\ \A p \in r.pieces : Begun(p.from)

\* Whatever travels, waits or was delivered is of a message that the sender has begun.
MemberBegun(w) ==
    /\ \A p \in netData[w] : Begun(p.msg)
    /\ rxPc[w] \in Handling => Begun(InHand(w))
    /\ \A m \in Delivered(w) : Begun(m)
    /\ \A i \in DOMAIN active[w] : PartsBegun(active[w][i])

BegunInv == \A w \in Member : MemberBegun(w)

LEMMA DataOrigin ==
    ASSUME TypeInv, [Next]_vars, NEW w \in Member, NEW p \in netData'[w], p \notin netData[w]
    PROVE  senderPc \in Sending /\ p.msg = cur
  <1>1. DOMAIN netData = Member
    BY DEF TypeInv, TypeOK, NetworkTypeOK
  <1>2. CASE SenderStep
    <2>1. CASE SendPacket
      <3>1. netData'[w] = Carry(netData[w], [msg |-> cur, seq |-> Head(seqQueue)])
        BY <2>1 DEF SendPacket
      <3>2. senderPc \in Sending
        BY <2>1 DEF SendPacket, InBatch, Sending
      <3> QED
        BY <3>1, <3>2 DEF Carry
    <2>2. CASE ~ SendPacket
      BY <1>2, <2>2 DEF SenderStep, BeginSend, OuterLoop, DropPacket, SendFails,
                  EndBatch, FinishSend, SenderExits, DrainAck, networkVars
    <2> QED
      BY <2>1, <2>2
  <1>3. CASE MasterStep
    BY <1>3 DEF MasterStep, Produce, RequestShutdown, StopSender, Tick, AckProcessorExits,
                ProcessAck, networkVars
  <1>4. ASSUME NetworkStep \/ UNCHANGED vars PROVE netData'[w] \subseteq netData[w]
    <2>1. ASSUME NEW v \in Member, NEW q \in netData[v], LoseData(v, q)
          PROVE  netData'[w] \subseteq netData[w]
      BY <1>1, <2>1 DEF LoseData
    <2> QED
      BY <1>4, <2>1 DEF NetworkStep, LoseAck, vars, networkVars
  <1>5. ASSUME NEW v \in Member, MemberStep(v) PROVE netData'[w] \subseteq netData[w]
    <2>1. ASSUME HandleStep(v) \/ Consume(v) \/ StopReceiver(v) PROVE UNCHANGED netData
      BY <2>1 DEF HandleStep, ProcessAborts, StorePacket, DeliverMessage, DiscardMessage,
                  RecordReceived, SendWholeAck, Consume, StopReceiver, networkVars
    <2>2. ASSUME NEW q \in netData[v], ReceiveStep(v, q) \/ AckFails(v, q)
          PROVE  netData'[w] \subseteq netData[w]
      <3>1. Receives(v, q)
        BY <2>2 DEF ReceiveStep, ReceiveCommand, ReceiveResent, ReceiveNew, AckFails
      <3>2. PICK left \in AfterDelivery(netData[v], q) :
               netData' = [netData EXCEPT ![v] = left]
        BY <3>1 DEF Receives
      <3>3. left \subseteq netData[v]
        BY <3>2, AfterDeliveryType
      <3> QED
        BY <1>1, <3>2, <3>3
    <2> QED
      BY <1>5, <2>1, <2>2 DEF MemberStep
  <1> QED
    BY <1>2, <1>3, <1>4, <1>5 DEF Next, HostStep

\* What a receiver thread changes of the master: nothing of its messages.
LEMMA HandlesKeepsMaster ==
    ASSUME NEW w, Handles(w)
    PROVE  UNCHANGED <<masterVars, senderVars>>
  <1>1. ASSUME HandleStep(w) PROVE UNCHANGED <<masterVars, senderVars>>
    BY <1>1 DEF HandleStep, ProcessAborts, StorePacket, DeliverMessage, DiscardMessage,
                RecordReceived, SendWholeAck
  <1>2. ASSUME NEW p \in netData[w], ReceiveStep(w, p) \/ AckFails(w, p)
        PROVE  UNCHANGED <<masterVars, senderVars>>
    BY <1>2 DEF ReceiveStep, ReceiveCommand, ReceiveResent, ReceiveNew, AckFails
  <1> QED
    BY <1>1, <1>2 DEF Handles

\* What enters an input queue was put together or is a command.
LEMMA NewInInbox ==
    ASSUME TypeInv, [Next]_vars, NEW w \in Member, inbox'[w] # inbox[w]
    PROVE  \/ DeliverMessage(w)
           \/ \E p \in netData[w] : /\ ReceiveCommand(w, p) /\ p.msg \in Message
                                    /\ inbox'[w] = Append(inbox[w], p.msg)
  <1>1. Handles(w) /\ w \in DOMAIN inbox
    BY WhoHandles DEF Untouched, TypeInv, TypeOK, ReceiverTypeOK
  <1>2. ASSUME NEW p \in netData[w], ReceiveStep(w, p) \/ AckFails(w, p)
        PROVE  /\ ReceiveCommand(w, p) /\ p.msg \in Message
               /\ inbox'[w] = Append(inbox[w], p.msg)
    <2>1. ReceiveCommand(w, p)
      BY <1>2 DEF ReceiveStep, ReceiveResent, ReceiveNew, AckFails
    <2> QED
      BY <1>1, <2>1, ReceivesType, PacketFields DEF ReceiveCommand, TypeInv, TypeOK
  <1>3. ASSUME HandleStep(w) PROVE DeliverMessage(w)
    BY <1>3 DEF HandleStep, ProcessAborts, StorePacket, DiscardMessage, RecordReceived,
                SendWholeAck
  <1> QED
    BY <1>1, <1>2, <1>3 DEF Handles

\* The packet in hand is of a message that was begun, and so is all it is put to.
LEMMA AfterBegun ==
    ASSUME TypeInv, NEW w \in Member, MemberReassembly(w), MemberBegun(w), rxPc[w] = "process"
    PROVE  Begun(InHand(w)) /\ PartsBegun(PartialAfter(w))
  <1>1. Begun(InHand(w)) /\ InHand(w) \in Message
    BY HandType DEF MemberBegun, TypeInv, TypeOK, Handling
  <1>2. PICK m \in Message : m = InHand(w)
    BY <1>1
  <1>3. PICK b \in PartialMessage : b = Partial(w)
    BY PartialAfterOK
  <1>4. PartsBegun(b)
    <2>1. CASE HandId(w) \in DOMAIN active[w]
      BY <1>3, <2>1 DEF Partial, MemberBegun
    <2>2. CASE HandId(w) \notin DOMAIN active[w]
      BY <1>3, <2>2 DEF Partial, NewPartial, PartsBegun
    <2> QED
      BY <2>1, <2>2
  <1>5. PICK s : s = hand[w].seq
    OBVIOUS
  <1>6. PartialAfter(w) \in {SetChecksum(b, m), AddPiece(b, m, s)}
    BY <1>2, <1>3, <1>5 DEF PartialAfter
  <1>7. PartsBegun(SetChecksum(b, m))
    <2>1. /\ SetChecksum(b, m).pieces = b.pieces
          /\ SetChecksum(b, m).checksum \in {b.checksum, m}
          /\ b.checksum # NoMessage => SetChecksum(b, m).checksum = b.checksum
      BY DEF SetChecksum, PartialMessage
    <2> QED
      BY <1>1, <1>2, <1>4, <2>1 DEF PartsBegun
  <1>8. PartsBegun(AddPiece(b, m, s))
    <2>1. PICK new : new = [seq |-> s, from |-> m, at |-> s * b.packetSize]
      OBVIOUS
    <2>2. /\ AddPiece(b, m, s).checksum = b.checksum /\ new.from = m
          /\ AddPiece(b, m, s).pieces \subseteq b.pieces \cup {new}
      BY <2>1 DEF AddPiece, PartialMessage
    <2> QED
      BY <1>1, <1>2, <1>4, <2>2 DEF PartsBegun
  <1> QED
    BY <1>1, <1>6, <1>7, <1>8

LEMMA PartsStay ==
    ASSUME TypeInv, [Next]_vars, NEW r \in PartialMessage, PartsBegun(r)
    PROVE  PartsBegun(r)'
  <1>1. /\ r.checksum # NoMessage => r.checksum \in Message
        /\ \A p \in r.pieces : p.from \in Message
    BY DEF PartialMessage
  <1>2. \A m \in Message : Begun(m) => Begun(m)'
    BY BegunStays
  <1> QED
    BY <1>1, <1>2 DEF PartsBegun

\* What becomes of the partial messages of a member.
LEMMA PartsOrigin ==
    ASSUME TypeInv, [Next]_vars, NEW w \in Member, NEW i \in DOMAIN active'[w]
    PROVE  \/ i \in DOMAIN active[w] /\ active'[w][i] = active[w][i]
           \/ StorePacket(w) /\ active'[w][i] = PartialAfter(w)
  <1>1. w \in DOMAIN active
    BY DEF TypeInv, TypeOK, ReceiverTypeOK
  <1>2. CASE StorePacket(w)
    <2>1. PICK f, k, q : f = active[w] /\ k = HandId(w) /\ q = PartialAfter(w)
      OBVIOUS
    <2>2. active'[w] = WithPartial(f, k, q)
      BY <1>1, <1>2, <2>1 DEF StorePacket
    <2>3. i \in DOMAIN f \cup {k} /\ active'[w][i] = IF i = k THEN q ELSE f[i]
      BY <2>2 DEF WithPartial
    <2> QED
      BY <1>2, <2>1, <2>3
  <1>3. CASE DeliverMessage(w) \/ DiscardMessage(w)
    <2>1. PICK f, k : f = active[w] /\ k = HandId(w)
      OBVIOUS
    <2>2. active'[w] = WithoutPartial(f, k)
      BY <1>1, <1>3, <2>1 DEF DeliverMessage, DiscardMessage
    <2>3. i \in DOMAIN f \ {k} /\ active'[w][i] = f[i]
      BY <2>2 DEF WithoutPartial
    <2> QED
      BY <2>1, <2>3
  <1>4. CASE active'[w] = active[w]
    BY <1>4
  <1>5. ASSUME Abort(w) PROVE FALSE
    BY <1>1, <1>5 DEF Abort
  <1>6. ASSUME ProcessAborts(w) \/ RecordReceived(w) \/ SendWholeAck(w)
        PROVE  active'[w] = active[w]
    BY <1>5, <1>6 DEF ProcessAborts, RecordReceived, SendWholeAck
  <1>7. ASSUME NEW p \in netData[w], ReceiveStep(w, p) \/ AckFails(w, p)
        PROVE  active'[w] = active[w]
    BY <1>5, <1>7 DEF ReceiveStep, ReceiveCommand, ReceiveResent, ReceiveNew, AckFails
  <1> QED
    BY <1>2, <1>3, <1>4, <1>6, <1>7, WhoHandles DEF Untouched, Handles, HandleStep

LEMMA NextBegun ==
    ASSUME TypeInv, ReassemblyInv, BegunInv, [Next]_vars
    PROVE  BegunInv'
  <1> SUFFICES ASSUME NEW w \in Member PROVE MemberBegun(w)'
    BY DEF BegunInv
  <1>1. /\ MemberReassembly(w) /\ MemberBegun(w) /\ inbox[w] \in Seq(Message)
        /\ w \in DOMAIN rxPc /\ w \in DOMAIN hand
        /\ netData[w] \subseteq Packet
    BY DEF ReassemblyInv, BegunInv, TypeInv, TypeOK, ReceiverTypeOK, NetworkTypeOK
  <1>2. \A m \in Message : Begun(m) => Begun(m)'
    BY BegunStays
  <1>3. ASSUME NEW p \in netData'[w] PROVE Begun(p.msg)'
    <2>1. CASE p \in netData[w]
      BY <1>1, <1>2, <2>1, PacketFields DEF MemberBegun
    <2>2. CASE p \notin netData[w]
      <3>1. p.msg = cur /\ cur \in Message
        BY <2>2, DataOrigin DEF TypeInv, TypeOK, SenderTypeOK
      <3> QED
        BY <1>2, <3>1 DEF Begun
    <2> QED
      BY <2>1, <2>2
  <1>4. rxPc'[w] \in Handling => Begun(InHand(w))'
    <2>1. ASSUME rxPc[w] \in Handling, hand'[w] = hand[w]
          PROVE  Begun(InHand(w))'
      <3>1. PICK m \in Message : m = InHand(w) /\ Begun(m)
        BY <1>1, <2>1, HandType DEF MemberBegun, TypeInv, TypeOK
      <3>2. InHand(w)' = m
        BY <2>1, <3>1 DEF InHand
      <3> QED
        BY <1>2, <3>1, <3>2 DEF Begun
    <2>2. CASE Untouched(w)
      BY <2>1, <2>2 DEF Untouched
    <2>3. CASE HandleStep(w)
      <3>1. rxPc[w] \in Handling
        BY <2>3 DEF HandleStep, ProcessAborts, StorePacket, DeliverMessage, DiscardMessage,
                    RecordReceived, SendWholeAck, Handling
      <3>2. rxPc'[w] \in Handling => hand'[w] = hand[w]
        BY <1>1, <2>3 DEF HandleStep, ProcessAborts, StorePacket, DeliverMessage,
           DiscardMessage, RecordReceived, SendWholeAck, Handling, GoOn, Abort, Continue
      <3> QED
        BY <2>1, <3>1, <3>2
    <2>4. ASSUME NEW p \in netData[w], ReceiveStep(w, p) \/ AckFails(w, p),
                 rxPc'[w] \in Handling
          PROVE  Begun(InHand(w))'
      <3>1. ReceiveNew(w, p)
        BY <1>1, <2>4 DEF ReceiveStep, ReceiveCommand, ReceiveResent, AckFails, GoOn, Abort,
                          Continue, Handling
      <3>2. InHand(w)' = p.msg /\ p.msg \in Message /\ Begun(p.msg)
        BY <1>1, <3>1, PacketFields DEF ReceiveNew, InHand, MemberBegun
      <3>3. PICK m \in Message : m = p.msg
        BY <3>2
      <3> QED
        BY <1>2, <3>2, <3>3 DEF Begun
    <2> QED
      BY <2>2, <2>3, <2>4, WhoHandles DEF Handles
  <1>5. ASSUME NEW m \in Delivered(w)' PROVE Begun(m)'
    <2>1. CASE inbox'[w] = inbox[w]
      <3>1. m \in Delivered(w)
        BY <2>1 DEF Delivered
      <3>2. m \in Message
        BY <1>1, <3>1, LenProperties, ElementOfSeq DEF Delivered, Range
      <3> QED
        BY <1>1, <1>2, <3>1, <3>2 DEF MemberBegun
    <2>2. CASE inbox'[w] # inbox[w]
      <3>1. PICK k \in Message : inbox'[w] = Append(inbox[w], k) /\ Begun(k)
        <4>1. CASE DeliverMessage(w)
          <5>1. PICK m2 \in Message : /\ inbox'[w] = Append(inbox[w], m2)
                                      /\ m2 = PartialAfter(w).checksum
            BY <1>1, <4>1, DeliveredMessage
          <5>2. PartsBegun(PartialAfter(w))
            BY <1>1, <4>1, AfterBegun DEF DeliverMessage
          <5>3. m2 # NoMessage
            BY SizesAreValid
          <5> QED
            BY <5>1, <5>2, <5>3 DEF PartsBegun
        <4>2. CASE ~ DeliverMessage(w)
          BY <1>1, <2>2, <4>2, NewInInbox DEF MemberBegun
        <4> QED
          BY <4>1, <4>2
      <3>2. Delivered(w)' = Delivered(w) \cup {k}
        BY <1>1, <3>1, QueueAppend DEF Delivered
      <3>3. Delivered(w) \subseteq Message
        BY <1>1, LenProperties, ElementOfSeq DEF Delivered, Range
      <3> QED
        BY <1>1, <1>2, <3>1, <3>2, <3>3 DEF MemberBegun
    <2> QED
      BY <2>1, <2>2
  <1>6. ASSUME NEW i \in DOMAIN active'[w] PROVE PartsBegun(active[w][i])'
    <2>1. PICK r : r = active'[w][i]
      OBVIOUS
    <2>2. r \in PartialMessage /\ PartsBegun(r)
      <3>1. CASE i \in DOMAIN active[w] /\ active'[w][i] = active[w][i]
        BY <1>1, <2>1, <3>1 DEF MemberBegun, TypeInv, TypeOK, ReceiverTypeOK
      <3>2. CASE StorePacket(w) /\ active'[w][i] = PartialAfter(w)
        BY <1>1, <2>1, <3>2, PartialAfterOK, AfterBegun DEF StorePacket
      <3> QED
        BY <3>1, <3>2, PartsOrigin
    <2>3. PartsBegun(r)'
      BY <2>2, PartsStay
    <2> QED
      BY <2>1, <2>3 DEF PartsBegun
  <1> QED
    BY <1>3, <1>4, <1>5, <1>6 DEF MemberBegun

LEMMA InitBegun == Init => BegunInv
  BY DEF Init, BegunInv, MemberBegun, Handling, Delivered, Range

-----------------------------------------------------------------------------
(* Acknowledgements tell the truth when no two messages share an id *)

\* No two of the messages that were queued so far have one id.
IdsDiffer == \A m, k \in Range(produced) : IdOf[m] = IdOf[k] => m = k

\* What follows for the messages that are on their way or have been.
BegunIdsDiffer == \A m, k \in Message : Begun(m) /\ Begun(k) /\ IdOf[m] = IdOf[k] => m = k

LEMMA IdsOfBegun ==
    ASSUME TypeInv, MasterInv, IdsDiffer
    PROVE  BegunIdsDiffer
  <1>1. /\ produced \in Seq(Message) /\ DOMAIN produced = 1 .. Len(produced)
        /\ 1 .. Left \subseteq DOMAIN produced
    BY LenProperties DEF TypeInv, TypeOK, MasterTypeOK, MasterInv, Left
  <1>2. \A m \in Message : Begun(m) => m \in Range(produced)
    BY <1>1 DEF MasterInv, Range
  <1> QED
    BY <1>2 DEF IdsDiffer, BegunIdsDiffer

\* A complete message is then never discarded.
LEMMA NothingDiscarded ==
    ASSUME BegunIdsDiffer, TypeInv, NEW w \in Member, MemberReassembly(w), MemberBegun(w),
           rxPc[w] = "process", ~ Refused(w), IsComplete(PartialAfter(w))
    PROVE  PartialAfter(w).checksum = InHand(w) /\ IsChecksumValid(PartialAfter(w))
  <1>1. PICK r \in PartialMessage : r = PartialAfter(w)
    BY PartialAfterOK
  <1>2. PartialOK(HandId(w), r) /\ IsComplete(r)
    BY <1>1, PartialAfterOK
  <1>3. InHand(w) \in Message /\ HandId(w) = IdOf[InHand(w)]
    BY HandType DEF TypeInv, TypeOK, Handling, HandId
  <1>0. Begun(InHand(w)) /\ PartsBegun(r)
    BY <1>1, AfterBegun
  <1>4. r.checksum = InHand(w)
    BY <1>0, <1>2, <1>3 DEF IsComplete, PartialMessage, PartialOK, PartsBegun, BegunIdsDiffer
  <1>5. \A p \in r.pieces : p.from = InHand(w)
    BY <1>0, <1>2, <1>3 DEF PartialOK, PartsBegun, BegunIdsDiffer
  <1>6. PacketSize \in Nat /\ r.seqLen \in Nat /\ \A p \in r.pieces : p.seq \in Nat
    BY SizesAreValid DEF PartialMessage
  <1>7. ASSUME NEW p \in r.pieces
        PROVE  p.at = p.seq * PacketSize
    <2>1. p.at = p.seq * r.packetSize /\ p.seq < r.seqLen /\ r.packetSize \in Nat
      BY <1>2, <1>7 DEF PartialOK
    <2>2. CASE r.seqLen = 1
      <3>1. p.seq = 0
        BY <1>6, <1>7, <2>1, <2>2
      <3> QED
        BY <1>6, <2>1, <3>1
    <2>3. CASE r.seqLen # 1
      <3>1. \A s \in 0 .. r.seqLen - 1 : \E q \in r.pieces : q.seq = s
        BY <1>2, EveryPlaceTaken DEF IsComplete
      <3>2. 0 \in 0 .. r.seqLen - 1
        BY <1>6, <1>7, <2>1
      <3>3. PICK q \in r.pieces : q.seq = 0
        BY <3>1, <3>2
      <3>4. r.packetSize = PacketSize
        BY <1>2, <2>3, <3>3, SenderLayout
      <3> QED
        BY <2>1, <3>4
    <2> QED
      BY <2>2, <2>3
  <1> QED
    BY <1>1, <1>4, <1>5, <1>7 DEF IsChecksumValid

\* A message that enters an input queue never leaves the list of the received.
LEMMA DeliveredStays ==
    ASSUME TypeInv, [Next]_vars, NEW w \in Member
    PROVE  Delivered(w) \subseteq Delivered(w)' /\ (Alive(w)' => Alive(w))
  <1>1. inbox[w] \in Seq(Message) /\ w \in DOMAIN inbox
    BY DEF TypeInv, TypeOK, ReceiverTypeOK
  <1>2. \A m \in Message : Range(inbox[w]) \subseteq Range(Append(inbox[w], m))
    BY <1>1, QueueAppend
  <1>3. CASE Untouched(w)
    BY <1>3 DEF Untouched, Delivered, Alive
  <1>4. CASE HandleStep(w)
    <2>1. rxPc[w] # "aborted"
      BY <1>4 DEF HandleStep, ProcessAborts, StorePacket, DeliverMessage, DiscardMessage,
                  RecordReceived, SendWholeAck
    <2>2. CASE DeliverMessage(w)
      <3>1. PartialAfter(w).checksum \in Message
        <4>1. PartialAfter(w) \in PartialMessage /\ IsComplete(PartialAfter(w))
          BY <2>2, PartialType, Verdicts DEF DeliverMessage, TypeInv, TypeOK, Handling
        <4> QED
          BY <4>1 DEF IsComplete, PartialMessage
      <3>2. inbox'[w] = Append(inbox[w], PartialAfter(w).checksum)
        BY <1>1, <2>2 DEF DeliverMessage
      <3> QED
        BY <1>2, <2>1, <3>1, <3>2 DEF Delivered, Alive
    <2>3. CASE ~ DeliverMessage(w)
      <3>1. inbox' = inbox
        BY <1>4, <2>3 DEF HandleStep, ProcessAborts, StorePacket, DiscardMessage,
                          RecordReceived, SendWholeAck
      <3> QED
        BY <2>1, <3>1 DEF Delivered, Alive
    <2> QED
      BY <2>2, <2>3
  <1>5. ASSUME NEW p \in netData[w], ReceiveStep(w, p) \/ AckFails(w, p)
        PROVE  Delivered(w) \subseteq Delivered(w)' /\ (Alive(w)' => Alive(w))
    <2>1. rxPc[w] # "aborted" /\ p.msg \in Message
      BY <1>5, ReceivesType, PacketFields DEF ReceiveStep, ReceiveCommand, ReceiveResent,
         ReceiveNew, AckFails, TypeInv, TypeOK
    <2>2. inbox'[w] \in {inbox[w], Append(inbox[w], p.msg)}
      BY <1>1, <1>5 DEF ReceiveStep, ReceiveCommand, ReceiveResent, ReceiveNew, AckFails
    <2> QED
      BY <1>2, <2>1, <2>2 DEF Delivered, Alive
  <1> QED
    BY <1>3, <1>4, <1>5, WhoHandles DEF Handles

\* The partial message r has packet s of message m.
Has(r, m, s) == IF IsChecksum(m, s) THEN r.checksum = m
                ELSE \E p \in r.pieces : p.seq = s /\ p.from = m

\* Nobody has taken a packet of a message that was not begun.
LEMMA TakenBegun ==
    ASSUME TypeInv, NEW w \in Member, MemberBegun(w), NEW m \in Message, NEW s, Taken(w, m, s)
    PROVE  Begun(m)
  <1>1. CASE m \in Delivered(w)
    BY <1>1 DEF MemberBegun
  <1>2. CASE rxPc[w] = "process" /\ hand[w] = [msg |-> m, seq |-> s]
    BY <1>2 DEF MemberBegun, Handling, InHand
  <1>3. ASSUME IdOf[m] \in DOMAIN active[w], Has(active[w][IdOf[m]], m, s)
        PROVE  Begun(m)
    <2>1. PICK r : r = active[w][IdOf[m]]
      OBVIOUS
    <2>2. PartsBegun(r) /\ m # NoMessage
      BY <1>3, <2>1, SizesAreValid DEF MemberBegun
    <2> QED
      BY <1>3, <2>1, <2>2 DEF PartsBegun, Has
  <1> QED
    BY <1>1, <1>2, <1>3 DEF Taken, Has

\* What waited is still there with the packet in hand added to it.
LEMMA AfterHas ==
    ASSUME BegunIdsDiffer, TypeInv, NEW w \in Member, MemberReassembly(w), MemberBegun(w),
           rxPc[w] = "process", ~ Refused(w), NEW m \in Message, IdOf[m] = HandId(w),
           m \notin Delivered(w), NEW s, Taken(w, m, s)
    PROVE  Has(PartialAfter(w), m, s)
  <1> DEFINE r == PartialAfter(w)
             b == Partial(w)
  <1>0. Begun(m) /\ Begun(InHand(w)) /\ PartsBegun(r)
    BY TakenBegun, AfterBegun
  <1>1. m = InHand(w)
    BY <1>0, HandType DEF TypeInv, TypeOK, Handling, HandId, BegunIdsDiffer
  <1>2. /\ b \in PartialMessage /\ r \in PartialMessage
        /\ PartialOK(IdOf[m], b) /\ PartialOK(IdOf[m], r)
    BY PartialAfterOK
  <1>3. r = IF IsChecksum(m, hand[w].seq) THEN SetChecksum(b, m)
            ELSE AddPiece(b, m, hand[w].seq)
    BY <1>1 DEF PartialAfter, CarriesChecksum
  <1>4. hand[w].seq = s \/ Has(b, m, s)
    BY DEF Taken, Partial, Has
  <1>5. m # NoMessage
    BY SizesAreValid
  <1>6. SUFFICES Has(r, m, s)
    OBVIOUS
  <1> HIDE DEF r, b
  <1>7. CASE IsChecksum(m, hand[w].seq)
    <2>1. r.pieces = b.pieces /\ r.checksum # NoMessage
      BY <1>2, <1>3, <1>5, <1>7 DEF SetChecksum, PartialMessage
    <2>2. r.checksum = m
      BY <1>0, <1>2, <2>1 DEF PartialOK, PartialMessage, PartsBegun, BegunIdsDiffer
    <2> QED
      BY <1>4, <1>7, <2>1, <2>2 DEF IsChecksum, Has
  <1>8. CASE ~ IsChecksum(m, hand[w].seq)
    <2>1. r.checksum = b.checksum /\ b.pieces \subseteq r.pieces
      BY <1>2, <1>3, <1>8 DEF AddPiece, PartialMessage
    <2>2. \E p \in r.pieces : p.seq = hand[w].seq
      <3>1. CASE Added(b, hand[w].seq)
        BY <2>1, <3>1 DEF Added
      <3>2. CASE ~ Added(b, hand[w].seq)
        <4>1. PICK new : new = [seq  |-> hand[w].seq, from |-> m,
                                at   |-> hand[w].seq * b.packetSize]
          OBVIOUS
        <4>2. r.pieces = b.pieces \cup {new} /\ new.seq = hand[w].seq
          BY <1>2, <1>3, <1>8, <3>2, <4>1 DEF AddPiece, PartialMessage
        <4> QED
          BY <4>2
      <3> QED
        BY <3>1, <3>2
    <2>3. \A p \in r.pieces : p.from = m
      BY <1>0, <1>2 DEF PartialOK, PartsBegun, BegunIdsDiffer
    <2>4. CASE IsChecksum(m, s)
      BY <1>4, <1>8, <2>1, <2>4 DEF Has
    <2>5. CASE ~ IsChecksum(m, s)
      BY <1>4, <2>1, <2>2, <2>3, <2>5 DEF Has
    <2> QED
      BY <2>4, <2>5
  <1> QED
    BY <1>7, <1>8

\* What a live worker has taken from the network it keeps, or has delivered.
LEMMA TakenStays ==
    ASSUME BegunIdsDiffer, TypeInv, ReassemblyInv, BegunInv, [Next]_vars, NEW w \in Member,
           Alive(w)', NEW m \in Message, NEW s, Taken(w, m, s)
    PROVE  Taken(w, m, s)'
  <1>1. /\ MemberReassembly(w) /\ MemberBegun(w)
        /\ w \in DOMAIN rxPc /\ w \in DOMAIN hand /\ w \in DOMAIN active
    BY DEF ReassemblyInv, BegunInv, TypeInv, TypeOK, ReceiverTypeOK
  <1>2. CASE m \in Delivered(w)
    BY <1>2, DeliveredStays DEF Taken
  <1>0. SUFFICES ASSUME m \notin Delivered(w) PROVE Taken(w, m, s)'
    BY <1>2
  <1>3. CASE Untouched(w)
    BY <1>3 DEF Untouched, Taken, Delivered
  <1>4. CASE UNCHANGED active /\ rxPc[w] # "process"
    <2>1. active'[w] = active[w]
      BY <1>4
    <2> QED
      BY <1>0, <1>4, <2>1 DEF Taken, Delivered
  <1>5. ASSUME NEW p \in netData[w], ReceiveStep(w, p) \/ AckFails(w, p)
        PROVE  Taken(w, m, s)'
    <2>1. ~ AckFails(w, p)
      BY <1>1 DEF AckFails, Abort, Alive
    <2> QED
      BY <1>4, <1>5, <2>1 DEF ReceiveStep, ReceiveCommand, ReceiveResent, ReceiveNew, Receives
  <1>6. CASE RecordReceived(w) \/ SendWholeAck(w)
    <2>1. ~ Abort(w)
      BY <1>1 DEF Abort, Alive
    <2> QED
      BY <1>4, <1>6, <2>1 DEF RecordReceived, SendWholeAck
  <1>7. CASE rxPc[w] = "process" /\ ~ Refused(w)
    <2>1. /\ InHand(w) \in Message /\ HandId(w) = IdOf[InHand(w)]
      BY <1>7, HandType DEF TypeInv, TypeOK, Handling, HandId
    <2>2. IdOf[m] = HandId(w) => Has(PartialAfter(w), m, s)
      BY <1>0, <1>1, <1>7, AfterHas
    <2>3. CASE StorePacket(w)
      <3>1. active'[w] = WithPartial(active[w], HandId(w), PartialAfter(w))
        BY <1>1, <2>3 DEF StorePacket
      <3>2. CASE IdOf[m] = HandId(w)
        <4>1. IdOf[m] \in DOMAIN active'[w] /\ active'[w][IdOf[m]] = PartialAfter(w)
          BY <3>1, <3>2 DEF WithPartial
        <4> QED
          BY <2>2, <3>2, <4>1 DEF Taken, Has
      <3>3. CASE IdOf[m] # HandId(w)
        <4>1. IdOf[m] \in DOMAIN active[w]
          BY <1>0, <3>3 DEF Taken, HandId, InHand
        <4>2. IdOf[m] \in DOMAIN active'[w] /\ active'[w][IdOf[m]] = active[w][IdOf[m]]
          BY <3>1, <3>3, <4>1 DEF WithPartial
        <4> QED
          BY <1>0, <3>3, <4>2 DEF Taken, HandId, InHand
      <3> QED
        BY <3>2, <3>3
    <2>4. CASE DeliverMessage(w)
      <3>1. inbox'[w] = Append(inbox[w], InHand(w)) /\ inbox[w] \in Seq(Message)
        BY <1>1, <1>7, <2>4, NothingDiscarded, Verdicts
           DEF DeliverMessage, TypeInv, TypeOK, ReceiverTypeOK
      <3>2. CASE IdOf[m] = HandId(w)
        <4>1. m = InHand(w)
          BY <1>1, <1>7, <2>1, <3>2, TakenBegun, AfterBegun DEF BegunIdsDiffer
        <4> QED
          BY <2>1, <3>1, <4>1, QueueAppend DEF Taken, Delivered
      <3>3. CASE IdOf[m] # HandId(w)
        <4>1. IdOf[m] \in DOMAIN active[w] /\ active'[w] = WithoutPartial(active[w], HandId(w))
          BY <1>0, <1>1, <2>4, <3>3 DEF Taken, HandId, InHand, DeliverMessage
        <4>2. IdOf[m] \in DOMAIN active'[w] /\ active'[w][IdOf[m]] = active[w][IdOf[m]]
          BY <3>3, <4>1 DEF WithoutPartial
        <4> QED
          BY <1>0, <3>3, <4>2 DEF Taken, HandId, InHand
      <3> QED
        BY <3>2, <3>3
    <2>5. ~ DiscardMessage(w)
      BY <1>1, <1>7, NothingDiscarded, Verdicts DEF DiscardMessage
    <2>6. ~ ProcessAborts(w)
      BY <1>1 DEF ProcessAborts, Abort, Alive
    <2>7. HandleStep(w) => Taken(w, m, s)'
      BY <1>6, <2>3, <2>4, <2>5, <2>6 DEF HandleStep
    <2> QED
      BY <1>3, <1>5, <2>7, WhoHandles DEF Handles
  <1>8. CASE HandleStep(w)
    <2>1. ~ ProcessAborts(w)
      BY <1>1 DEF ProcessAborts, Abort, Alive
    <2>2. StorePacket(w) \/ DeliverMessage(w) \/ DiscardMessage(w)
          => rxPc[w] = "process" /\ ~ Refused(w)
      BY Verdicts DEF StorePacket, DeliverMessage, DiscardMessage
    <2> QED
      BY <1>6, <1>7, <1>8, <2>1, <2>2 DEF HandleStep
  <1> QED
    BY <1>3, <1>5, <1>8, WhoHandles DEF Handles

\* What a worker acknowledges as received, or remembers, it has received.
MemberAcks(w) ==
    /\ rxPc[w] \in {"record", "reply"} => InHand(w) \in Delivered(w)
    /\ \A i \in recent[w] : \E m \in Delivered(w) : IdOf[m] = i

WholeAcksAreReal == \A a \in wholeAcks : \E m \in Delivered(a.src) : IdOf[m] = a.id

\* Every acknowledgement is of a packet that was taken, and every bit of one of the
\* message being sent.
AcksTaken ==
    \A w \in Worker :
        Alive(w) =>
            /\ \A a \in netAck :
                  a.src = w => \E m \in Message : IdOf[m] = a.id /\ Taken(w, m, a.seq)
            /\ senderPc \in Sending =>
                  \A s : <<w, s>> \in acks.acks => Taken(w, cur, s)

AckInv == (\A w \in Member : MemberAcks(w)) /\ WholeAcksAreReal /\ AcksTaken

LEMMA MemberAcksNext ==
    ASSUME BegunIdsDiffer, TypeInv, ReassemblyInv, BegunInv, [Next]_vars, NEW w \in Member,
           MemberAcks(w)
    PROVE  MemberAcks(w)'
  <1>1. /\ w \in DOMAIN rxPc /\ w \in DOMAIN hand /\ w \in DOMAIN recent /\ w \in DOMAIN inbox
        /\ MemberReassembly(w) /\ MemberBegun(w)
        /\ inbox[w] \in Seq(Message) /\ recent[w] \subseteq Id
    BY DEF ReassemblyInv, BegunInv, TypeInv, TypeOK, ReceiverTypeOK
  <1>2. Delivered(w) \subseteq Delivered(w)'
    BY DeliveredStays
  <1>3. CASE Untouched(w)
    BY <1>3 DEF Untouched, MemberAcks, InHand, Delivered
  <1>4. ASSUME NEW p \in netData[w], ReceiveStep(w, p) \/ AckFails(w, p)
        PROVE  MemberAcks(w)'
    <2>1. rxPc'[w] \notin {"record", "reply"} /\ recent'[w] \subseteq recent[w]
      BY <1>1, <1>4 DEF ReceiveStep, ReceiveCommand, ReceiveResent, ReceiveNew, AckFails,
                        Abort, GoOn, Continue
    <2> QED
      BY <1>2, <2>1 DEF MemberAcks
  <1>5. CASE StorePacket(w) \/ DiscardMessage(w) \/ ProcessAborts(w) \/ SendWholeAck(w)
    <2>1. rxPc'[w] \notin {"record", "reply"} /\ recent'[w] \subseteq recent[w]
      BY <1>1, <1>5 DEF StorePacket, DiscardMessage, ProcessAborts, SendWholeAck,
                        Abort, GoOn, Continue
    <2> QED
      BY <1>2, <2>1 DEF MemberAcks
  <1>6. CASE DeliverMessage(w)
    <2>1. PartialAfter(w).checksum = InHand(w) /\ InHand(w) \in Message
      BY <1>1, <1>6, NothingDiscarded, Verdicts, HandType
         DEF DeliverMessage, TypeInv, TypeOK, Handling
    <2>2. inbox'[w] = Append(inbox[w], InHand(w)) /\ hand' = hand /\ recent' = recent
      BY <1>1, <1>6, <2>1 DEF DeliverMessage
    <2>3. InHand(w)' \in Delivered(w)'
      BY <1>1, <2>1, <2>2, QueueAppend DEF InHand, Delivered
    <2> QED
      BY <1>2, <2>2, <2>3 DEF MemberAcks
  <1>7. CASE RecordReceived(w)
    <2>1. Delivered(w)' = Delivered(w) /\ InHand(w) \in Delivered(w) /\ InHand(w) \in Message
      BY <1>7, HandType
         DEF RecordReceived, Delivered, MemberAcks, TypeInv, TypeOK, Handling
    <2>2. \/ rxPc'[w] = "aborted" /\ recent'[w] = {}
          \/ hand' = hand /\ recent'[w] \subseteq recent[w] \cup {IdOf[InHand(w)]}
      BY <1>1, <1>7 DEF RecordReceived, Abort, HandId
    <2>3. hand' = hand => InHand(w)' = InHand(w)
      BY DEF InHand
    <2> QED
      BY <2>1, <2>2, <2>3 DEF MemberAcks
  <1> QED
    BY <1>3, <1>4, <1>5, <1>6, <1>7, WhoHandles DEF Handles, HandleStep

\* Where acknowledgements come from.
LEMMA WholeAckOrigin ==
    ASSUME TypeInv, [Next]_vars, NEW a \in wholeAcks', a \notin wholeAcks
    PROVE  \E w \in Member : rxPc[w] = "reply" /\ a = [src |-> w, id |-> HandId(w)]
  <1>1. CASE SenderStep
    BY <1>1 DEF SenderStep, BeginSend, OuterLoop, SendPacket, DropPacket, SendFails,
                EndBatch, FinishSend, SenderExits, DrainAck, networkVars
  <1>2. CASE MasterStep
    BY <1>2 DEF MasterStep, Produce, RequestShutdown, StopSender, Tick, AckProcessorExits,
                ProcessAck, networkVars
  <1>3. CASE NetworkStep \/ UNCHANGED vars
    BY <1>3 DEF NetworkStep, LoseData, LoseAck, vars, networkVars
  <1>4. ASSUME NEW w \in Member, MemberStep(w)
        PROVE  rxPc[w] = "reply" /\ a = [src |-> w, id |-> HandId(w)]
    <2>1. CASE SendWholeAck(w)
      BY <2>1 DEF SendWholeAck
    <2>2. ASSUME HandleStep(w), ~ SendWholeAck(w) PROVE wholeAcks' = wholeAcks
      BY <2>2 DEF HandleStep, ProcessAborts, StorePacket, DeliverMessage, DiscardMessage,
                  RecordReceived, networkVars
    <2>3. ASSUME Consume(w) \/ StopReceiver(w) PROVE wholeAcks' = wholeAcks
      BY <2>3 DEF Consume, StopReceiver, networkVars
    <2>4. ASSUME NEW p \in netData[w], ReceiveStep(w, p) \/ AckFails(w, p)
          PROVE  wholeAcks' = wholeAcks
      BY <2>4 DEF ReceiveStep, ReceiveCommand, ReceiveResent, ReceiveNew, AckFails
    <2> QED
      BY <1>4, <2>1, <2>2, <2>3, <2>4 DEF MemberStep
  <1> QED
    BY <1>1, <1>2, <1>3, <1>4 DEF Next, HostStep

LEMMA NetAckOrigin ==
    ASSUME TypeInv, [Next]_vars, NEW a \in netAck', a \notin netAck
    PROVE  \E w \in Member : \E p \in netData[w] :
              (ReceiveResent(w, p) \/ ReceiveNew(w, p)) /\ a = AckOf(w, p)
  <1>1. CASE SenderStep
    BY <1>1 DEF SenderStep, BeginSend, OuterLoop, SendPacket, DropPacket, SendFails,
                EndBatch, FinishSend, SenderExits, DrainAck, networkVars
  <1>2. CASE MasterStep
    <2>1. ASSUME NEW b \in netAck, ProcessAck(b) PROVE netAck' \subseteq netAck
      BY <2>1, AfterDeliveryType DEF ProcessAck
    <2> QED
      BY <1>2, <2>1 DEF MasterStep, Produce, RequestShutdown, StopSender, Tick,
                        AckProcessorExits, networkVars
  <1>3. CASE NetworkStep \/ UNCHANGED vars
    BY <1>3 DEF NetworkStep, LoseData, LoseAck, vars, networkVars
  <1>4. ASSUME NEW w \in Member, MemberStep(w)
        PROVE  \E p \in netData[w] :
                  (ReceiveResent(w, p) \/ ReceiveNew(w, p)) /\ a = AckOf(w, p)
    <2>1. ASSUME HandleStep(w) PROVE netAck' = netAck
      BY <2>1 DEF HandleStep, ProcessAborts, StorePacket, DeliverMessage, DiscardMessage,
                  RecordReceived, SendWholeAck, networkVars
    <2>2. ASSUME Consume(w) \/ StopReceiver(w) PROVE netAck' = netAck
      BY <2>2 DEF Consume, StopReceiver, networkVars
    <2>3. ASSUME NEW p \in netData[w], ReceiveCommand(w, p) \/ AckFails(w, p)
          PROVE  netAck' = netAck
      BY <2>3 DEF ReceiveCommand, AckFails
    <2>4. ASSUME NEW p \in netData[w], ReceiveResent(w, p) \/ ReceiveNew(w, p)
          PROVE  a = AckOf(w, p)
      BY <2>4 DEF ReceiveResent, ReceiveNew, Carry
    <2> QED
      BY <1>4, <2>1, <2>2, <2>3, <2>4 DEF MemberStep, ReceiveStep
  <1> QED
    BY <1>1, <1>2, <1>3, <1>4 DEF Next, HostStep

LEMMA BitOrigin ==
    ASSUME TypeInv, [Next]_vars, senderPc' \in Sending, NEW w, NEW s,
           <<w, s>> \in acks'.acks
    PROVE  /\ senderPc \in Sending /\ acks'.id = acks.id
           /\ \/ <<w, s>> \in acks.acks
              \/ \E a \in netAck : a.src = w /\ a.seq = s /\ a.id = acks.id
              \/ \E a \in wholeAcks : a.src = w /\ a.id = acks.id
  <1>1. CASE UNCHANGED acks /\ senderPc \in Sending
    BY <1>1
  <1>2. ASSUME BeginSend \/ FinishSend PROVE FALSE
    <2>1. ~ FinishSend
      BY DEF FinishSend, Sending
    <2>2. BeginSend => acks'.acks = {}
      BY DEF BeginSend, NewAcks
    <2> QED
      BY <1>2, <2>1, <2>2
  <1>3. ASSUME NEW a \in wholeAcks, DrainAck(a)
        PROVE  /\ senderPc \in Sending /\ acks'.id = acks.id
               /\ <<w, s>> \in acks.acks \/ (a.src = w /\ a.id = acks.id)
    <2>1. /\ senderPc \in Sending
          /\ UNCHANGED acks \/ (a.id = acks.id /\ acks' = AcknowledgeWhole(acks, a.src))
      BY <1>3 DEF DrainAck, Sending
    <2>2. IsAccounting(acks, Id, Worker)
      BY <2>1 DEF TypeInv, TypeOK, SenderTypeOK
    <2>3. CASE a.id = acks.id /\ acks' = AcknowledgeWhole(acks, a.src)
      <3>1. acks'.id = acks.id /\ acks'.acks = acks.acks \cup ({a.src} \X Missing(acks, a.src))
        BY <2>2, <2>3 DEF AcknowledgeWhole, IsAccounting
      <3> QED
        BY <2>1, <2>3, <3>1
    <2> QED
      BY <2>1, <2>2, <2>3
  <1>4. ASSUME NEW a \in netAck, ProcessAck(a), acks' # acks
        PROVE  /\ senderPc \in Sending /\ acks'.id = acks.id
               /\ <<w, s>> \in acks.acks \/ (a.src = w /\ a.seq = s /\ a.id = acks.id)
    <2>1. acks # NoAcks /\ a.id = acks.id /\ acks' = Acknowledge(acks, a.src, a.seq)
      BY <1>4 DEF ProcessAck
    <2>2. IsAccounting(acks, Id, Worker) /\ senderPc \in Sending
      BY <2>1 DEF TypeInv, TypeOK, SenderTypeOK
    <2>3. acks'.id = acks.id /\ acks'.acks \subseteq acks.acks \cup {<<a.src, a.seq>>}
      BY <2>1, <2>2 DEF Acknowledge, IsAccounting
    <2> QED
      BY <2>1, <2>2, <2>3
  <1>5. ASSUME SenderStep
        PROVE  \/ BeginSend \/ FinishSend \/ (\E a \in wholeAcks : DrainAck(a))
               \/ UNCHANGED acks /\ senderPc \in Sending
               \/ senderPc' \notin Sending
    BY <1>5 DEF SenderStep, OuterLoop, SendPacket, DropPacket, SendFails, EndBatch, SenderExits,
       InBatch, Sending
  <1>6. ASSUME MasterStep 
        PROVE  \/ UNCHANGED <<acks, senderPc>>
               \/ UNCHANGED senderPc /\ (\E a \in netAck : ProcessAck(a) /\ acks' # acks)
    <2>1. ASSUME NEW a \in netAck, ProcessAck(a) PROVE UNCHANGED senderPc
      BY <2>1 DEF ProcessAck, senderVars
    <2>2. ASSUME ~ (\E a \in netAck : ProcessAck(a)) PROVE UNCHANGED <<acks, senderPc>>
      BY <1>6, <2>2 DEF MasterStep, Produce, RequestShutdown, StopSender, Tick,
                        AckProcessorExits, senderVars
    <2> QED
      BY <2>1, <2>2
  <1>7. ASSUME NetworkStep \/ UNCHANGED vars PROVE UNCHANGED <<acks, senderPc>>
    BY <1>7 DEF NetworkStep, LoseData, LoseAck, vars, senderVars
  <1>8. ASSUME NEW v \in Member, MemberStep(v) PROVE UNCHANGED <<acks, senderPc>>
    <2>1. ASSUME HandleStep(v) \/ Consume(v) \/ StopReceiver(v) PROVE UNCHANGED <<acks, senderPc>>
      BY <2>1 DEF HandleStep, ProcessAborts, StorePacket, DeliverMessage, DiscardMessage,
                  RecordReceived, SendWholeAck, Consume, StopReceiver, senderVars
    <2>2. ASSUME NEW p \in netData[v], ReceiveStep(v, p) \/ AckFails(v, p)
          PROVE  UNCHANGED <<acks, senderPc>>
      BY <2>2 DEF ReceiveStep, ReceiveCommand, ReceiveResent, ReceiveNew, AckFails, senderVars
    <2> QED
      BY <1>8, <2>1, <2>2 DEF MemberStep
  <1> QED
    BY <1>1, <1>2, <1>3, <1>4, <1>5, <1>6, <1>7, <1>8 DEF Next, HostStep

\* While a message is sent it remains the same one.
LEMMA CurStays ==
    ASSUME [Next]_vars, senderPc \in Sending, senderPc' \in Sending
    PROVE  cur' = cur
  BY MasterMoves DEF BeginSend, FinishSend, MasterQuiet, Produce, RequestShutdown,
                     senderVars, Sending

LEMMA AcksTakenNext ==
    ASSUME BegunIdsDiffer, TypeInv, ReassemblyInv, BegunInv, [Next]_vars, AckInv
    PROVE  AcksTaken'
  <1> SUFFICES ASSUME NEW w \in Worker, Alive(w)'
               PROVE  /\ \A a \in netAck' : a.src = w =>
                            \E m \in Message : IdOf[m] = a.id /\ Taken(w, m, a.seq)'
                      /\ senderPc' \in Sending =>
                            \A s : <<w, s>> \in acks'.acks => Taken(w, cur, s)'
    BY DEF AcksTaken
  <1>1. /\ w \in Member /\ Alive(w) /\ MemberBegun(w)
        /\ Delivered(w) \subseteq Message
    <2>1. w \in Member /\ Alive(w)
      BY DeliveredStays DEF Member
    <2>2. inbox[w] \in Seq(Message)
      BY <2>1 DEF TypeInv, TypeOK, ReceiverTypeOK
    <2> QED
      BY <2>1, <2>2, LenProperties, ElementOfSeq DEF BegunInv, Delivered, Range
  <1>2. \A m \in Message : \A s : Taken(w, m, s) => Taken(w, m, s)'
    BY <1>1, TakenStays
  <1>3. /\ \A a \in netAck : a.src = w =>
              \E m \in Message : IdOf[m] = a.id /\ Taken(w, m, a.seq)
        /\ senderPc \in Sending => \A s : <<w, s>> \in acks.acks => Taken(w, cur, s)
        /\ \A a \in wholeAcks : a.src = w => \E m \in Delivered(w) : IdOf[m] = a.id
        /\ \A i \in recent[w] : \E m \in Delivered(w) : IdOf[m] = i
    BY <1>1 DEF AckInv, AcksTaken, WholeAcksAreReal, MemberAcks
  <1>4. \A m \in Delivered(w) : \A s : Taken(w, m, s)
    BY DEF Taken
  <1>5. ASSUME NEW a \in netAck', a.src = w
        PROVE  \E m \in Message : IdOf[m] = a.id /\ Taken(w, m, a.seq)'
    <2>0. CASE a \in netAck
      BY <1>2, <1>3, <1>5, <2>0
    <2>1. CASE a \notin netAck
      <3>1. PICK v \in Member : \E p \in netData[v] :
                (ReceiveResent(v, p) \/ ReceiveNew(v, p)) /\ a = AckOf(v, p)
        BY <2>1, NetAckOrigin
      <3>2. PICK p \in netData[v] :
                (ReceiveResent(v, p) \/ ReceiveNew(v, p)) /\ a = AckOf(v, p)
        BY <3>1
      <3>3. v = w /\ p \in Packet /\ IdOf[p.msg] = a.id /\ a.seq = p.seq
        BY <1>5, <3>2, ReceivesType
           DEF ReceiveResent, ReceiveNew, AckOf, TypeInv, TypeOK
      <3>4. CASE ReceiveResent(v, p)
        <4>1. PICK m \in Delivered(w) : IdOf[m] = a.id
          BY <1>3, <3>3, <3>4 DEF ReceiveResent
        <4> QED
          BY <1>1, <1>2, <1>4, <4>1
      <3>5. CASE ReceiveNew(v, p)
        <4>1. hand'[w] = p /\ rxPc'[w] = "process"
          BY <1>1, <3>3, <3>5 DEF ReceiveNew, TypeInv, TypeOK, ReceiverTypeOK
        <4>2. PICK m \in Message : p \in [msg : {m}, seq : PacketNumbers(SeqLen(m))]
          BY <3>3 DEF Packet
        <4>3. p = [msg |-> m, seq |-> a.seq] /\ IdOf[m] = a.id
          BY <3>3, <4>2
        <4> QED
          BY <4>1, <4>3 DEF Taken
      <3> QED
        BY <3>2, <3>4, <3>5
    <2> QED
      BY <2>0, <2>1
  <1>6. ASSUME senderPc' \in Sending, NEW s, <<w, s>> \in acks'.acks
        PROVE  Taken(w, cur, s)'
    <2>1. /\ senderPc \in Sending /\ cur \in Message /\ cur' = cur
          /\ acks.id = IdOf[cur] /\ Begun(cur)
      BY <1>6, BitOrigin, CurStays DEF TypeInv, TypeOK, SenderTypeOK, SenderInv, Begun
    <2>2. PICK k \in Message : k = cur
      BY <2>1
    <2>3. ASSUME NEW m \in Message, IdOf[m] = acks.id, Taken(w, m, s)
          PROVE  Taken(w, k, s)
      <3>1. Begun(m)
        BY <1>1, <2>3, TakenBegun
      <3> QED
        BY <2>1, <2>2, <2>3, <3>1 DEF BegunIdsDiffer
    <2>4. \/ <<w, s>> \in acks.acks
          \/ \E a \in netAck : a.src = w /\ a.seq = s /\ a.id = acks.id
          \/ \E a \in wholeAcks : a.src = w /\ a.id = acks.id
      BY <1>6, BitOrigin
    <2>5. Taken(w, k, s)
      BY <1>1, <1>3, <1>4, <2>1, <2>2, <2>3, <2>4
    <2>6. Taken(w, k, s)'
      BY <1>2, <2>5
    <2> QED
      BY <2>1, <2>2, <2>6 DEF Taken, Delivered
  <1> QED
    BY <1>5, <1>6

LEMMA NextAckInv ==
    ASSUME BegunIdsDiffer, TypeInv, ReassemblyInv, BegunInv, [Next]_vars, AckInv
    PROVE  AckInv'
  <1>1. \A w \in Member : MemberAcks(w)'
    BY MemberAcksNext DEF AckInv
  <1>2. ASSUME NEW a \in wholeAcks'
        PROVE  \E m \in Delivered(a.src)' : IdOf[m] = a.id
    <2>1. CASE a \in wholeAcks
      <3>1. PICK m \in Delivered(a.src) : IdOf[m] = a.id
        BY <2>1 DEF AckInv, WholeAcksAreReal
      <3>2. PICK w \in Member : w = a.src
        BY <2>1 DEF TypeInv, TypeOK, NetworkTypeOK, WholeAck
      <3> QED
        BY <3>1, <3>2, DeliveredStays
    <2>2. CASE a \notin wholeAcks
      <3>1. PICK w \in Member : rxPc[w] = "reply" /\ a = [src |-> w, id |-> HandId(w)]
        BY <2>2, WholeAckOrigin
      <3>2. InHand(w) \in Delivered(w) /\ a.src = w /\ a.id = IdOf[InHand(w)]
        BY <3>1 DEF AckInv, MemberAcks, HandId
      <3>3. PICK m : m = InHand(w)
        OBVIOUS
      <3>4. m \in Delivered(w)'
        BY <3>2, <3>3, DeliveredStays
      <3> QED
        BY <3>2, <3>3, <3>4
    <2> QED
      BY <2>1, <2>2
  <1>3. WholeAcksAreReal'
    BY <1>2 DEF WholeAcksAreReal
  <1> QED
    BY <1>1, <1>3, AcksTakenNext DEF AckInv

LEMMA InitAckInv == Init => AckInv
  BY DEF Init, AckInv, MemberAcks, WholeAcksAreReal, AcksTaken, Sending

\* All messages there may be have ids of their own.
UniqueIds == \A m, k \in Message : IdOf[m] = IdOf[k] => m = k

\* No acknowledgement is made up, neither the ones on the way nor the ones the
\* sender has accounted for (MulticastReceiver::send_ack): a worker that lives
\* has the packet in its memory, or has delivered the message.
THEOREM AcksAreAlwaysReal == ASSUME UniqueIds PROVE Spec => []AcksAreReal
  <1> DEFINE IInv == TypeInv /\ ReassemblyInv /\ BegunInv /\ AckInv
  <1>1. Init => IInv
    BY InitTypeInv, InitReassembly, InitBegun, InitAckInv
  <1>2. IInv /\ [Next]_vars => IInv'
    <2>1. BegunIdsDiffer
      BY DEF UniqueIds, BegunIdsDiffer
    <2> QED
      BY <2>1, NextTypeInv, NextReassembly, NextBegun, NextAckInv
  <1>3. IInv => AcksAreReal
    <2> SUFFICES ASSUME IInv, NEW m \in Message, NEW w \in Worker, Alive(w)
                 PROVE  /\ \A a \in netAck :
                              a.src = w /\ a.id = IdOf[m] => Taken(w, m, a.seq)
                        /\ acks # NoAcks /\ acks.id = IdOf[m] =>
                              \A s : <<w, s>> \in acks.acks => Taken(w, m, s)
      BY DEF AcksAreReal
    <2>1. \A a \in netAck : a.src = w /\ a.id = IdOf[m] => Taken(w, m, a.seq)
      BY DEF AckInv, AcksTaken, UniqueIds
    <2>2. ASSUME acks # NoAcks, acks.id = IdOf[m], NEW s, <<w, s>> \in acks.acks
          PROVE  Taken(w, m, s)
      <3>1. senderPc \in Sending /\ cur \in Message /\ acks.id = IdOf[cur]
        BY <2>2 DEF TypeInv, TypeOK, SenderTypeOK, SenderInv
      <3>2. cur = m
        BY <2>2, <3>1 DEF UniqueIds
      <3> QED
        BY <2>2, <3>1, <3>2 DEF AckInv, AcksTaken
    <2> QED
      BY <2>1, <2>2
  <1> QED
    BY <1>1, <1>2, <1>3, PTL DEF Spec

-----------------------------------------------------------------------------
(* No message twice *)

\* The main threads of the workers have not popped and deleted a message that
\* their receiver threads are still at work on.  The code does not see to it
\* (MulticastReceiver::process_message pushes the message, then reads it).
NothingFreedEarly == \A w \in Member : rxPc[w] \in {"record", "reply"} => ~ Freed(w)

\* Where a worker may forget an id after an hour, no two messages have one id.
\* The code does not see to it either (set_message_id keeps 32 bits of the time).
IdsTellApart == LongRuns => IdsDiffer

\* A worker remembers what it has received.
MemberMemory(w) ==
    /\ rxPc[w] = "process" => HandId(w) \notin recent[w]
    /\ Delivered(w) \cap Command # {} => rxPc[w] \in {"stopped", "aborted"}
    /\ \A m \in Delivered(w) \ Command :
          Alive(w) => \/ IdOf[m] \in recent[w]
                      \/ rxPc[w] = "record" /\ IdOf[m] = HandId(w)

MemoryInv == \A w \in Member : MemberMemory(w) /\ NoneTwice(inbox[w])

LEMMA NextMemory ==
    ASSUME NothingFreedEarly, LongRuns => BegunIdsDiffer, TypeInv, ReassemblyInv, BegunInv,
           MemoryInv, [Next]_vars
    PROVE  MemoryInv'
  <1> SUFFICES ASSUME NEW w \in Member
               PROVE  (MemberMemory(w) /\ NoneTwice(inbox[w]))'
    BY DEF MemoryInv
  <1>1. /\ w \in DOMAIN rxPc /\ w \in DOMAIN hand /\ w \in DOMAIN recent /\ w \in DOMAIN inbox
        /\ inbox[w] \in Seq(Message)
        /\ MemberReassembly(w) /\ MemberBegun(w) /\ MemberMemory(w) /\ NoneTwice(inbox[w])
    BY DEF ReassemblyInv, BegunInv, MemoryInv, TypeInv, TypeOK, ReceiverTypeOK
  <1>2. CASE Untouched(w)
    <2>1. Delivered(w)' = Delivered(w) /\ HandId(w)' = HandId(w) /\ Alive(w)' = Alive(w)
      BY <1>2 DEF Delivered, HandId, InHand, Alive, Untouched
    <2> QED
      BY <1>1, <1>2, <2>1 DEF MemberMemory, Untouched
  <1>3. CASE Abort(w) /\ UNCHANGED inbox
    <2>1. rxPc'[w] = "aborted" /\ ~ Alive(w)' /\ Delivered(w)' = Delivered(w)
      BY <1>1, <1>3 DEF Abort, Alive, Delivered
    <2> QED
      BY <1>1, <1>3, <2>1 DEF MemberMemory
  <1>4. ASSUME NEW p \in netData[w], ReceiveStep(w, p) \/ AckFails(w, p)
        PROVE  (MemberMemory(w) /\ NoneTwice(inbox[w]))'
    <2>1. /\ rxPc[w] = "recv" /\ p.msg \in Message /\ Begun(p.msg)
      BY <1>1, <1>4, ReceivesType, PacketFields DEF ReceiveStep, ReceiveCommand, ReceiveResent,
         ReceiveNew, AckFails, TypeInv, TypeOK, MemberBegun
    <2>2. /\ Delivered(w) \cap Command = {}
          /\ \A m \in Delivered(w) : IdOf[m] \in recent[w]
      BY <1>1, <2>1 DEF MemberMemory, Alive
    <2>3. CASE ReceiveCommand(w, p)
      <3>1. /\ inbox'[w] = Append(inbox[w], p.msg) /\ p.msg \in Command
            /\ rxPc'[w] = "stopped" /\ UNCHANGED recent
        BY <1>1, <2>3 DEF ReceiveCommand, IsCommandPacket
      <3>2. Delivered(w)' = Delivered(w) \cup {p.msg}
        BY <1>1, <2>1, <3>1, QueueAppend DEF Delivered
      <3>3. NoneTwice(inbox'[w])
        BY <1>1, <2>1, <2>2, <3>1, AppendNoneTwice DEF Delivered
      <3>4. \A m \in Delivered(w)' \ Command : IdOf[m] \in recent'[w]
        BY <2>2, <3>1, <3>2
      <3> QED
        BY <3>1, <3>2, <3>3, <3>4 DEF MemberMemory
    <2>4. CASE ReceiveResent(w, p)
      <3>1. /\ rxPc'[w] \in {"recv", "stopped"} /\ UNCHANGED inbox
            /\ \/ recent'[w] = recent[w]
               \/ /\ LongRuns /\ p.msg \notin Delivered(w)
                  /\ recent'[w] = recent[w] \ {IdOf[p.msg]}
        BY <1>1, <2>4 DEF ReceiveResent, GoOn, Continue
      <3>2. Delivered(w)' = Delivered(w) /\ Delivered(w) \subseteq Message
        BY <1>1, <3>1, LenProperties, ElementOfSeq DEF Delivered, Range
      <3>3. \A m \in Delivered(w) : IdOf[m] \in recent'[w]
        <4>1. ASSUME LongRuns, p.msg \notin Delivered(w), NEW m \in Delivered(w)
              PROVE  IdOf[m] # IdOf[p.msg]
          BY <1>1, <2>1, <3>2, <4>1 DEF MemberBegun, BegunIdsDiffer
        <4> QED
          BY <2>2, <3>1, <3>2, <4>1
      <3> QED
        BY <1>1, <2>1, <2>2, <3>1, <3>2, <3>3 DEF MemberMemory
    <2>5. CASE ReceiveNew(w, p)
      <3>1. /\ rxPc'[w] = "process" /\ hand'[w] = p /\ UNCHANGED <<recent, inbox>>
            /\ IdOf[p.msg] \notin recent[w]
        BY <1>1, <2>5 DEF ReceiveNew
      <3>2. Delivered(w)' = Delivered(w) /\ HandId(w)' = IdOf[p.msg]
        BY <3>1 DEF Delivered, HandId, InHand
      <3> QED
        BY <1>1, <2>1, <2>2, <3>1, <3>2 DEF MemberMemory
    <2>6. CASE AckFails(w, p)
      BY <1>3, <2>6 DEF AckFails
    <2> QED
      BY <1>4, <2>3, <2>4, <2>5, <2>6 DEF ReceiveStep
  <1>5. CASE StorePacket(w) \/ DiscardMessage(w) \/ SendWholeAck(w)
    <2>1. /\ rxPc[w] \in {"process", "reply"} /\ UNCHANGED inbox
          /\ Delivered(w)' = Delivered(w)
          /\ \/ rxPc'[w] \in {"recv", "stopped"} /\ recent' = recent
             \/ Abort(w)
      BY <1>1, <1>5 DEF StorePacket, DiscardMessage, SendWholeAck, GoOn, Continue, Delivered
    <2>2. CASE rxPc'[w] \in {"recv", "stopped"} /\ recent' = recent
      <3>1. \A m \in Delivered(w) \ Command : IdOf[m] \in recent[w]
        BY <1>1, <2>1 DEF MemberMemory, Alive
      <3>2. Delivered(w) \cap Command = {}
        BY <1>1, <2>1 DEF MemberMemory
      <3> QED
        BY <1>1, <2>1, <2>2, <3>1, <3>2 DEF MemberMemory
    <2> QED
      BY <1>3, <2>1, <2>2
  <1>6. CASE DeliverMessage(w)
    <2>1. PICK m \in Message \ Command :
             IdOf[m] = HandId(w) /\ inbox'[w] = Append(inbox[w], m)
      BY <1>1, <1>6, DeliveredMessage
    <2>2. /\ rxPc[w] = "process" /\ rxPc'[w] = "record"
          /\ UNCHANGED <<hand, recent>> /\ HandId(w)' = HandId(w)
      BY <1>1, <1>6 DEF DeliverMessage, HandId, InHand
    <2>3. /\ HandId(w) \notin recent[w] /\ Delivered(w) \cap Command = {}
          /\ \A k \in Delivered(w) : IdOf[k] \in recent[w]
      BY <1>1, <2>2 DEF MemberMemory, Alive
    <2>4. /\ Delivered(w)' = Delivered(w) \cup {m}
      BY <1>1, <2>1, QueueAppend DEF Delivered
    <2>5. NoneTwice(inbox'[w])
      BY <1>1, <2>1, <2>3, AppendNoneTwice DEF Delivered
    <2>6. Delivered(w)' \cap Command = {}
      BY <2>3, <2>4
    <2>7. \A k \in Delivered(w)' :
             IdOf[k] \in recent'[w] \/ (rxPc'[w] = "record" /\ IdOf[k] = HandId(w)')
      BY <2>1, <2>2, <2>3, <2>4
    <2> QED
      BY <2>2, <2>5, <2>6, <2>7 DEF MemberMemory
  <1>7. CASE RecordReceived(w)
    <2>1. /\ rxPc[w] = "record" /\ UNCHANGED inbox /\ Delivered(w)' = Delivered(w)
      BY <1>7 DEF RecordReceived, Delivered
    <2>2. ~ Freed(w)
      BY <2>1 DEF NothingFreedEarly
    <2>3. rxPc'[w] = "reply" /\ recent'[w] = recent[w] \cup {HandId(w)}
      BY <1>1, <1>7, <2>2 DEF RecordReceived
    <2> QED
      BY <1>1, <2>1, <2>3 DEF MemberMemory, Alive
  <1>8. CASE ProcessAborts(w)
    BY <1>3, <1>8 DEF ProcessAborts
  <1> QED
    BY <1>2, <1>4, <1>5, <1>6, <1>7, <1>8, WhoHandles DEF Handles, HandleStep

LEMMA InitMemory == Init => MemoryInv
  <1> SUFFICES ASSUME Init, NEW w \in Member PROVE MemberMemory(w) /\ NoneTwice(inbox[w])
    BY DEF MemoryInv
  <1>1. inbox[w] = <<>> /\ rxPc[w] = "recv"
    BY DEF Init
  <1>2. Delivered(w) = {} /\ DOMAIN inbox[w] = {}
    BY <1>1 DEF Delivered, Range
  <1> QED
    BY <1>1, <1>2 DEF MemberMemory, NoneTwice

\* A worker gets no message twice, whatever the networks repeat and however
\* often the sender starts again (recently_received_messages): as long as its
\* main thread does not delete a message the receiver still uses, and no id is
\* used for a second message after the first has been forgotten.
THEOREM AtMostOnceHolds ==
    Spec /\ []NothingFreedEarly /\ []IdsTellApart => []AtMostOnce
  <1> DEFINE IInv == TypeInv /\ ReassemblyInv /\ MasterInv /\ BegunInv /\ MemoryInv
  <1>1. Init => IInv
    BY InitTypeInv, InitReassembly, InitMaster, InitBegun, InitMemory
  <1>2. IInv /\ NothingFreedEarly /\ IdsTellApart /\ [Next]_vars => IInv'
    <2> SUFFICES ASSUME IInv, NothingFreedEarly, IdsTellApart, [Next]_vars PROVE IInv'
      OBVIOUS
    <2>1. LongRuns => BegunIdsDiffer
      BY IdsOfBegun DEF IdsTellApart
    <2>2. MemoryInv'
      BY <2>1, NextMemory
    <2> QED
      BY <2>2, NextTypeInv, NextReassembly, NextMaster, NextBegun
  <1>3. IInv => AtMostOnce
    BY DEF MemoryInv, NoneTwice, AtMostOnce
  <1> QED
    BY <1>1, <1>2, <1>3, PTL DEF Spec

\* With all its packets in place a message is complete.
LEMMA AllPacketsComplete ==
    ASSUME NEW m \in Message \ Command, NEW r \in PartialMessage, PartialOK(IdOf[m], r),
           \A s \in PacketNumbers(SeqLen(m)) : Has(r, m, s)
    PROVE  IsComplete(r)
  <1>1. SeqLen(m) \in Nat \ {0} /\ m # NoMessage
    BY SeqLenType, SizesAreValid
  <1>2. r.checksum = m
    <2>1. SeqLen(m) \in PacketNumbers(SeqLen(m)) /\ IsChecksum(m, SeqLen(m))
      BY <1>1 DEF PacketNumbers, IsChecksum
    <2> QED
      BY <2>1 DEF Has
  <1>3. ASSUME NEW s \in 0 .. SeqLen(m) - 1
        PROVE  \E p \in r.pieces : p.seq = s /\ p.from = m
    <2>1. s \in PacketNumbers(SeqLen(m)) /\ ~ IsChecksum(m, s)
      BY <1>1 DEF PacketNumbers, IsChecksum
    <2> QED
      BY <2>1 DEF Has
  <1>4. /\ r.seqLen \in Nat /\ IsFiniteSet(r.pieces)
        /\ \A p \in r.pieces : p.seq \in Nat /\ p.seq < r.seqLen
        /\ \A p, q \in r.pieces : p.seq = q.seq => p = q
    BY DEF PartialMessage, PartialOK
  <1>5. r.seqLen = SeqLen(m)
    <2>1. CASE r.seqLen = 1
      <3>1. ASSUME SeqLen(m) # 1 PROVE FALSE
        <4>1. 1 \in 0 .. SeqLen(m) - 1
          BY <1>1, <3>1
        <4>2. PICK p \in r.pieces : p.seq = 1
          BY <1>3, <4>1
        <4> QED
          BY <1>4, <2>1, <4>2
      <3> QED
        BY <2>1, <3>1
    <2>2. CASE r.seqLen # 1
      <3>1. 0 \in 0 .. SeqLen(m) - 1
        BY <1>1
      <3>2. PICK p \in r.pieces : p.seq = 0 /\ p.from = m
        BY <1>3, <3>1
      <3> QED
        BY <2>2, <3>2, SenderLayout
    <2> QED
      BY <2>1, <2>2
  <1> DEFINE places == 0 .. r.seqLen - 1
             seqOf  == [p \in r.pieces |-> p.seq]
  <1>6. seqOf \in Bijection(r.pieces, places)
    <2>1. seqOf \in [r.pieces -> places]
      BY <1>4
    <2>2. \A p, q \in r.pieces : seqOf[p] = seqOf[q] => p = q
      BY <1>4
    <2>3. \A s \in places : \E p \in r.pieces : seqOf[p] = s
      BY <1>3, <1>5
    <2> QED
      BY <2>1, <2>2, <2>3 DEF Bijection, Injection, Surjection, IsInjective
  <1>7. ExistsBijection(r.pieces, places)
    BY <1>6 DEF ExistsBijection
  <1>8. Cardinality(places) = r.seqLen
    <2>1. r.seqLen \in Nat
      BY <1>4
    <2> QED
      BY <2>1, FS_Interval
  <1> HIDE DEF places, seqOf
  <1>9. Cardinality(r.pieces) = r.seqLen
    BY <1>4, <1>7, <1>8, FS_Bijection
  <1> QED
    BY <1>1, <1>2, <1>9 DEF IsComplete

\* The message delivered is then the one in hand.
LEMMA DeliversInHand ==
    ASSUME BegunIdsDiffer, TypeInv, NEW w \in Member, MemberReassembly(w), MemberBegun(w),
           DeliverMessage(w)
    PROVE  /\ InHand(w) \in Message \ Command
           /\ inbox'[w] = Append(inbox[w], InHand(w))
  <1>1. /\ rxPc[w] = "process" /\ ~ Refused(w) /\ IsComplete(PartialAfter(w))
    BY Verdicts DEF DeliverMessage
  <1>2. PICK m \in Message \ Command : /\ inbox'[w] = Append(inbox[w], m)
                                       /\ m = PartialAfter(w).checksum
    BY DeliveredMessage
  <1>3. PartialAfter(w).checksum = InHand(w)
    BY <1>1, NothingDiscarded
  <1> QED
    BY <1>2, <1>3

\* A member has message m, or will have it with its next step, or is lost.
Secured(w, m) == m \in Delivered(w) \/ (Delivering(w) /\ InHand(w) = m) \/ Doomed(w)

\* A worker that has taken every packet of a message has the message.
LEMMA AllTakenSecured ==
    ASSUME BegunIdsDiffer, TypeInv, NEW w \in Member, MemberReassembly(w), MemberBegun(w),
           NEW m \in Message, \A s \in PacketNumbers(SeqLen(m)) : Taken(w, m, s)
    PROVE  Secured(w, m)
  <1> SUFFICES ASSUME m \notin Delivered(w) PROVE Secured(w, m)
    BY DEF Secured
  <1>1. /\ SeqLen(m) \in Nat \ {0}
        /\ \A i \in DOMAIN active[w] : active[w][i] \in PartialMessage
        /\ rxPc[w] \in Handling => hand[w] \in Packet
    BY SeqLenType DEF TypeInv, TypeOK, ReceiverTypeOK
  <1>2. 0 \in PacketNumbers(SeqLen(m)) /\ ~ IsChecksum(m, 0)
    BY <1>1 DEF PacketNumbers, IsChecksum
  <1>3. m \notin Command
    <2>1. SUFFICES ASSUME m \in Command PROVE FALSE
      OBVIOUS
    <2>2. Taken(w, m, 0)
      BY <1>2
    <2>3. ~ (rxPc[w] = "process" /\ hand[w] = [msg |-> m, seq |-> 0])
      BY <1>2, <2>1 DEF MemberReassembly, Handling, IsCommandPacket
    <2>4. \E p \in active[w][IdOf[m]].pieces : p.from = m /\ IdOf[m] \in DOMAIN active[w]
      BY <1>2, <2>2, <2>3 DEF Taken
    <2> QED
      BY <2>1, <2>4 DEF MemberReassembly, PartialOK
  <1>4. CASE rxPc[w] = "process" /\ InHand(w) = m
    <2>1. CASE Refused(w)
      BY <1>4, <2>1 DEF Secured, Doomed, Verdict
    <2>2. CASE ~ Refused(w)
      <3>1. IdOf[m] = HandId(w)
        BY <1>4 DEF HandId
      <3>2. \A s \in PacketNumbers(SeqLen(m)) : Has(PartialAfter(w), m, s)
        BY <1>4, <2>2, <3>1, AfterHas
      <3>3. PartialAfter(w) \in PartialMessage /\ PartialOK(IdOf[m], PartialAfter(w))
        BY <1>4, <2>2, <3>1, PartialAfterOK
      <3>4. IsComplete(PartialAfter(w))
        <4>1. PICK r \in PartialMessage : r = PartialAfter(w)
          BY <3>3
        <4> QED
          BY <1>3, <3>2, <3>3, <4>1, AllPacketsComplete
      <3>5. IsChecksumValid(PartialAfter(w))
        BY <1>4, <2>2, <3>4, NothingDiscarded
      <3>6. Verdict(w) = IF PartialAfter(w).isData THEN "deliver" ELSE "throw"
        BY <2>2, <3>4, <3>5 DEF Verdict
      <3> QED
        BY <1>4, <3>6 DEF Secured, Doomed, Delivering
    <2> QED
      BY <2>1, <2>2
  <1>5. CASE ~ (rxPc[w] = "process" /\ InHand(w) = m)
    <2>1. \A s \in PacketNumbers(SeqLen(m)) :
             IdOf[m] \in DOMAIN active[w] /\ Has(active[w][IdOf[m]], m, s)
      <3>1. \A s : ~ (rxPc[w] = "process" /\ hand[w] = [msg |-> m, seq |-> s])
        BY <1>5 DEF InHand
      <3> QED
        BY <3>1 DEF Taken, Has
    <2>2. IdOf[m] \in DOMAIN active[w]
      BY <1>2, <2>1
    <2>3. PICK r \in PartialMessage : r = active[w][IdOf[m]]
      BY <1>1, <2>2
    <2>4. PartialOK(IdOf[m], r) /\ ~ IsComplete(r)
      BY <2>2, <2>3 DEF MemberReassembly
    <2> QED
      BY <1>3, <2>1, <2>3, <2>4, AllPacketsComplete
  <1> QED
    BY <1>4, <1>5

LEMMA VerdictKept ==
    ASSUME NEW w, Untouched(w)
    PROVE  /\ InHand(w)' = InHand(w) /\ Delivered(w)' = Delivered(w)
           /\ Delivering(w)' <=> Delivering(w)
           /\ Doomed(w)' <=> Doomed(w)
  <1>1. InHand(w)' = InHand(w) /\ HandId(w)' = HandId(w) /\ Delivered(w)' = Delivered(w)
        /\ CarriesChecksum(w)' = CarriesChecksum(w)
    BY DEF Untouched, InHand, HandId, Delivered, CarriesChecksum
  <1>2. Partial(w)' = Partial(w)
    BY <1>1 DEF Partial, Untouched
  <1>3. PartialAfter(w)' = PartialAfter(w) /\ Refused(w)' = Refused(w)
    BY <1>1, <1>2 DEF PartialAfter, Refused, Untouched
  <1>4. Verdict(w)' = Verdict(w)
    BY <1>3 DEF Verdict
  <1> QED
    BY <1>1, <1>4 DEF Untouched, Delivering, Doomed, Alive

LEMMA SecuredStays ==
    ASSUME BegunIdsDiffer, TypeInv, ReassemblyInv, BegunInv, [Next]_vars, NEW w \in Member,
           NEW m \in Message, Secured(w, m)
    PROVE  Secured(w, m)'
  <1>1. /\ w \in DOMAIN rxPc /\ MemberReassembly(w) /\ MemberBegun(w)
        /\ inbox[w] \in Seq(Message)
    BY DEF ReassemblyInv, BegunInv, TypeInv, TypeOK, ReceiverTypeOK
  <1>2. CASE Untouched(w)
    BY <1>2, VerdictKept DEF Secured
  <1>3. CASE m \in Delivered(w) \/ ~ Alive(w)
    BY <1>3, DeliveredStays DEF Secured, Doomed
  <1>4. CASE Handles(w) /\ rxPc[w] = "process" /\ Verdict(w) = "throw"
    <2>1. ProcessAborts(w)
      BY <1>4 DEF Handles, HandleStep, StorePacket, DeliverMessage, DiscardMessage,
         RecordReceived, SendWholeAck, ReceiveStep, ReceiveCommand, ReceiveResent,
         ReceiveNew, AckFails, Receives
    <2> QED
      BY <1>1, <2>1 DEF ProcessAborts, Abort, Secured, Doomed, Alive
  <1>5. CASE Handles(w) /\ Delivering(w) /\ InHand(w) = m
    <2>1. DeliverMessage(w)
      BY <1>5 DEF Delivering, Handles, HandleStep, StorePacket, ProcessAborts, DiscardMessage,
         RecordReceived, SendWholeAck, ReceiveStep, ReceiveCommand, ReceiveResent,
         ReceiveNew, AckFails, Receives
    <2>2. inbox'[w] = Append(inbox[w], m)
      BY <1>1, <1>5, <2>1, DeliversInHand
    <2>3. m \in Delivered(w)'
      BY <1>1, <2>2, QueueAppend DEF Delivered
    <2> QED
      BY <2>3 DEF Secured
  <1> QED
    BY <1>2, <1>3, <1>4, <1>5, WhoHandles DEF Secured, Doomed

\* What send_message() reports as sent every worker has, or is lost.
SentInv == \A w \in Worker, m \in Message : outcome[m] = "sent" => Secured(w, m)

LEMMA FinishSecures ==
    ASSUME BegunIdsDiffer, SafetyInv, ReassemblyInv, BegunInv, AckInv, FinishSend,
           outcome'[cur] = "sent", NEW w \in Worker
    PROVE  Secured(w, cur)
  <1>1. /\ senderPc \in Sending /\ TypeInv /\ w \in Member /\ MemberReassembly(w)
        /\ MemberBegun(w) /\ outcome \in [Message -> {"none", "sent", "failed"}]
    BY DEF FinishSend, Sending, SafetyInv, Member, ReassemblyInv, BegunInv, TypeInv, TypeOK,
           SenderTypeOK
  <1>2. cur \in Message /\ acks.id = IdOf[cur] /\ IsAccounting(acks, Id, Worker)
        /\ acks.seqLen = SeqLen(cur) /\ IsFiniteSet(Worker)
    BY <1>1, SendingFacts DEF TypeInv, SenderInv
  <1>3. AllAcknowledged(acks)
    BY <1>1, <1>2 DEF FinishSend
  <1>4. acks.acks = Worker \X PacketNumbers(SeqLen(cur))
    BY <1>1, <1>2, <1>3, AllAcknowledgedIffAllBits DEF SafetyInv, CountersAgree
  <1>5. CASE Alive(w)
    <2>1. \A s \in PacketNumbers(SeqLen(cur)) : Taken(w, cur, s)
      BY <1>1, <1>2, <1>4, <1>5 DEF AckInv, AcksTaken
    <2>2. PICK m \in Message : m = cur
      BY <1>2
    <2> QED
      BY <1>1, <2>1, <2>2, AllTakenSecured
  <1>6. CASE ~ Alive(w)
    BY <1>6 DEF Secured, Doomed
  <1> QED
    BY <1>5, <1>6

LEMMA NextSent ==
    ASSUME BegunIdsDiffer, SafetyInv, ReassemblyInv, BegunInv, AckInv, SentInv, [Next]_vars
    PROVE  SentInv'
  <1> SUFFICES ASSUME NEW w \in Worker, NEW m \in Message, outcome'[m] = "sent"
               PROVE  Secured(w, m)'
    BY DEF SentInv
  <1>1. w \in Member /\ TypeInv /\ outcome \in [Message -> {"none", "sent", "failed"}]
    BY DEF Member, SafetyInv, TypeInv, TypeOK, SenderTypeOK
  <1>2. Secured(w, m)
    <2>1. CASE outcome[m] = "sent"
      BY <2>1 DEF SentInv
    <2>2. CASE outcome[m] # "sent"
      <3>1. FinishSend /\ m = cur
        <4>1. FinishSend
          BY <2>2, MasterMoves DEF BeginSend, Produce, RequestShutdown, MasterQuiet, senderVars
        <4> QED
          BY <1>1, <2>2, <4>1 DEF FinishSend
      <3> QED
        BY <3>1, FinishSecures
    <2> QED
      BY <2>1, <2>2
  <1> QED
    BY <1>1, <1>2, SecuredStays

\* Nobody has a message without the sent ones queued before it.
InOrder ==
    \A w \in Worker : \A i, j \in DOMAIN produced :
        /\ i < j /\ Alive(w)
        /\ outcome[produced[i]] = "sent" /\ produced[j] \in Delivered(w)
        => produced[i] \in Delivered(w)

OrderInv == InOrder /\ OrderKept

\* A message cannot still be sent when one queued after it has been begun.
LEMMA SentBefore ==
    ASSUME TypeInv, MasterInv, [Next]_vars, NEW i \in DOMAIN produced, NEW j \in DOMAIN produced,
           i < j, Begun(produced[j]), outcome'[produced[i]] = "sent"
    PROVE  outcome[produced[i]] = "sent"
  <1>1. /\ produced \in Seq(Message) /\ i \in Nat /\ j \in Nat
        /\ outcome \in [Message -> {"none", "sent", "failed"}]
    BY LenProperties DEF TypeInv, TypeOK, MasterTypeOK, SenderTypeOK
  <1>2. produced[i] \in Message /\ produced[j] \in Message
    BY <1>1, ElementOfSeq, LenProperties
  <1>3. CASE FinishSend /\ produced[i] = cur
    <2>1. senderPc \in Sending
      BY <1>3 DEF FinishSend, Sending
    <2>2. CASE produced[j] = cur
      BY <1>1, <1>3, <2>2 DEF MasterInv, NoneTwice
    <2>3. CASE outcome[produced[j]] # "none"
      <3>1. j < i
        BY <1>3, <2>1, <2>3 DEF MasterInv
      <3> QED
        BY <1>1, <3>1
    <2> QED
      BY <2>2, <2>3 DEF Begun
  <1>4. CASE FinishSend /\ produced[i] # cur
    BY <1>1, <1>2, <1>4 DEF FinishSend
  <1>5. CASE ~ FinishSend
    BY <1>5, MasterMoves DEF BeginSend, Produce, RequestShutdown, MasterQuiet, senderVars
  <1> QED
    BY <1>3, <1>4, <1>5

\* The messages that enter an input queue do so in order.
LEMMA ArrivesInOrder ==
    ASSUME BegunIdsDiffer, TypeInv, ReassemblyInv, BegunInv, SentInv, [Next]_vars,
           NEW w \in Worker, NEW k \in Message, inbox'[w] # inbox[w],
           inbox'[w] = Append(inbox[w], k),
           NEW m \in Message, outcome[m] = "sent", m # k
    PROVE  m \in Delivered(w)
  <1>1. /\ w \in Member /\ inbox[w] \in Seq(Message) /\ Secured(w, m)
        /\ MemberReassembly(w) /\ MemberBegun(w)
    BY DEF Member, TypeInv, TypeOK, ReceiverTypeOK, SentInv, ReassemblyInv, BegunInv
  <1>2. CASE DeliverMessage(w)
    <2>1. InHand(w) \in Message /\ inbox'[w] = Append(inbox[w], InHand(w))
      BY <1>1, <1>2, DeliversInHand
    <2>2. InHand(w) = k
      <3>1. PICK h \in Message : h = InHand(w)
        BY <2>1
      <3>2. Append(inbox[w], h) = Append(inbox[w], k)
        BY <2>1, <3>1
      <3> QED
        BY <1>1, <3>1, <3>2, AppendProperties
    <2>3. rxPc[w] = "process" /\ Verdict(w) = "deliver"
      BY <1>2 DEF DeliverMessage
    <2> QED
      BY <1>1, <2>2, <2>3 DEF Secured, Delivering, Doomed, Alive
  <1>3. CASE ~ DeliverMessage(w)
    <2>1. rxPc[w] = "recv"
      BY <1>1, <1>3, NewInInbox DEF ReceiveCommand, Receives
    <2> QED
      BY <1>1, <2>1 DEF Secured, Delivering, Doomed, Alive
  <1> QED
    BY <1>2, <1>3

\* A step adds at most one message to the queue of the messages received.
LEMMA InboxGrows ==
    ASSUME TypeInv, ReassemblyInv, [Next]_vars, NEW w \in Member
    PROVE  \/ inbox'[w] = inbox[w]
           \/ \E k \in Message : inbox'[w] = Append(inbox[w], k) /\ inbox'[w] # inbox[w]
  <1>1. MemberReassembly(w)
    BY DEF ReassemblyInv
  <1> QED
    BY <1>1, NewInInbox, DeliveredMessage

\* The places of the messages that workers have do not change.
LEMMA PlacesStay ==
    ASSUME TypeInv, MasterInv, BegunInv, [Next]_vars, NEW w \in Member,
           NEW i \in DOMAIN produced', NEW j \in DOMAIN produced', i < j,
           produced'[j] \in Delivered(w)'
    PROVE  /\ i \in DOMAIN produced /\ j \in DOMAIN produced
           /\ produced'[i] = produced[i] /\ produced'[j] = produced[j]
  <1>1. CASE produced' = produced
    BY <1>1
  <1>2. ASSUME NEW m \in Message, Produce(m) \/ RequestShutdown(m)
        PROVE  /\ i \in DOMAIN produced /\ j \in DOMAIN produced
               /\ produced'[i] = produced[i] /\ produced'[j] = produced[j]
    <2>1. /\ produced \in Seq(Message) /\ Len(produced) \in Nat /\ Len(outQueue) \in Nat
          /\ DOMAIN produced = 1 .. Len(produced)
          /\ produced' = Append(produced, m) /\ m \notin Range(produced)
          /\ UNCHANGED inbox
      BY <1>2, LenProperties DEF Produce, RequestShutdown, MasterInv, receiverVars,
         TypeInv, TypeOK, MasterTypeOK
    <2>2. /\ DOMAIN produced' = 1 .. Len(produced) + 1
          /\ \A n \in 1 .. Len(produced) : produced'[n] = produced[n]
          /\ produced'[Len(produced) + 1] = m
      BY <2>1, AppendProperties, LenProperties
    <2>3. m \notin Delivered(w)
      <3>1. ASSUME Begun(m) PROVE FALSE
        <4>1. PICK n \in 1 .. Left : produced[n] = m
          BY <3>1 DEF MasterInv
        <4>2. n \in DOMAIN produced
          BY <2>1 DEF Left
        <4> QED
          BY <2>1, <4>1, <4>2 DEF Range
      <3> QED
        BY <3>1 DEF BegunInv, MemberBegun
    <2>4. Delivered(w)' = Delivered(w)
      BY <2>1 DEF Delivered
    <2>5. j # Len(produced) + 1
      BY <2>2, <2>3, <2>4
    <2> QED
      BY <2>1, <2>2, <2>5
  <1> QED
    BY <1>1, <1>2, MasterMoves DEF BeginSend, FinishSend, MasterQuiet, masterVars

LEMMA NextOrder ==
    ASSUME BegunIdsDiffer, TypeInv, ReassemblyInv, MemoryInv', MasterInv, BegunInv,
           SentInv, OrderInv, [Next]_vars
    PROVE  OrderInv'
  <1> SUFFICES ASSUME NEW w \in Worker, NEW i \in DOMAIN produced', NEW j \in DOMAIN produced',
                      i < j, produced'[j] \in Delivered(w)', outcome'[produced'[i]] = "sent"
               PROVE  /\ Alive(w)' => produced'[i] \in Delivered(w)'
                      /\ \A p, q \in DOMAIN inbox'[w] :
                            p < q /\ inbox'[w][p] = produced'[j] => inbox'[w][q] # produced'[i]
    BY DEF OrderInv, InOrder, OrderKept, Delivered, Range
  <1>1. /\ w \in Member /\ i \in DOMAIN produced /\ j \in DOMAIN produced
        /\ produced'[i] = produced[i] /\ produced'[j] = produced[j]
    <2>1. w \in Member
      BY DEF Member
    <2> QED
      BY <2>1, PlacesStay
  <1>2. /\ inbox[w] \in Seq(Message) /\ produced[i] \in Message /\ produced[j] \in Message
        /\ produced[i] # produced[j]
    <2>1. produced \in Seq(Message) /\ inbox[w] \in Seq(Message)
      BY <1>1 DEF TypeInv, TypeOK, MasterTypeOK, ReceiverTypeOK
    <2>2. i # j
      BY <1>1, <2>1, LenProperties
    <2> QED
      BY <1>1, <2>1, <2>2, LenProperties, ElementOfSeq DEF MasterInv, NoneTwice
  <1>3. Delivered(w) \subseteq Delivered(w)' /\ (Alive(w)' => Alive(w))
    BY <1>1, DeliveredStays
  <1>4. ASSUME produced[j] \in Delivered(w) PROVE outcome[produced[i]] = "sent"
    BY <1>1, <1>4, SentBefore DEF BegunInv, MemberBegun
  <1>5. CASE inbox'[w] = inbox[w]
    <2>1. produced[j] \in Delivered(w)
      BY <1>1, <1>5 DEF Delivered
    <2>2. Alive(w) => produced[i] \in Delivered(w)
      BY <1>1, <1>4, <2>1 DEF OrderInv, InOrder
    <2>3. \A p, q \in DOMAIN inbox[w] :
             p < q /\ inbox[w][p] = produced[j] => inbox[w][q] # produced[i]
      BY <1>1, <1>4, <2>1 DEF OrderInv, OrderKept
    <2> QED
      BY <1>1, <1>3, <1>5, <2>2, <2>3
  <1>6. ASSUME NEW k \in Message, inbox'[w] = Append(inbox[w], k), inbox'[w] # inbox[w]
        PROVE  /\ Alive(w)' => produced'[i] \in Delivered(w)'
               /\ \A p, q \in DOMAIN inbox'[w] :
                     p < q /\ inbox'[w][p] = produced'[j] => inbox'[w][q] # produced'[i]
    <2>1. Handles(w)
      BY <1>1, <1>6, WhoHandles DEF Untouched
    <2>2. outcome[produced[i]] = "sent" /\ Alive(w)
      <3>1. outcome' = outcome
        BY <2>1, HandlesKeepsMaster DEF senderVars
      <3>2. rxPc[w] # "aborted"
        BY <2>1 DEF Handles, HandleStep, ProcessAborts, StorePacket, DeliverMessage,
           DiscardMessage, RecordReceived, SendWholeAck, ReceiveStep, ReceiveCommand,
           ReceiveResent, ReceiveNew, AckFails, Receives
      <3> QED
        BY <1>1, <3>1, <3>2 DEF Alive
    <2>3. /\ Len(inbox[w]) \in Nat /\ DOMAIN inbox[w] = 1 .. Len(inbox[w])
          /\ DOMAIN inbox'[w] = 1 .. Len(inbox[w]) + 1
          /\ \A n \in 1 .. Len(inbox[w]) : inbox'[w][n] = inbox[w][n]
          /\ inbox'[w][Len(inbox[w]) + 1] = k
          /\ Delivered(w)' = Delivered(w) \cup {k}
      BY <1>2, <1>6, AppendProperties, LenProperties, QueueAppend DEF Delivered
    <2>4. k \notin Delivered(w)
      <3>1. NoneTwice(inbox'[w])
        BY <1>1 DEF MemoryInv
      <3> QED
        BY <2>3, <3>1 DEF Delivered, Range, NoneTwice
    <2>5. produced[i] \in Delivered(w) \/ produced[i] = k
      BY <1>2, <1>6, <2>2, ArrivesInOrder
    <2>6. produced[j] \in Delivered(w) => produced[i] \in Delivered(w)
      BY <1>1, <2>2 DEF OrderInv, InOrder
    <2>7. produced[j] \in Delivered(w) \/ produced[j] = k
      BY <1>1, <2>3
    <2>8. produced[i] \in Delivered(w)
      BY <1>2, <2>5, <2>6, <2>7
    <2>9. ASSUME NEW p \in DOMAIN inbox'[w], NEW q \in DOMAIN inbox'[w], p < q,
                 inbox'[w][p] = produced[j], inbox'[w][q] = produced[i]
          PROVE  FALSE
      <3>1. q # Len(inbox[w]) + 1
        BY <2>3, <2>4, <2>8, <2>9
      <3>2. p \in DOMAIN inbox[w] /\ q \in DOMAIN inbox[w]
        BY <2>3, <2>9, <3>1
      <3>3. inbox[w][p] = produced[j] /\ inbox[w][q] = produced[i]
        BY <2>3, <2>9, <3>2
      <3> QED
        BY <1>1, <2>2, <2>9, <3>2, <3>3 DEF OrderInv, OrderKept
    <2> QED
      BY <1>1, <1>3, <2>8, <2>9
  <1> QED
    BY <1>1, <1>5, <1>6, InboxGrows

\* Everything the proofs of the protocol rest on.
ProtocolInv ==
    SafetyInv /\ ReassemblyInv /\ AckInv /\ MemoryInv /\ MasterInv /\ BegunInv /\ SentInv
    /\ OrderInv

LEMMA InitProtocol == Init => ProtocolInv
  <1> SUFFICES ASSUME Init PROVE SentInv /\ OrderInv
    BY InitSafetyInv, InitReassembly, InitAckInv, InitMemory, InitMaster, InitBegun
       DEF ProtocolInv
  <1>1. /\ outcome = [m \in Message |-> "none"] /\ DOMAIN produced = {}
    BY DEF Init
  <1> QED
    BY <1>1 DEF SentInv, OrderInv, InOrder, OrderKept

LEMMA NextProtocol ==
    ASSUME NothingFreedEarly, IdsDiffer, ProtocolInv, [Next]_vars
    PROVE  ProtocolInv'
  <1> USE DEF ProtocolInv
  <1>1. TypeInv /\ BegunIdsDiffer
    BY IdsOfBegun DEF SafetyInv
  <1>2. MemoryInv'
    BY <1>1, NextMemory
  <1>3. SafetyInv' /\ ReassemblyInv' /\ AckInv' /\ MasterInv'
    BY <1>1, NextSafetyInv, NextReassembly, NextAckInv, NextMaster
  <1>4. BegunInv' /\ SentInv'
    BY <1>1, NextBegun, NextSent
  <1>5. OrderInv'
    BY <1>1, <1>2, NextOrder
  <1> QED
    BY <1>2, <1>3, <1>4, <1>5

\* A message the master reports as sent reaches every worker before any that
\* was queued after it: the sender takes its queue in order, one message at a
\* time, and leaves a message only with every acknowledgement or after giving
\* up (MulticastSender::send_message).  One it gave up on may come later, and
\* all this needs that no message is deleted early and no id used twice.
THEOREM OrderIsKept ==
    Spec /\ []NothingFreedEarly /\ []IdsDiffer => []OrderKept
  <1>1. Init => ProtocolInv
    BY InitProtocol
  <1>2. ProtocolInv /\ NothingFreedEarly /\ IdsDiffer /\ [Next]_vars => ProtocolInv'
    BY NextProtocol
  <1>3. ProtocolInv => OrderKept
    BY DEF ProtocolInv, OrderInv
  <1> QED
    BY <1>1, <1>2, <1>3, PTL DEF Spec

-----------------------------------------------------------------------------
(* The protocol keeps its promise *)

\* What the promise sees of the protocol.
StatusSeen == [m \in Message \ Command |->
                  IF outcome[m] # "none" THEN outcome[m]
                  ELSE IF m \in Range(produced) THEN "submitted" ELSE "new"]

ReceivedSeen == [w \in Worker |->
                    {m \in Message \ Command :
                        m \in Delivered(w) \/ (Delivering(w) /\ m = InHand(w))}]

DownSeen == {w \in Worker : Doomed(w)}

LEMMA PromiseSeen ==
    /\ Promise!Init <=> /\ StatusSeen = [m \in Message \ Command |-> "new"]
                        /\ ReceivedSeen = [w \in Worker |-> {}]
                        /\ DownSeen = {}
    /\ Promise!vars = <<StatusSeen, ReceivedSeen, DownSeen>>
  BY DEF Promise!Init, Promise!vars, StatusSeen, ReceivedSeen, DownSeen

LEMMA PromiseUnchanged ==
    ASSUME UNCHANGED <<StatusSeen, ReceivedSeen, DownSeen>>
    PROVE  UNCHANGED Promise!vars
  BY DEF Promise!vars, StatusSeen, ReceivedSeen, DownSeen

LEMMA SubmitSeen ==
    ASSUME NEW m \in Message \ Command, StatusSeen[m] = "new",
           StatusSeen' = [StatusSeen EXCEPT ![m] = "submitted"],
           UNCHANGED <<ReceivedSeen, DownSeen>>
    PROVE  Promise!Next
  <1>1. Promise!Submit(m)
    BY DEF Promise!Submit, StatusSeen, ReceivedSeen, DownSeen
  <1> QED
    BY <1>1 DEF Promise!Next

LEMMA ReportSentSeen ==
    ASSUME NEW m \in Message \ Command, StatusSeen[m] = "submitted",
           \A w \in Worker \ DownSeen : m \in ReceivedSeen[w],
           StatusSeen' = [StatusSeen EXCEPT ![m] = "sent"],
           UNCHANGED <<ReceivedSeen, DownSeen>>
    PROVE  Promise!Next
  <1>1. Promise!ReportSent(m)
    BY DEF Promise!ReportSent, StatusSeen, ReceivedSeen, DownSeen
  <1> QED
    BY <1>1 DEF Promise!Next

LEMMA ReportFailedSeen ==
    ASSUME NEW m \in Message \ Command, StatusSeen[m] = "submitted",
           StatusSeen' = [StatusSeen EXCEPT ![m] = "failed"],
           UNCHANGED <<ReceivedSeen, DownSeen>>
    PROVE  Promise!Next
  <1>1. Promise!ReportFailed(m)
    BY DEF Promise!ReportFailed, StatusSeen, ReceivedSeen, DownSeen
  <1> QED
    BY <1>1 DEF Promise!Next

LEMMA ReceiveSeen ==
    ASSUME NEW w \in Worker, NEW m \in Message \ Command,
           StatusSeen[m] \in {"submitted", "failed"}, w \notin DownSeen,
           m \notin ReceivedSeen[w],
           ReceivedSeen' = [ReceivedSeen EXCEPT ![w] = @ \cup {m}],
           UNCHANGED <<StatusSeen, DownSeen>>
    PROVE  Promise!Next
  <1>1. Promise!Receive(w, m)
    BY DEF Promise!Receive, StatusSeen, ReceivedSeen, DownSeen
  <1> QED
    BY <1>1 DEF Promise!Next

LEMMA CrashSeen ==
    ASSUME NEW w \in Worker, w \notin DownSeen, DownSeen' = DownSeen \cup {w},
           UNCHANGED <<StatusSeen, ReceivedSeen>>
    PROVE  Promise!Next
  <1>1. Promise!Crash(w)
    BY DEF Promise!Crash, StatusSeen, ReceivedSeen, DownSeen
  <1> QED
    BY <1>1 DEF Promise!Next

\* The messages worker w counts as having received.
ReceivedBy(w) == {m \in Message \ Command :
                     m \in Delivered(w) \/ (Delivering(w) /\ m = InHand(w))}

LEMMA SeenOfUntouched ==
    ASSUME NEW w, Untouched(w)
    PROVE  ReceivedBy(w)' = ReceivedBy(w) /\ (Doomed(w)' <=> Doomed(w))
  BY VerdictKept DEF ReceivedBy

LEMMA NobodySeen ==
    ASSUME \A w \in Worker : Untouched(w)
    PROVE  UNCHANGED <<ReceivedSeen, DownSeen>>
  <1>1. \A w \in Worker : ReceivedBy(w)' = ReceivedBy(w) /\ (Doomed(w)' <=> Doomed(w))
    BY SeenOfUntouched
  <1>2. ReceivedSeen = [w \in Worker |-> ReceivedBy(w)]
        /\ ReceivedSeen' = [w \in Worker |-> ReceivedBy(w)']
    BY DEF ReceivedSeen, ReceivedBy
  <1>3. ReceivedSeen' = ReceivedSeen
    BY <1>1, <1>2
  <1>4. DownSeen' = DownSeen
    BY <1>1 DEF DownSeen
  <1> QED
    BY <1>3, <1>4

\* When worker w makes a step nothing else is seen to change.
LEMMA OneSeen ==
    ASSUME TypeInv, NEW w \in Worker, Handles(w)
    PROVE  /\ UNCHANGED StatusSeen
           /\ ReceivedBy(w)' = ReceivedBy(w) => UNCHANGED ReceivedSeen
           /\ \A m : ReceivedBy(w)' = ReceivedBy(w) \cup {m}
                     => ReceivedSeen' = [ReceivedSeen EXCEPT ![w] = @ \cup {m}]
           /\ (Doomed(w)' <=> Doomed(w)) => UNCHANGED DownSeen
           /\ Doomed(w)' => DownSeen' = DownSeen \cup {w}
  <1>1. UNCHANGED StatusSeen
    BY HandlesKeepsMaster DEF StatusSeen, masterVars, senderVars
  <1>2. ASSUME NEW v \in Worker, v # w
        PROVE  ReceivedBy(v)' = ReceivedBy(v) /\ (Doomed(v)' <=> Doomed(v))
    BY <1>2, OthersUntouched, SeenOfUntouched DEF Member
  <1>3. ReceivedSeen = [v \in Worker |-> ReceivedBy(v)]
        /\ ReceivedSeen' = [v \in Worker |-> ReceivedBy(v)']
    BY DEF ReceivedSeen, ReceivedBy
  <1>4. ReceivedBy(w)' = ReceivedBy(w) => UNCHANGED ReceivedSeen
    BY <1>2, <1>3
  <1>5. ASSUME NEW m, ReceivedBy(w)' = ReceivedBy(w) \cup {m}
        PROVE  ReceivedSeen' = [ReceivedSeen EXCEPT ![w] = @ \cup {m}]
    BY <1>2, <1>3, <1>5
  <1>6. (Doomed(w)' <=> Doomed(w)) => UNCHANGED DownSeen
    BY <1>2 DEF DownSeen
  <1>7. Doomed(w)' => DownSeen' = DownSeen \cup {w}
    BY <1>2 DEF DownSeen
  <1> QED
    BY <1>1, <1>4, <1>5, <1>6, <1>7

LEMMA StatusOfData ==
    ASSUME TypeInv, MasterInv, NEW m \in Message \ Command
    PROVE  /\ Begun(m) => m \in Range(produced)
           /\ senderPc \in Sending /\ m = cur => outcome[m] = "none" /\ m \in Range(produced)
  <1>1. /\ produced \in Seq(Message) /\ DOMAIN produced = 1 .. Len(produced)
        /\ 1 .. Left \subseteq DOMAIN produced
    BY LenProperties DEF TypeInv, TypeOK, MasterTypeOK, MasterInv, Left
  <1>2. Begun(m) => \E i \in DOMAIN produced : produced[i] = m
    BY <1>1 DEF MasterInv
  <1>3. ASSUME senderPc \in Sending, m = cur PROVE outcome[m] = "none"
    <2>1. PICK i \in DOMAIN produced : produced[i] = m
      BY <1>2, <1>3 DEF Begun
    <2>2. outcome[produced[i]] # "none" => i < i
      BY <1>3, <2>1 DEF MasterInv
    <2> QED
      BY <1>1, <2>1, <2>2
  <1> QED
    BY <1>2, <1>3 DEF Begun, Range

\* The steps of the master.
LEMMA MasterSeen ==
    ASSUME BegunIdsDiffer, ProtocolInv, [Next]_vars, \A v \in Member : ~ Handles(v)
    PROVE  [Promise!Next]_(Promise!vars)
  <1>1. /\ TypeInv /\ MasterInv /\ produced \in Seq(Message) /\ cur \in Message \cup {NoMessage}
        /\ outcome \in [Message -> {"none", "sent", "failed"}]
    BY DEF ProtocolInv, SafetyInv, TypeInv, TypeOK, MasterTypeOK, SenderTypeOK
  <1>2. UNCHANGED <<ReceivedSeen, DownSeen>>
    <2>1. \A w \in Worker : Untouched(w)
      BY <1>1, NobodyHandles DEF Member
    <2> QED
      BY <2>1, NobodySeen
  <1>3. CASE UNCHANGED <<outcome, produced>>
    <2>1. UNCHANGED StatusSeen
      BY <1>3 DEF StatusSeen
    <2> QED
      BY <1>2, <2>1, PromiseUnchanged
  <1>4. ASSUME NEW m \in Message, Produce(m) PROVE [Promise!Next]_(Promise!vars)
    <2>1. /\ m \in Message \ Command /\ m \notin Range(produced) /\ outcome' = outcome
          /\ Range(produced') = Range(produced) \cup {m}
      BY <1>1, <1>4, QueueAppend DEF Produce, senderVars
    <2>2. outcome[m] = "none"
      BY <1>1, <2>1, StatusOfData DEF Begun
    <2>3. StatusSeen[m] = "new" /\ StatusSeen' = [StatusSeen EXCEPT ![m] = "submitted"]
      BY <2>1, <2>2 DEF StatusSeen
    <2> QED
      BY <1>2, <2>1, <2>3, SubmitSeen
  <1>5. ASSUME NEW m \in Message, RequestShutdown(m) PROVE [Promise!Next]_(Promise!vars)
    <2>1. /\ m \in Command /\ outcome' = outcome
          /\ Range(produced') = Range(produced) \cup {m}
      BY <1>1, <1>5, QueueAppend DEF RequestShutdown, senderVars
    <2>2. UNCHANGED StatusSeen
      BY <2>1 DEF StatusSeen
    <2> QED
      BY <1>2, <2>2, PromiseUnchanged
  <1>6. CASE FinishSend
    <2>1. /\ senderPc \in Sending /\ cur \in Message /\ produced' = produced
          /\ outcome' = [outcome EXCEPT ![cur] =
                            IF returnStatus /\ AllAcknowledged(acks) THEN "sent" ELSE "failed"]
      BY <1>1, <1>6 DEF FinishSend, Sending, masterVars, TypeInv, TypeOK, SenderTypeOK
    <2>2. PICK o \in {"sent", "failed"} : outcome' = [outcome EXCEPT ![cur] = o]
      BY <2>1
    <2>3. CASE cur \in Command
      <3>1. UNCHANGED StatusSeen
        BY <1>1, <2>1, <2>2, <2>3 DEF StatusSeen
      <3> QED
        BY <1>2, <3>1, PromiseUnchanged
    <2>4. CASE cur \notin Command
      <3>1. PICK m \in Message \ Command : m = cur
        BY <2>1, <2>4
      <3>2. outcome[m] = "none" /\ m \in Range(produced)
        BY <1>1, <2>1, <3>1, StatusOfData
      <3>3. StatusSeen[m] = "submitted" /\ StatusSeen' = [StatusSeen EXCEPT ![m] = o]
        BY <1>1, <2>1, <2>2, <3>1, <3>2 DEF StatusSeen
      <3>4. CASE o = "sent"
        <4>1. outcome'[cur] = "sent"
          BY <1>1, <2>1, <2>2, <3>4
        <4>2. ASSUME NEW w \in Worker \ DownSeen PROVE m \in ReceivedSeen[w]
          <5>1. Secured(w, m) /\ ~ Doomed(w)
            BY <1>6, <3>1, <4>1, FinishSecures DEF ProtocolInv, DownSeen
          <5> QED
            BY <5>1 DEF Secured, ReceivedSeen
        <4> QED
          BY <1>2, <3>3, <3>4, <4>2, ReportSentSeen
      <3>5. CASE o = "failed"
        BY <1>2, <3>3, <3>5, ReportFailedSeen
      <3> QED
        BY <2>2, <3>4, <3>5
    <2> QED
      BY <2>3, <2>4
  <1> QED
    BY <1>3, <1>4, <1>5, <1>6, MasterMoves DEF BeginSend, MasterQuiet

\* The steps of the receiver of worker w that its messages do not show.
LEMMA HiddenStep ==
    ASSUME TypeInv, NEW w \in Worker, Handles(w), ReceivedBy(w)' = ReceivedBy(w),
           Doomed(w)' <=> Doomed(w)
    PROVE  [Promise!Next]_(Promise!vars)
  <1>1. UNCHANGED <<StatusSeen, ReceivedSeen, DownSeen>>
    BY OneSeen
  <1> QED
    BY <1>1, PromiseUnchanged

LEMMA CrashStep ==
    ASSUME TypeInv, NEW w \in Worker, Handles(w), ReceivedBy(w)' = ReceivedBy(w),
           Doomed(w)', ~ Doomed(w)
    PROVE  [Promise!Next]_(Promise!vars)
  <1>1. /\ UNCHANGED <<StatusSeen, ReceivedSeen>> /\ DownSeen' = DownSeen \cup {w}
        /\ w \notin DownSeen
    BY OneSeen DEF DownSeen
  <1> QED
    BY <1>1, CrashSeen

\* What is seen of a receiver that does not hold a packet.
LEMMA SeenIdle ==
    ASSUME NEW w, rxPc[w] # "process"
    PROVE  /\ ReceivedBy(w) = {m \in Message \ Command : m \in Delivered(w)}
           /\ Doomed(w) <=> rxPc[w] = "aborted"
           /\ ~ Delivering(w)
  BY DEF ReceivedBy, Delivering, Doomed, Alive

LEMMA SeenIdleNext ==
    ASSUME NEW w, rxPc'[w] # "process"
    PROVE  /\ ReceivedBy(w)' = {m \in Message \ Command : m \in Delivered(w)'}
           /\ Doomed(w)' <=> rxPc'[w] = "aborted"
           /\ ~ Delivering(w)'
  BY DEF ReceivedBy, Delivering, Doomed, Alive

\* Commands do not count.
LEMMA DeliveringData ==
    ASSUME BegunIdsDiffer, TypeInv, NEW w \in Member, MemberReassembly(w), MemberBegun(w),
           Delivering(w)
    PROVE  InHand(w) \in Message \ Command
  <1>1. /\ rxPc[w] = "process" /\ ~ Refused(w) /\ IsComplete(PartialAfter(w))
        /\ IsChecksumValid(PartialAfter(w)) /\ PartialAfter(w).isData
    BY Verdicts DEF Delivering
  <1>2. PICK r \in PartialMessage : r = PartialAfter(w)
    BY <1>1, PartialAfterOK
  <1>3. PartialOK(HandId(w), r)
    BY <1>1, <1>2, PartialAfterOK
  <1>4. r.checksum \in Message \ Command
    BY <1>1, <1>2, <1>3, WholeMessage
  <1> QED
    BY <1>1, <1>2, <1>4, NothingDiscarded

LEMMA DeliveringDataNext ==
    ASSUME NEW w \in Member
    PROVE  (/\ BegunIdsDiffer /\ TypeInv /\ MemberReassembly(w) /\ MemberBegun(w)
            /\ Delivering(w)
            => InHand(w) \in Message \ Command)'
  <1>1. /\ BegunIdsDiffer /\ TypeInv /\ MemberReassembly(w) /\ MemberBegun(w)
        /\ Delivering(w)
        => InHand(w) \in Message \ Command
    BY DeliveringData
  <1> QED
    BY <1>1, PTL

LEMMA WorkerSeen ==
    ASSUME BegunIdsDiffer, BegunIdsDiffer', ProtocolInv, ProtocolInv', NEW w \in Worker,
           Handles(w)
    PROVE  [Promise!Next]_(Promise!vars)
  <1>1. /\ TypeInv /\ TypeInv' /\ w \in Member /\ MemberReassembly(w) /\ MemberReassembly(w)'
        /\ MemberBegun(w) /\ MemberBegun(w)'
        /\ w \in DOMAIN rxPc /\ w \in DOMAIN hand /\ w \in DOMAIN inbox
        /\ inbox[w] \in Seq(Message)
    BY DEF ProtocolInv, SafetyInv, Member, ReassemblyInv, BegunInv, TypeInv, TypeOK,
           ReceiverTypeOK
  <1>2. CASE /\ rxPc[w] # "process" /\ rxPc'[w] # "process" /\ rxPc[w] # "aborted"
             /\ Delivered(w)' \ Command = Delivered(w) \ Command
    <2>1. ReceivedBy(w)' = ReceivedBy(w) /\ ~ Doomed(w)
      BY <1>2, SeenIdle, SeenIdleNext
    <2> QED
      BY <1>1, <2>1, HiddenStep, CrashStep
  <1>3. CASE rxPc[w] = "process" /\ Verdict(w) # "deliver" /\ inbox' = inbox
    <2>1. rxPc'[w] # "process" /\ (rxPc'[w] = "aborted" <=> ProcessAborts(w))
          /\ (Verdict(w) = "throw" <=> ProcessAborts(w))
      BY <1>1, <1>3 DEF Handles, HandleStep, StorePacket, ProcessAborts, DiscardMessage,
         DeliverMessage, RecordReceived, SendWholeAck, ReceiveStep, ReceiveCommand,
         ReceiveResent, ReceiveNew, AckFails, Receives, GoOn, Abort, Continue
    <2>2. /\ ReceivedBy(w) = {m \in Message \ Command : m \in Delivered(w)}
          /\ Doomed(w) <=> Verdict(w) = "throw"
      BY <1>3 DEF ReceivedBy, Delivering, Doomed, Alive
    <2>3. Delivered(w)' = Delivered(w)
      BY <1>3 DEF Delivered
    <2>4. ReceivedBy(w)' = ReceivedBy(w) /\ (Doomed(w)' <=> Doomed(w))
      BY <2>1, <2>2, <2>3, SeenIdleNext
    <2> QED
      BY <1>1, <2>4, HiddenStep
  <1>4. CASE DeliverMessage(w)
    <2>1. /\ rxPc[w] = "process" /\ Verdict(w) = "deliver" /\ rxPc'[w] = "record"
          /\ InHand(w) \in Message \ Command
          /\ inbox'[w] = Append(inbox[w], InHand(w))
      BY <1>1, <1>4, DeliversInHand DEF DeliverMessage
    <2>2. Delivered(w)' = Delivered(w) \cup {InHand(w)}
      <3>1. PICK h \in Message : h = InHand(w)
        BY <2>1
      <3> QED
        BY <1>1, <2>1, <3>1, QueueAppend DEF Delivered
    <2>3. ReceivedBy(w)' = ReceivedBy(w)
      BY <2>1, <2>2, SeenIdleNext DEF ReceivedBy, Delivering
    <2>4. ~ Doomed(w) /\ ~ Doomed(w)'
      BY <2>1, SeenIdleNext DEF Doomed, Alive
    <2> QED
      BY <1>1, <2>3, <2>4, HiddenStep
  <1>5. ASSUME NEW p \in netData[w], ReceiveNew(w, p)
        PROVE  [Promise!Next]_(Promise!vars)
    <2>1. /\ rxPc[w] = "recv" /\ rxPc'[w] = "process" /\ hand'[w] = p /\ p \in Packet
          /\ InHand(w)' = p.msg /\ p.msg \in Message /\ IdOf[p.msg] \notin recent[w]
          /\ inbox' = inbox
      BY <1>1, <1>5, ReceivesType, PacketFields
         DEF ReceiveNew, Receives, InHand, TypeInv, TypeOK
    <2>2. /\ ReceivedBy(w) = {m \in Message \ Command : m \in Delivered(w)}
          /\ ~ Doomed(w) /\ Delivered(w)' = Delivered(w)
      BY <2>1, SeenIdle DEF Delivered
    <2>3. /\ ReceivedBy(w)' = {m \in Message \ Command :
                                 m \in Delivered(w) \/ (Verdict(w)' = "deliver" /\ m = p.msg)}
          /\ Doomed(w)' <=> Verdict(w)' = "throw"
      BY <2>1, <2>2 DEF ReceivedBy, Delivering, Doomed, Alive
    <2>4. CASE Verdict(w)' # "deliver"
      <3>1. ReceivedBy(w)' = ReceivedBy(w)
        BY <2>2, <2>3, <2>4
      <3> QED
        BY <1>1, <2>2, <3>1, HiddenStep, CrashStep
    <2>5. CASE Verdict(w)' = "deliver"
      <3>1. PICK m \in Message : m = p.msg
        BY <2>1
      <3>2. m \notin Command
        BY <1>1, <2>1, <2>5, <3>1, DeliveringDataNext DEF Delivering
      <3>3. m \notin Delivered(w)
        BY <1>1, <2>1, <3>1, <3>2 DEF ProtocolInv, MemoryInv, MemberMemory, Alive
      <3>4. StatusSeen[m] \in {"submitted", "failed"}
        <4>1. Begun(m)
          BY <1>1, <3>1 DEF ProtocolInv, BegunInv, MemberBegun
        <4>2. m \in Range(produced)
          BY <1>1, <3>2, <4>1, StatusOfData DEF ProtocolInv
        <4>3. outcome[m] # "sent"
          <5>1. ~ Secured(w, m)
            BY <2>1, <2>2, <3>3, SeenIdle DEF Secured
          <5> QED
            BY <5>1 DEF ProtocolInv, SentInv
        <4>4. outcome[m] \in {"none", "sent", "failed"}
          BY <1>1 DEF TypeInv, TypeOK, SenderTypeOK
        <4> QED
          BY <3>2, <4>2, <4>3, <4>4 DEF StatusSeen
      <3>5. /\ ReceivedBy(w)' = ReceivedBy(w) \cup {m} /\ ~ Doomed(w)'
        BY <2>2, <2>3, <2>5, <3>1, <3>2
      <3>6. /\ ReceivedSeen' = [ReceivedSeen EXCEPT ![w] = @ \cup {m}]
            /\ UNCHANGED <<StatusSeen, DownSeen>>
        BY <1>1, <2>2, <3>5, OneSeen
      <3>7. w \notin DownSeen /\ m \notin ReceivedSeen[w]
        <4>1. ReceivedSeen[w] = ReceivedBy(w)
          BY DEF ReceivedSeen, ReceivedBy
        <4> QED
          BY <2>2, <3>3, <4>1 DEF DownSeen
      <3> QED
        BY <3>2, <3>4, <3>6, <3>7, ReceiveSeen
    <2> QED
      BY <2>4, <2>5
  <1>6. ASSUME NEW p \in netData[w], ReceiveCommand(w, p)
        PROVE  [Promise!Next]_(Promise!vars)
    <2>1. /\ rxPc[w] = "recv" /\ rxPc'[w] = "stopped" /\ p.msg \in Command
          /\ inbox'[w] = Append(inbox[w], p.msg) /\ p.msg \in Message
      BY <1>1, <1>6, SizesAreValid DEF ReceiveCommand, IsCommandPacket, Receives
    <2>2. Delivered(w)' = Delivered(w) \cup {p.msg}
      <3>1. PICK h \in Message : h = p.msg
        BY <2>1
      <3> QED
        BY <1>1, <2>1, <3>1, QueueAppend DEF Delivered
    <2> QED
      BY <1>2, <2>1, <2>2
  <1>7. ASSUME NEW p \in netData[w], ReceiveResent(w, p) \/ AckFails(w, p)
        PROVE  [Promise!Next]_(Promise!vars)
    <2>1. rxPc[w] = "recv" /\ rxPc'[w] # "process" /\ inbox' = inbox
      BY <1>1, <1>7 DEF ReceiveResent, AckFails, Receives, GoOn, Continue, Abort
    <2> QED
      BY <1>2, <2>1 DEF Delivered
  <1>8. CASE RecordReceived(w) \/ SendWholeAck(w)
    <2>1. rxPc[w] \in {"record", "reply"} /\ rxPc'[w] # "process" /\ inbox' = inbox
      BY <1>1, <1>8 DEF RecordReceived, SendWholeAck, GoOn, Continue, Abort
    <2> QED
      BY <1>2, <2>1 DEF Delivered
  <1>9. CASE ProcessAborts(w) \/ StorePacket(w) \/ DiscardMessage(w)
    BY <1>3, <1>9 DEF ProcessAborts, StorePacket, DiscardMessage
  <1> QED
    BY <1>4, <1>5, <1>6, <1>7, <1>8, <1>9 DEF Handles, HandleStep, ReceiveStep

LEMMA IdsOfBegunNext == (TypeInv /\ MasterInv /\ IdsDiffer => BegunIdsDiffer)'
  <1>1. TypeInv /\ MasterInv /\ IdsDiffer => BegunIdsDiffer
    BY IdsOfBegun
  <1> QED
    BY <1>1, PTL

LEMMA ProtocolStep ==
    ASSUME IdsDiffer, IdsDiffer', ProtocolInv, ProtocolInv', [Next]_vars
    PROVE  [Promise!Next]_(Promise!vars)
  <1>0. BegunIdsDiffer /\ BegunIdsDiffer'
    BY IdsOfBegun, IdsOfBegunNext DEF ProtocolInv, SafetyInv
  <1>1. ASSUME NEW w \in Member, w \notin Worker, Handles(w)
        PROVE  [Promise!Next]_(Promise!vars)
    <2>1. \A v \in Worker : Untouched(v)
      BY <1>1, OthersUntouched DEF ProtocolInv, SafetyInv, Member
    <2>2. UNCHANGED StatusSeen
      BY <1>1, HandlesKeepsMaster DEF StatusSeen, masterVars, senderVars
    <2> QED
      BY <2>1, <2>2, NobodySeen, PromiseUnchanged
  <1> QED
    BY <1>0, <1>1, WorkerSeen, MasterSeen

LEMMA InitSeen == Init => Promise!Init
  <1> SUFFICES ASSUME Init PROVE Promise!Init
    OBVIOUS
  <1>1. /\ outcome = [m \in Message |-> "none"] /\ produced = <<>>
        /\ rxPc = [w \in Member |-> "recv"] /\ inbox = [w \in Member |-> <<>>]
    BY DEF Init
  <1>2. StatusSeen = [m \in Message \ Command |-> "new"]
    BY <1>1 DEF StatusSeen, Range
  <1>3. ASSUME NEW w \in Worker PROVE ReceivedBy(w) = {} /\ ~ Doomed(w)
    <2>1. rxPc[w] = "recv" /\ Delivered(w) = {}
      BY <1>1 DEF Delivered, Range, Member
    <2> QED
      BY <2>1, SeenIdle
  <1>4. ReceivedSeen = [w \in Worker |-> {}] /\ DownSeen = {}
    BY <1>3 DEF ReceivedSeen, ReceivedBy, DownSeen
  <1> QED
    BY <1>2, <1>4, PromiseSeen

\* The protocol implements ReliableMulticast: threads, packets, losses and
\* repetitions included, every step of it submits, receives or reports a
\* message, loses a worker, or does not show.  It does so as long as no message
\* is deleted early and no id used twice: see NothingFreedEarly and IdsDiffer.
THEOREM PromiseIsKept ==
    Spec /\ []NothingFreedEarly /\ []IdsDiffer => KeepsPromise
  <1>1. Init => ProtocolInv /\ Promise!Init
    BY InitProtocol, InitSeen
  <1>2. ProtocolInv /\ NothingFreedEarly /\ IdsDiffer /\ [Next]_vars => ProtocolInv'
    BY NextProtocol
  <1>3. /\ ProtocolInv /\ IdsDiffer /\ ProtocolInv' /\ IdsDiffer' /\ [Next]_vars
        => [Promise!Next]_(Promise!vars)
    BY ProtocolStep
  <1> QED
    BY <1>1, <1>2, <1>3, PTL DEF Spec, KeepsPromise, Promise!Spec
=============================================================================
