---------------------------- MODULE Reassembly -----------------------------
(***************************************************************************)
(* How eddl_message cuts a message into packets and how the receiving side  *)
(* puts the packets together again.  Sizes are kept as numbers because the  *)
(* receiver derives the layout of the message (packet size, number of       *)
(* packets) from whatever packet of the message arrives first.              *)
(***************************************************************************)
EXTENDS Integers, FiniteSets

CONSTANTS Message,       \* the messages the master may multicast
          Command,       \* those of them that are commands (SHUTDOWN)
          NoMessage,     \* nullptr
          SizeOf,        \* [Message -> message_data_size]
          PacketSize,    \* eddl_packet_data_size
          ChecksumSize   \* eddl_checksum_len

ASSUME SizesAreValid ==
    /\ Command \subseteq Message
    /\ NoMessage \notin Message
    /\ SizeOf \in [Message -> Nat \ {0}]
    /\ PacketSize \in Nat \ {0}
    /\ ChecksumSize \in Nat \ {0}

Least(x, y) == IF x < y THEN x ELSE y

\* set_data(): the quotient, plus one for a last, shorter packet.
PacketsNeeded(size, packetSize) ==
    (size \div packetSize) + (IF size % packetSize # 0 THEN 1 ELSE 0)

\* A command fills exactly one packet whatever its packet size.
SeqLen(m) == IF m \in Command THEN 1 ELSE PacketsNeeded(SizeOf[m], PacketSize)

\* Packet SeqLen(m) is the one made by create_packet_for_checksum().
IsChecksum(m, seq) == seq = SeqLen(m)

\* get_packet() and create_packet_for_checksum(): bytes carried by a packet.
DataSize(m, seq) ==
    IF IsChecksum(m, seq)
    THEN ChecksumSize
    ELSE Least(PacketSize, SizeOf[m] - PacketSize * seq)

-----------------------------------------------------------------------------
\* A message under reconstruction.  pieces records which message each packet
\* added so far came from and where its first byte was written; checksum is
\* the message whose checksum was stored.
NewPartial(m, seq) ==
    [ isData     |-> ~ IsChecksum(m, seq),
      size       |-> SizeOf[m],
      packetSize |-> DataSize(m, seq),
      seqLen     |-> PacketsNeeded(SizeOf[m], DataSize(m, seq)),
      pieces     |-> {},
      checksum   |-> NoMessage ]

PartialMessage ==
    [ isData     : BOOLEAN,
      size       : Nat,
      packetSize : Nat,
      seqLen     : Nat,
      pieces     : SUBSET [seq : Nat, from : Message, at : Nat],
      checksum   : Message \cup {NoMessage} ]

Added(r, seq) == \E p \in r.pieces : p.seq = seq

\* The three throws of was_packet_already_added() and add_packet().
Rejects(r, m, seq) ==
    \/ seq >= r.seqLen
    \/ /\ ~ Added(r, seq)
       /\ \/ r.size # SizeOf[m]
          \/ /\ r.packetSize # DataSize(m, seq)
             /\ seq < r.seqLen - 1

AddPiece(r, m, seq) ==
    IF Added(r, seq)
    THEN r
    ELSE [r EXCEPT !.pieces =
             @ \cup {[seq |-> seq, from |-> m, at |-> seq * r.packetSize]}]

SetChecksum(r, m) == IF r.checksum = NoMessage THEN [r EXCEPT !.checksum = m]
                                               ELSE r

\* pending_packets is zero and the checksum has been set.
IsComplete(r) == /\ Cardinality(r.pieces) = r.seqLen
                 /\ r.checksum # NoMessage

\* Mutant: the checksum is not compared.
AnyChecksumIsValid(r) == TRUE

\* SHA256 of the bytes put together agrees with the checksum received: every
\* byte is the byte the checksummed message has at that place.
IsChecksumValid(r) ==
    \A p \in r.pieces : /\ p.from = r.checksum
                        /\ p.at = p.seq * PacketSize
=============================================================================
