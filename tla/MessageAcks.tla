---------------------------- MODULE MessageAcks ----------------------------
(***************************************************************************)
(* The accounting object eddl_message_acks: which worker has acknowledged   *)
(* which packet of the message being multicast.  The code keeps a bit per   *)
(* worker and packet, a counter per packet and a global counter, and        *)
(* answers its questions from the counters alone; so does this module.      *)
(***************************************************************************)
EXTENDS Integers, FiniteSets

\* The packets of a message: its data packets and, numbered seq_len, the
\* packet that carries the checksum of the whole message.
PacketNumbers(seqLen) == 0 .. seqLen

\* Constructor: only the workers active at this moment are waited for.
NewAcks(id, living, seqLen) ==
    [ id             |-> id,
      living         |-> living,
      seqLen         |-> seqLen,
      acks           |-> {},
      ackCounter     |-> 0,
      packetCounters |-> [s \in PacketNumbers(seqLen) |-> 0] ]

\* Mutant: any sender of an acknowledgement is believed.
CanAcknowledgeAnyone(a, w, s) == s \in PacketNumbers(a.seqLen)

\* acknowledge() throws unless the packet and the worker are known.
CanAcknowledge(a, w, s) == /\ s \in PacketNumbers(a.seqLen)
                           /\ w \in a.living

\* Mutant: the bit is not looked at before the counters grow.
AcknowledgeAgain(a, w, s) ==
    [a EXCEPT !.acks = @ \cup {<<w, s>>},
              !.ackCounter = @ + 1,
              !.packetCounters[s] = @ + 1]

\* A repeated acknowledgement leaves the bit and both counters alone.
Acknowledge(a, w, s) ==
    IF <<w, s>> \in a.acks
    THEN a
    ELSE [a EXCEPT !.acks = @ \cup {<<w, s>>},
                   !.ackCounter = @ + 1,
                   !.packetCounters[s] = @ + 1]

Missing(a, w) == {s \in PacketNumbers(a.seqLen) : <<w, s>> \notin a.acks}

\* acknowledge_whole_message() settles every packet the worker still owed.
AcknowledgeWhole(a, w) ==
    [a EXCEPT !.acks = @ \cup ({w} \X Missing(a, w)),
              !.ackCounter = @ + Cardinality(Missing(a, w)),
              !.packetCounters = [s \in PacketNumbers(a.seqLen) |->
                                    IF s \in Missing(a, w) THEN @[s] + 1
                                                           ELSE @[s]]]

\* Mutant: the checksum packet is not counted.
AllDataAcknowledged(a) == a.ackCounter = a.seqLen * Cardinality(a.living)

AllAcknowledged(a) ==
    a.ackCounter = (a.seqLen + 1) * Cardinality(a.living)

\* Mutant: one worker is enough.
PacketAcknowledgedOnce(a, s) == a.packetCounters[s] > 0

PacketAcknowledged(a, s) == a.packetCounters[s] = Cardinality(a.living)

-----------------------------------------------------------------------------
\* The shape of the accounting of a message sent to workers.
IsAccounting(a, ids, workers) ==
    /\ a.seqLen \in Nat
    /\ a \in [ id             : ids,
               living         : {workers},
               seqLen         : {a.seqLen},
               acks           : SUBSET (workers \X PacketNumbers(a.seqLen)),
               ackCounter     : Nat,
               packetCounters : [PacketNumbers(a.seqLen) -> Nat] ]

\* Who has acknowledged packet s, from the bits rather than the counters.
AckedBy(a, s) == {w \in a.living : <<w, s>> \in a.acks}

\* The counters say what the bits say.
CountersMatchBits(a) ==
    /\ a.ackCounter = Cardinality(a.acks)
    /\ \A s \in PacketNumbers(a.seqLen) :
          a.packetCounters[s] = Cardinality(AckedBy(a, s))
=============================================================================
