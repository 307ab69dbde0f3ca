----------------------------- MODULE Multicast -----------------------------
(***************************************************************************)
(* The reliable multicast of the distributed mode: MulticastSender in the   *)
(* master (threads sender and ack_processor), a MulticastReceiver in every  *)
(* worker (thread receiver), the main threads that feed and drain their     *)
(* queues, and the two networks between them: UDP, which loses, duplicates  *)
(* and reorders, for packets and packet acknowledgements, and the TCP path  *)
(* that brings the acknowledgement of a whole message back.                 *)
(***************************************************************************)
EXTENDS MessageAcks, Reassembly, Sequences, Functions

CONSTANTS Worker,          \* workers of the master's list, all active
          Stranger,        \* group members that are not in that list
          NoAcks,          \* no entry in active_acknowledgements
          NoPacket,        \* the receiver holds no packet
          IdOf,            \* [Message -> message id]
          Capacity,        \* datagrams a socket holds: more are lost
          Duplicates,      \* the networks may deliver a datagram again
          SocketErrors,    \* sendto() may fail
          ClockRuns,       \* 60 seconds may pass while a message is sent
          LongRuns,        \* an hour may pass between two packets
          EagerPops        \* how many messages a worker's main thread may pop
                           \* and delete while its receiver still uses them

ASSUME MulticastAssumption ==
    /\ IsFiniteSet(Worker)
    /\ Worker \cap Stranger = {}
    /\ DOMAIN IdOf = Message
    /\ Capacity \in Nat \ {0}
    /\ Duplicates \in BOOLEAN /\ SocketErrors \in BOOLEAN
    /\ ClockRuns \in BOOLEAN /\ LongRuns \in BOOLEAN
    /\ EagerPops \in Nat

Member == Worker \cup Stranger

VARIABLES
    mainPc,        \* master main thread: "run", "grace" (sleeping after it
                   \* pushed SHUTDOWN), "stopped"
    produced,      \* messages the master has put in its output queue, in order
    outQueue,      \* weights_output_queue
    senderActive,  \* MulticastSender::sender_active
    senderPc,      \* sender thread: "idle", "loop", "batch", "drain",
                   \* "finish", "stopped"
    cur,           \* the message inside send_message()
    seqQueue,      \* seq_no_queue
    batch,         \* iterations left of the inner for loop
    expired,       \* more than 60 s since the acknowledgements were created
    acks,          \* the only entry active_acknowledgements can hold
    returnStatus,  \* return_status: no exception so far
    outcome,       \* what send_message() returned for each message
    ackPc,         \* ack_processor thread: "run", "stopped", "aborted"
    netData,       \* packets travelling to each group member
    netAck,        \* packet acknowledgements travelling to the master
    wholeAcks,     \* whole-message acknowledgements between a worker's
                   \* output_queue and the master's weights_ack_queue
    rxActive,      \* MulticastReceiver::receiver_active
    rxPc,          \* receiver thread: "recv", "process", "record", "reply",
                   \* "stopped", "aborted"
    hand,          \* the packet, then the message, the receiver works on
    active,        \* active_messages: partial messages by id
    recent,        \* recently_received_messages
    inbox,         \* every message pushed to input_queue, oldest first
    consumed       \* how many of them the main thread has popped and deleted

masterVars   == <<mainPc, produced, outQueue>>
senderVars   == <<senderPc, cur, seqQueue, batch, expired, returnStatus, outcome>>
networkVars  == <<netData, netAck, wholeAcks>>
receiverVars == <<rxActive, rxPc, hand, active, recent, inbox, consumed>>
vars == <<masterVars, senderVars, senderActive, acks, ackPc,
          networkVars, receiverVars>>

Packet     == UNION {[msg : {m}, seq : PacketNumbers(SeqLen(m))] : m \in Message}
Id         == {IdOf[m] : m \in Message}
PacketAck  == {[src |-> w, id |-> IdOf[p.msg], seq |-> p.seq] : w \in Member, p \in Packet}
WholeAck   == [src : Member, id : Id]

Init ==
    /\ mainPc = "run" /\ produced = <<>> /\ outQueue = <<>>
    /\ senderActive = TRUE /\ senderPc = "idle" /\ cur = NoMessage
    /\ seqQueue = <<>> /\ batch = 0
    /\ expired = FALSE /\ returnStatus = TRUE
    /\ acks = NoAcks /\ ackPc = "run"
    /\ outcome = [m \in Message |-> "none"]
    /\ netData = [w \in Member |-> {}] /\ netAck = {} /\ wholeAcks = {}
    /\ rxActive = [w \in Member |-> TRUE]
    /\ rxPc = [w \in Member |-> "recv"]
    /\ hand = [w \in Member |-> NoPacket]
    /\ active = [w \in Member |-> [i \in {} |-> 0]]
    /\ recent = [w \in Member |-> {}]
    /\ inbox = [w \in Member |-> <<>>]
    /\ consumed = [w \in Member |-> 0]

\* An exception that leaves a thread function ends the whole process.
MasterUp == ackPc # "aborted"
Alive(w) == rxPc[w] # "aborted"

-----------------------------------------------------------------------------
\* A datagram socket: what does not fit in it is lost, and a datagram that is
\* delivered may stay to be delivered again.
Carry(net, d) == IF Cardinality(net) < Capacity THEN net \cup {d} ELSE net

AfterDelivery(net, d) == {net \ {d}} \cup (IF Duplicates THEN {net} ELSE {})

-----------------------------------------------------------------------------
\* The main thread of the master.

\* It creates a weights message and queues it.
Produce(m) ==
    /\ MasterUp /\ mainPc = "run"
    /\ m \in (Message \ Command) \ Range(produced)
    /\ produced' = Append(produced, m)
    /\ outQueue' = Append(outQueue, m)
    /\ UNCHANGED <<mainPc, senderVars, senderActive, acks, ackPc, networkVars,
                   receiverVars>>

\* SHUTDOWN: the output queue is cleared and the shutdown command queued.
RequestShutdown(m) ==
    /\ MasterUp /\ mainPc = "run"
    /\ m \in Command
    /\ mainPc' = "grace"
    /\ produced' = Append(produced, m)
    /\ outQueue' = <<m>>
    /\ UNCHANGED <<senderVars, senderActive, acks, ackPc, networkVars,
                   receiverVars>>

\* After one second it calls multicast_sender.stop().  A sender that is not
\* busy polls its queue ten times a second: by now it has sent the command.
StopSender ==
    /\ MasterUp /\ mainPc = "grace"
    /\ senderPc = "idle" => outQueue = <<>>
    /\ cur \in Command => senderPc = "drain"
    /\ mainPc' = "stopped"
    /\ senderActive' = FALSE
    /\ UNCHANGED <<produced, outQueue, senderVars, acks, ackPc, networkVars,
                   receiverVars>>

-----------------------------------------------------------------------------
\* The sender thread.

\* Pops a message and registers fresh acknowledgement accounting under its id.
BeginSend ==
    /\ MasterUp /\ senderPc = "idle" /\ senderActive
    /\ outQueue # <<>>
    /\ cur' = Head(outQueue)
    /\ outQueue' = Tail(outQueue)
    /\ acks' = NewAcks(IdOf[cur'], Worker, SeqLen(cur'))
    /\ seqQueue' = [i \in 1 .. SeqLen(cur') + 1 |-> i - 1]
    /\ expired' = FALSE
    /\ returnStatus' = TRUE
    /\ senderPc' = "loop"
    /\ UNCHANGED <<mainPc, produced, senderActive, batch, outcome, ackPc, networkVars,
                   receiverVars>>

InBatch == MasterUp /\ senderPc = "batch" /\ senderActive /\ batch > 0

\* Mutant: the time a message takes is not limited.
EndIterationUntimed ==
    /\ batch' = batch - 1
    /\ UNCHANGED <<senderPc, returnStatus>>

\* End of one iteration of the inner loop, lasting_too_much_time() included.
EndIteration ==
    /\ batch' = batch - 1
    /\ senderPc' = IF expired THEN "finish" ELSE "batch"
    /\ returnStatus' = ~ expired

\* Mutant: a packet that was sent does not return to the queue.
SendPacketOnce ==
    /\ InBatch
    /\ ~ PacketAcknowledged(acks, Head(seqQueue))
    /\ netData' = [w \in Member |->
                      Carry(netData[w], [msg |-> cur, seq |-> Head(seqQueue)])]
    /\ seqQueue' = Tail(seqQueue)
    /\ EndIteration
    /\ UNCHANGED <<masterVars, senderActive, cur, expired, outcome, acks,
                   ackPc, netAck, wholeAcks, receiverVars>>

\* A packet some worker has not acknowledged is sent and queued again.
SendPacket ==
    /\ InBatch
    /\ ~ PacketAcknowledged(acks, Head(seqQueue))
    /\ netData' = [w \in Member |->
                      Carry(netData[w], [msg |-> cur, seq |-> Head(seqQueue)])]
    /\ seqQueue' = Append(Tail(seqQueue), Head(seqQueue))
    /\ EndIteration
    /\ UNCHANGED <<masterVars, senderActive, cur, expired, outcome, acks,
                   ackPc, netAck, wholeAcks, receiverVars>>

\* A packet every worker has acknowledged leaves the queue.
DropPacket ==
    /\ InBatch
    /\ PacketAcknowledged(acks, Head(seqQueue))
    /\ seqQueue' = Tail(seqQueue)
    /\ EndIteration
    /\ UNCHANGED <<masterVars, senderActive, cur, expired, outcome, acks,
                   ackPc, networkVars, receiverVars>>

\* sendto() does not take the packet: the exception ends the loop.
SendFails ==
    /\ SocketErrors /\ InBatch
    /\ ~ PacketAcknowledged(acks, Head(seqQueue))
    /\ seqQueue' = Tail(seqQueue)
    /\ returnStatus' = FALSE
    /\ senderPc' = "finish"
    /\ UNCHANGED <<masterVars, senderActive, cur, batch, expired, outcome,
                   acks, ackPc, networkVars, receiverVars>>

EndBatch ==
    /\ MasterUp /\ senderPc = "batch"
    /\ batch = 0 \/ ~ senderActive
    /\ senderPc' = "drain"
    /\ UNCHANGED <<masterVars, senderActive, cur, seqQueue, batch, expired,
                   returnStatus, outcome, acks, ackPc, networkVars, receiverVars>>

\* One whole-message acknowledgement found in weights_ack_queue; one from a
\* node that is not waited for throws.
DrainAck(a) ==
    /\ MasterUp /\ senderPc = "drain"
    /\ a \in wholeAcks
    /\ wholeAcks' = wholeAcks \ {a}
    /\ \/ /\ a.id # acks.id
          /\ UNCHANGED <<acks, senderPc, returnStatus>>
       \/ /\ a.id = acks.id /\ a.src \in acks.living
          /\ acks' = AcknowledgeWhole(acks, a.src)
          /\ UNCHANGED <<senderPc, returnStatus>>
       \/ /\ a.id = acks.id /\ a.src \notin acks.living
          /\ senderPc' = "finish"
          /\ returnStatus' = FALSE
          /\ UNCHANGED acks
    /\ UNCHANGED <<masterVars, senderActive, cur, seqQueue, batch, expired,
                   outcome, ackPc, netData, netAck, receiverVars>>

\* The outer loop: on entry, and again when weights_ack_queue is empty.
OuterLoop ==
    /\ MasterUp /\ senderPc \in {"loop", "drain"}
    /\ IF senderActive /\ seqQueue # <<>>
       THEN senderPc' = "batch" /\ batch' = Len(seqQueue)
       ELSE senderPc' = "finish" /\ UNCHANGED batch
    /\ UNCHANGED <<masterVars, senderActive, cur, seqQueue, expired,
                   returnStatus, outcome, acks, ackPc, networkVars, receiverVars>>

\* Mutant: the result of the exchange is not looked at.
FinishSendUnchecked ==
    /\ MasterUp /\ senderPc = "finish"
    /\ outcome' = [outcome EXCEPT ![cur] = "sent"]
    /\ acks' = NoAcks
    /\ cur' = NoMessage
    /\ seqQueue' = <<>>
    /\ batch' = 0
    /\ expired' = FALSE /\ returnStatus' = TRUE
    /\ senderPc' = "idle"
    /\ UNCHANGED <<masterVars, senderActive, ackPc, networkVars, receiverVars>>

\* The value send_message() returns; the accounting is erased and deleted.
FinishSend ==
    /\ MasterUp /\ senderPc = "finish"
    /\ outcome' = [outcome EXCEPT ![cur] =
                      IF returnStatus /\ AllAcknowledged(acks)
                      THEN "sent" ELSE "failed"]
    /\ acks' = NoAcks
    /\ cur' = NoMessage
    /\ seqQueue' = <<>>
    /\ batch' = 0
    /\ expired' = FALSE /\ returnStatus' = TRUE
    /\ senderPc' = "idle"
    /\ UNCHANGED <<masterVars, senderActive, ackPc, networkVars, receiverVars>>

SenderExits ==
    /\ MasterUp /\ senderPc = "idle" /\ ~ senderActive
    /\ senderPc' = "stopped"
    /\ UNCHANGED <<masterVars, senderActive, cur, seqQueue, batch, expired,
                   returnStatus, outcome, acks, ackPc, networkVars, receiverVars>>

\* Sixty seconds have passed since the acknowledgements were created.
Tick ==
    /\ ClockRuns
    /\ senderPc \in {"loop", "batch", "drain"} /\ ~ expired
    /\ expired' = TRUE
    /\ UNCHANGED <<masterVars, senderActive, senderPc, cur, seqQueue, batch,
                   returnStatus, outcome, acks, ackPc, networkVars, receiverVars>>

-----------------------------------------------------------------------------
\* The UDP network loses what it carries at any moment.
LoseData(w, p) ==
    /\ p \in netData[w]
    /\ netData' = [netData EXCEPT ![w] = @ \ {p}]
    /\ UNCHANGED <<masterVars, senderVars, senderActive, acks, ackPc, netAck,
                   wholeAcks, receiverVars>>

LoseAck(a) ==
    /\ a \in netAck
    /\ netAck' = netAck \ {a}
    /\ UNCHANGED <<masterVars, senderVars, senderActive, acks, ackPc, netData,
                   wholeAcks, receiverVars>>

-----------------------------------------------------------------------------
\* The ack_processor thread: an obsolete acknowledgement is only reported, an
\* acceptable one is accounted for, any other ends the process.
ProcessAck(a) ==
    /\ MasterUp /\ ackPc = "run"
    /\ a \in netAck
    /\ netAck' \in AfterDelivery(netAck, a)
    /\ LET known    == acks # NoAcks /\ a.id = acks.id
           continue == IF senderActive THEN "run" ELSE "stopped"
       IN  \/ /\ ~ known
              /\ ackPc' = continue
              /\ UNCHANGED acks
           \/ /\ known /\ CanAcknowledge(acks, a.src, a.seq)
              /\ acks' = Acknowledge(acks, a.src, a.seq)
              /\ ackPc' = continue
           \/ /\ known /\ ~ CanAcknowledge(acks, a.src, a.seq)
              /\ ackPc' = "aborted"
              /\ UNCHANGED acks
    /\ UNCHANGED <<masterVars, senderVars, senderActive, netData, wholeAcks,
                   receiverVars>>

\* The acknowledgement full of zeros that stop() sends to its own socket.
AckProcessorExits ==
    /\ MasterUp /\ ackPc = "run" /\ mainPc = "stopped"
    /\ ackPc' = "stopped"
    /\ UNCHANGED <<masterVars, senderVars, senderActive, acks, networkVars,
                   receiverVars>>

-----------------------------------------------------------------------------
\* The receiver thread of group member w.
Continue(w) == IF rxActive[w] THEN "recv" ELSE "stopped"

IsCommandPacket(p) == p.msg \in Command /\ ~ IsChecksum(p.msg, p.seq)

GoOn(w) == /\ rxPc' = [rxPc EXCEPT ![w] = Continue(w)]
           /\ hand' = [hand EXCEPT ![w] = NoPacket]

\* An uncaught exception: the process and its memory are gone.
Abort(w) == /\ rxPc' = [rxPc EXCEPT ![w] = "aborted"]
            /\ hand' = [hand EXCEPT ![w] = NoPacket]
            /\ active' = [active EXCEPT ![w] = [i \in {} |-> 0]]
            /\ recent' = [recent EXCEPT ![w] = {}]

Receives(w, p) ==
    /\ rxPc[w] = "recv"
    /\ p \in netData[w]
    /\ \E left \in AfterDelivery(netData[w], p) :
          netData' = [netData EXCEPT ![w] = left]

\* A COMMAND packet is not acknowledged; SHUTDOWN ends the receiver loop.
ReceiveCommand(w, p) ==
    /\ Receives(w, p)
    /\ IsCommandPacket(p)
    /\ rxActive' = [rxActive EXCEPT ![w] = FALSE]
    /\ rxPc' = [rxPc EXCEPT ![w] = "stopped"]
    /\ inbox' = [inbox EXCEPT ![w] = Append(@, p.msg)]
    /\ UNCHANGED <<masterVars, senderVars, senderActive, acks, ackPc, netAck,
                   wholeAcks, hand, active, recent, consumed>>

\* Data and checksum packets are acknowledged whatever happens to them later.
AckOf(w, p) == [src |-> w, id |-> IdOf[p.msg], seq |-> p.seq]

Delivered(w) == Range(inbox[w])

\* A packet of a message received not long ago is dropped.  If its id was
\* recorded over an hour ago the entry goes too: by then the packet belongs to
\* another message, as nobody sends a message for more than a minute.
ReceiveResent(w, p) ==
    /\ Receives(w, p)
    /\ ~ IsCommandPacket(p)
    /\ IdOf[p.msg] \in recent[w]
    /\ netAck' = Carry(netAck, AckOf(w, p))
    /\ GoOn(w)
    /\ \/ UNCHANGED recent
       \/ /\ LongRuns /\ p.msg \notin Delivered(w)
          /\ recent' = [recent EXCEPT ![w] = @ \ {IdOf[p.msg]}]
    /\ UNCHANGED <<masterVars, senderVars, senderActive, acks, ackPc,
                   wholeAcks, rxActive, active, inbox, consumed>>

ReceiveNew(w, p) ==
    /\ Receives(w, p)
    /\ ~ IsCommandPacket(p)
    /\ IdOf[p.msg] \notin recent[w]
    /\ netAck' = Carry(netAck, AckOf(w, p))
    /\ rxPc' = [rxPc EXCEPT ![w] = "process"]
    /\ hand' = [hand EXCEPT ![w] = p]
    /\ UNCHANGED <<masterVars, senderVars, senderActive, acks, ackPc,
                   wholeAcks, rxActive, active, recent, inbox, consumed>>

\* send_ack() throws when the acknowledgement cannot be sent.
AckFails(w, p) ==
    /\ SocketErrors
    /\ Receives(w, p)
    /\ ~ IsCommandPacket(p)
    /\ Abort(w)
    /\ UNCHANGED <<masterVars, senderVars, senderActive, acks, ackPc, netAck,
                   wholeAcks, rxActive, inbox, consumed>>

InHand(w) == hand[w].msg
HandId(w) == IdOf[InHand(w)]

\* Mutant: every packet starts its message anew.
PartialAnew(w) == NewPartial(InHand(w), hand[w].seq)

\* The partial message the packet in hand belongs to, created when it is the
\* first packet of its message.
Partial(w) == IF HandId(w) \in DOMAIN active[w]
              THEN active[w][HandId(w)]
              ELSE NewPartial(InHand(w), hand[w].seq)

CarriesChecksum(w) == IsChecksum(InHand(w), hand[w].seq)

PartialAfter(w) == IF CarriesChecksum(w)
                   THEN SetChecksum(Partial(w), InHand(w))
                   ELSE AddPiece(Partial(w), InHand(w), hand[w].seq)

Refused(w) == /\ ~ CarriesChecksum(w)
              /\ Rejects(Partial(w), InHand(w), hand[w].seq)

WithPartial(f, i, r) == [j \in DOMAIN f \cup {i} |-> IF j = i THEN r ELSE f[j]]
WithoutPartial(f, i) == [j \in DOMAIN f \ {i} |-> f[j]]

\* What becomes of the packet in hand.  add_packet() and its companions throw,
\* and so does the switch on the type of a complete message when the message
\* was created from a checksum packet.
Verdict(w) ==
    IF Refused(w) THEN "throw"
    ELSE LET r == PartialAfter(w)
         IN  CASE ~ IsComplete(r)                             -> "store"
               [] IsComplete(r) /\ ~ IsChecksumValid(r)       -> "discard"
               [] IsComplete(r) /\ IsChecksumValid(r)         ->
                      IF r.isData THEN "deliver" ELSE "throw"

ProcessAborts(w) ==
    /\ rxPc[w] = "process"
    /\ Verdict(w) = "throw"
    /\ Abort(w)
    /\ UNCHANGED <<masterVars, senderVars, senderActive, acks, ackPc,
                   networkVars, rxActive, inbox, consumed>>

StorePacket(w) ==
    /\ rxPc[w] = "process"
    /\ Verdict(w) = "store"
    /\ active' = [active EXCEPT ![w] =
                     WithPartial(@, HandId(w), PartialAfter(w))]
    /\ GoOn(w)
    /\ UNCHANGED <<masterVars, senderVars, senderActive, acks, ackPc,
                   networkVars, rxActive, recent, inbox, consumed>>

\* The message is pushed to the input queue: its owner is now the main thread.
DeliverMessage(w) ==
    /\ rxPc[w] = "process"
    /\ Verdict(w) = "deliver"
    /\ active' = [active EXCEPT ![w] = WithoutPartial(@, HandId(w))]
    /\ inbox' = [inbox EXCEPT ![w] = Append(@, PartialAfter(w).checksum)]
    /\ rxPc' = [rxPc EXCEPT ![w] = "record"]
    /\ UNCHANGED <<masterVars, senderVars, senderActive, acks, ackPc,
                   networkVars, rxActive, hand, recent, consumed>>

\* A complete message with a wrong checksum is deleted.
DiscardMessage(w) ==
    /\ rxPc[w] = "process"
    /\ Verdict(w) = "discard"
    /\ active' = [active EXCEPT ![w] = WithoutPartial(@, HandId(w))]
    /\ GoOn(w)
    /\ UNCHANGED <<masterVars, senderVars, senderActive, acks, ackPc,
                   networkVars, rxActive, recent, inbox, consumed>>

\* The message just pushed has already been popped and deleted.
Freed(w) == consumed[w] = Len(inbox[w])

\* Mutant: a delivered message is not remembered.
RecordNothing(w) ==
    /\ rxPc[w] = "record"
    /\ rxPc' = [rxPc EXCEPT ![w] = "reply"]
    /\ UNCHANGED <<masterVars, senderVars, senderActive, acks, ackPc,
                   networkVars, rxActive, hand, active, recent, inbox, consumed>>

\* recently_received_messages[message->get_message_id()] = now.  Reading a
\* deleted message gives its id, some other id, or ends the process.
RecordReceived(w) ==
    /\ rxPc[w] = "record"
    /\ \/ /\ recent' = [recent EXCEPT ![w] = @ \cup {HandId(w)}]
          /\ rxPc' = [rxPc EXCEPT ![w] = "reply"]
          /\ UNCHANGED <<hand, active>>
       \/ /\ Freed(w)
          /\ rxPc' = [rxPc EXCEPT ![w] = "reply"]
          /\ UNCHANGED <<hand, active, recent>>
       \/ /\ Freed(w)
          /\ Abort(w)
    /\ UNCHANGED <<masterVars, senderVars, senderActive, acks, ackPc,
                   networkVars, rxActive, inbox, consumed>>

\* output_queue.push_front(message->create_acknowledgement()), with the same
\* three outcomes; an acknowledgement of another id has no effect.
SendWholeAck(w) ==
    /\ rxPc[w] = "reply"
    /\ \/ /\ wholeAcks' = wholeAcks \cup {[src |-> w, id |-> HandId(w)]}
          /\ GoOn(w)
          /\ UNCHANGED <<active, recent>>
       \/ /\ Freed(w)
          /\ GoOn(w)
          /\ UNCHANGED <<wholeAcks, active, recent>>
       \/ /\ Freed(w)
          /\ Abort(w)
          /\ UNCHANGED wholeAcks
    /\ UNCHANGED <<masterVars, senderVars, senderActive, acks, ackPc, netData,
                   netAck, rxActive, inbox, consumed>>

-----------------------------------------------------------------------------
\* The main thread of worker w pops a message, handles it and deletes it.
Consume(w) ==
    /\ Alive(w)
    /\ consumed[w] < Len(inbox[w])
    /\ consumed[w] < EagerPops \/ rxPc[w] \notin {"record", "reply"}
    /\ consumed' = [consumed EXCEPT ![w] = @ + 1]
    /\ UNCHANGED <<masterVars, senderVars, senderActive, acks, ackPc,
                   networkVars, rxActive, rxPc, hand, active, recent, inbox>>

\* It was told over TCP to shut down and calls multicast_receiver.stop(),
\* which does not wake a thread blocked in recvfrom().
StopReceiver(w) ==
    /\ Alive(w) /\ rxActive[w]
    /\ mainPc # "run"
    /\ rxActive' = [rxActive EXCEPT ![w] = FALSE]
    /\ UNCHANGED <<masterVars, senderVars, senderActive, acks, ackPc,
                   networkVars, rxPc, hand, active, recent, inbox, consumed>>

-----------------------------------------------------------------------------
SenderStep ==
    \/ BeginSend \/ OuterLoop \/ SendPacket \/ DropPacket \/ SendFails
    \/ EndBatch \/ FinishSend \/ SenderExits
    \/ \E a \in wholeAcks : DrainAck(a)

MasterStep ==
    \/ \E m \in Message : Produce(m) \/ RequestShutdown(m)
    \/ StopSender \/ Tick \/ AckProcessorExits
    \/ \E a \in netAck : ProcessAck(a)

HandleStep(w) ==
    \/ ProcessAborts(w) \/ StorePacket(w) \/ DeliverMessage(w)
    \/ DiscardMessage(w) \/ RecordReceived(w) \/ SendWholeAck(w)

ReceiveStep(w, p) ==
    \/ ReceiveCommand(w, p) \/ ReceiveResent(w, p) \/ ReceiveNew(w, p)

MemberStep(w) ==
    \/ HandleStep(w) \/ Consume(w) \/ StopReceiver(w)
    \/ \E p \in netData[w] : ReceiveStep(w, p) \/ AckFails(w, p)

NetworkStep == \/ \E w \in Member : \E p \in netData[w] : LoseData(w, p)
               \/ \E a \in netAck : LoseAck(a)

HostStep == SenderStep \/ MasterStep \/ \E w \in Member : MemberStep(w)

Next == HostStep \/ NetworkStep

Spec == Init /\ [][Next]_vars

\* Threads run; nothing is assumed of the networks.
ThreadFairness ==
    /\ WF_vars(SenderStep) /\ SF_vars(StopSender) /\ WF_vars(AckProcessorExits)
    /\ \A w \in Member : WF_vars(HandleStep(w)) /\ WF_vars(StopReceiver(w))

\* Only the sender thread and the clock run on: workers and networks need not.
ClockedSpec == Spec /\ WF_vars(SenderStep) /\ WF_vars(Tick)

\* A datagram sent again and again is received in the end.
NetworkFairness ==
    /\ \A w \in Member, p \in Packet :
          SF_vars(p \in netData[w] /\ ReceiveStep(w, p))
    /\ \A a \in PacketAck : SF_vars(ProcessAck(a))

FairSpec == Spec /\ ThreadFairness /\ NetworkFairness

-----------------------------------------------------------------------------
\* send_message() is running.
Sending == {"loop", "batch", "drain", "finish"}

MasterTypeOK ==
    /\ mainPc \in {"run", "grace", "stopped"}
    /\ produced \in Seq(Message) /\ outQueue \in Seq(Message)

SenderTypeOK ==
    /\ senderActive \in BOOLEAN
    /\ senderPc \in Sending \cup {"idle", "stopped"}
    /\ IF senderPc \in Sending
       THEN cur \in Message /\ IsAccounting(acks, Id, Worker)
       ELSE cur = NoMessage /\ acks = NoAcks
    /\ seqQueue \in Seq(Nat) /\ batch \in Nat
    /\ expired \in BOOLEAN /\ returnStatus \in BOOLEAN
    /\ outcome \in [Message -> {"none", "sent", "failed"}]
    /\ ackPc \in {"run", "stopped", "aborted"}

NetworkTypeOK ==
    /\ netData \in [Member -> SUBSET Packet]
    /\ netAck \subseteq PacketAck
    /\ wholeAcks \subseteq WholeAck

Handling == {"process", "record", "reply"}

ReceiverTypeOK ==
    /\ rxActive \in [Member -> BOOLEAN]
    /\ rxPc \in [Member -> Handling \cup {"recv", "stopped", "aborted"}]
    /\ DOMAIN hand = Member /\ DOMAIN active = Member
    /\ \A w \in Member :
          /\ IF rxPc[w] \in Handling THEN hand[w] \in Packet
                                     ELSE hand[w] = NoPacket
          /\ DOMAIN active[w] \subseteq Id
          /\ \A i \in DOMAIN active[w] : active[w][i] \in PartialMessage
    /\ recent \in [Member -> SUBSET Id]
    /\ inbox \in [Member -> Seq(Message)]
    /\ consumed \in [Member -> Nat]

TypeOK == MasterTypeOK /\ SenderTypeOK /\ NetworkTypeOK /\ ReceiverTypeOK

\* The sender thread knows its own message: the accounting is the one of the
\* message being sent, its queue holds packets of that message, the inner loop
\* never outruns the queue, and only a stop or an exception leaves packets.
SenderInv ==
    /\ senderPc \in Sending =>
          /\ acks.id = IdOf[cur] /\ acks.seqLen = SeqLen(cur)
          /\ Range(seqQueue) \subseteq PacketNumbers(SeqLen(cur))
    /\ senderPc = "batch" => batch <= Len(seqQueue)
    /\ senderPc \in Sending \ {"finish"} => returnStatus
    /\ senderPc = "finish" /\ returnStatus /\ senderActive => seqQueue = <<>>

\* The counters the sender decides from are the counts of the bits, however
\* often and from wherever an acknowledgement arrives.
CountersAgree == senderPc \in Sending => CountersMatchBits(acks)

\* A packet the sender has stopped sending was acknowledged by every worker.
NothingGivenUp ==
    senderPc \in Sending /\ returnStatus =>
        \A s \in PacketNumbers(SeqLen(cur)) :
            s \in Range(seqQueue) \/ Worker \X {s} \subseteq acks.acks

\* Worker w has taken packet s of message m from the network.
Taken(w, m, s) ==
    \/ m \in Delivered(w)
    \/ rxPc[w] = "process" /\ hand[w] = [msg |-> m, seq |-> s]
    \/ /\ IdOf[m] \in DOMAIN active[w]
       /\ LET r == active[w][IdOf[m]]
          IN  IF IsChecksum(m, s) THEN r.checksum = m
              ELSE \E p \in r.pieces : p.seq = s /\ p.from = m

\* No acknowledgement is made up: the ones in transit and the ones accounted
\* for stand for packets their worker really took (or it is dead).
AcksAreReal ==
    \A m \in Message, w \in Worker :
        Alive(w) =>
            /\ \A a \in netAck :
                  a.src = w /\ a.id = IdOf[m] => Taken(w, m, a.seq)
            /\ acks # NoAcks /\ acks.id = IdOf[m] =>
                  \A s \in PacketNumbers(SeqLen(m)) :
                      <<w, s>> \in acks.acks => Taken(w, m, s)

\* A worker gets no message twice, whatever the networks repeat.
AtMostOnce ==
    \A w \in Member : \A i, j \in DOMAIN inbox[w] :
        inbox[w][i] = inbox[w][j] => i = j

\* Two messages reach a worker in an order other than the master's only if
\* the sender had given up on the earlier one.
OrderKept ==
    \A w \in Worker : \A i, j \in DOMAIN produced : \A p, q \in DOMAIN inbox[w] :
        /\ i < j /\ p < q
        /\ inbox[w][p] = produced[j] /\ inbox[w][q] = produced[i]
        => outcome[produced[i]] # "sent"

\* A message that enters the input queue of a worker has every byte of one
\* message the master sent in its place, even when ids are used twice.
IntactDelivery ==
    [][\A w \in Member :
          rxPc[w] = "process" /\ inbox'[w] # inbox[w] =>
              LET m == inbox'[w][Len(inbox'[w])]
              IN  \A s \in 0 .. SeqLen(m) - 1 :
                    [seq |-> s, from |-> m, at |-> s * PacketSize]
                        \in PartialAfter(w).pieces]_vars

\* send_message() fails only after an exception or because it was stopped.
FailureHasCause ==
    [][\A m \in Message :
          outcome[m] = "none" /\ outcome'[m] = "failed" =>
              ~ returnStatus \/ ~ senderActive]_vars

\* Whatever the networks do, send_message() returns.
SendReturns == senderPc = "loop" ~> senderPc = "idle" \/ ~ MasterUp

\* A message the master queued gets to every worker that survives it.
EventuallyDelivered ==
    \A m \in Message \ Command, w \in Worker :
        m \in Range(produced) ~>
            m \in Delivered(w) \/ ~ Alive(w) \/ ~ senderActive

-----------------------------------------------------------------------------
\* The promise of the protocol, for the messages that carry data.  A message
\* counts as received from the moment its last packet is in the hands of a
\* receiver that will deliver it, and a worker as down from the moment it
\* holds a packet that will end it.
Doomed(w) == ~ Alive(w) \/ (rxPc[w] = "process" /\ Verdict(w) = "throw")

Delivering(w) == rxPc[w] = "process" /\ Verdict(w) = "deliver"

Promise == INSTANCE ReliableMulticast WITH
    Message  <- Message \ Command,
    status   <- [m \in Message \ Command |->
                    IF outcome[m] # "none" THEN outcome[m]
                    ELSE IF m \in Range(produced) THEN "submitted" ELSE "new"],
    received <- [w \in Worker |->
                    {m \in Message \ Command :
                        m \in Delivered(w) \/ (Delivering(w) /\ m = InHand(w))}],
    down     <- {w \in Worker : Doomed(w)}

\* Every step of the protocol is a step of the promise or invisible to it.
KeepsPromise == Promise!Spec
=============================================================================
