------------------------------ MODULE TcpLink ------------------------------
(***************************************************************************)
(* Messages over TCP between the master and the workers.  Every process     *)
(* has a TCP_Sender (one thread, a queue of messages to try again, a map of  *)
(* messages that wait for their acknowledgement), a TCP_Receiver (thread     *)
(* acceptor, and a thread for every connection) and the eddl_queues between  *)
(* these threads and its main thread.  A message is a connection of its own. *)
(***************************************************************************)
EXTENDS Naturals, Sequences, FiniteSets, Functions

CONSTANTS Master, Worker,
          Gradients,    \* what DATA_GRADIENTS messages carry
          OwnerOf,      \* [Gradients -> Worker]
          IdOf,         \* [Gradients -> message id]
          NoMessage,    \* the sender thread holds no message
          Worlds        \* what processes may have to do, and live with

Node == Worker \cup {Master}

ASSUME TcpAssumption ==
    /\ Master \notin Worker /\ IsFiniteSet(Worker)
    /\ OwnerOf \in [Gradients -> Worker] /\ DOMAIN IdOf = Gradients

Commands == {"start", "stop", "shutdown"}

World == [gradients : SUBSET Gradients,  \* what the workers produce
          signals : SUBSET Commands,     \* what may be signalled to the master
          refusals : BOOLEAN,            \* a connection or a write may fail
          losses : BOOLEAN,              \* what was written may not arrive
          longWaits : BOOLEAN]           \* 50 seconds may pass before another try

ASSUME WorldAssumption == Worlds \subseteq World

\* num tells the commands to one node apart.
Message == [kind : Commands \cup {"gradients", "ack"},
            from : Node, to : Node, num : Nat \cup Gradients]

ASSUME NoMessageAssumption == NoMessage \notin Message

Command(c, to, num) == [kind |-> c, from |-> Master, to |-> to, num |-> num]
GradientsOf(g) ==
    [kind |-> "gradients", from |-> OwnerOf[g], to |-> Master, num |-> g]

\* create_acknowledgement() carries the id back to where it came from.
Acknowledgement(m) == [kind |-> "ack", from |-> m.to, to |-> m.from, num |-> m.num]

VARIABLES
    world,         \* the one of Worlds
    output,        \* output_queue
    ackQueue,      \* generic_ack_queue
    input,         \* input_queue
    received,      \* the gradients that were pushed to an input_queue
    lost,          \* the gradients a connection lost, and the too old ones
    senderActive,  \* TCP_Sender::sender_active
    failed,        \* sender_status is not NORMAL_OPERATION
    pending,       \* queue_of_pending_messages
    sent,          \* the keys of sent_messages
    senderPc,      \* thread sender: "top", "choose", "pop pending", "pop output",
                   \* "send", "stopped", "aborted"
    hand,          \* the message thread sender works on
    receiverActive,\* TCP_Receiver::receiver_active
    accepting,     \* thread acceptor has not returned
    backlog,       \* what the connections carry that were not accepted yet
    reading,       \* what the threads of the accepted ones read
    delivering     \* gradients between the two pushes of such a thread

queueVars    == <<output, ackQueue, input, received, lost>>
senderVars   == <<failed, pending, sent, senderPc, hand>>
receiverVars == <<accepting, backlog, reading, delivering>>
tcpVars == <<queueVars, senderVars, receiverVars, senderActive, receiverActive>>

TcpInit ==
    /\ world \in Worlds
    /\ ackQueue = [n \in Node |-> <<>>] /\ input = [n \in Node |-> <<>>]
    /\ received = {} /\ lost = {}
    /\ senderActive = [n \in Node |-> TRUE] /\ failed = [n \in Node |-> FALSE]
    /\ pending = [n \in Node |-> <<>>] /\ sent = [n \in Node |-> {}]
    /\ senderPc = [n \in Node |-> "top"] /\ hand = [n \in Node |-> NoMessage]
    /\ receiverActive = [n \in Node |-> TRUE] /\ accepting = [n \in Node |-> TRUE]
    /\ backlog = [n \in Node |-> {}] /\ reading = [n \in Node |-> {}]
    /\ delivering = [n \in Node |-> {}]

\* An exception that leaves the sender thread ends the process.
Up(n) == senderPc[n] # "aborted"

\* eddl_queue::push() and pop().
Push(queue, n, m) == queue' = [queue EXCEPT ![n] = Append(@, m)]
Pop(queue, n)     == queue' = [queue EXCEPT ![n] = Tail(@)]

-----------------------------------------------------------------------------
\* Thread sender of process n.
Goto(n, from, to) == /\ senderPc[n] = from
                     /\ senderPc' = [senderPc EXCEPT ![n] = to]

\* The test of its loop, when the queue of acknowledgements was emptied.
Top(n) ==
    /\ ackQueue[n] = <<>> /\ (senderActive[n] => ~ failed[n])
    /\ Goto(n, "top", IF senderActive[n] THEN "choose" ELSE "stopped")
    /\ UNCHANGED <<queueVars, receiverVars, senderActive, receiverActive,
                   failed, pending, sent, hand>>

\* Where it looks for a message: empty() says which pop() follows.
Choose(n) ==
    /\ Goto(n, "choose",
            IF senderActive[n] /\ pending[n] # <<>> THEN "pop pending"
            ELSE IF output[n] # <<>> THEN "pop output" ELSE "top")
    /\ UNCHANGED <<queueVars, receiverVars, senderActive, receiverActive,
                   failed, pending, sent, hand>>

\* Mutant: the time of the failure is never looked at.
RecoverNothing(n) ==
    /\ senderActive[n] /\ failed[n]
    /\ senderPc[n] = "top" /\ ackQueue[n] = <<>>
    /\ UNCHANGED tcpVars

\* A second has passed since sending failed.
Recover(n) ==
    /\ senderActive[n] /\ failed[n]
    /\ senderPc[n] = "top" /\ ackQueue[n] = <<>>
    /\ failed' = [failed EXCEPT ![n] = FALSE]
    /\ UNCHANGED <<queueVars, receiverVars, senderActive, receiverActive,
                   pending, sent, senderPc, hand>>

\* pop() waits while the queue is empty.
PopPending(n) ==
    /\ pending[n] # <<>>
    /\ Goto(n, "pop pending", "send")
    /\ hand' = [hand EXCEPT ![n] = Head(pending[n])]
    /\ Pop(pending, n)
    /\ UNCHANGED <<queueVars, receiverVars, senderActive, receiverActive,
                   failed, sent>>

\* Gradients are kept until they are acknowledged.
MustKeep(m) == m.kind = "gradients"

Lose(m) == lost' = IF MustKeep(m) THEN lost \cup {m.num} ELSE lost

\* Mutant: a deleted message is sent.
DropTooOldUnchecked(n) ==
    /\ world.longWaits /\ pending[n] # <<>>
    /\ Goto(n, "pop pending", "send")
    /\ Lose(Head(pending[n]))
    /\ Pop(pending, n)
    /\ UNCHANGED <<output, ackQueue, input, received, receiverVars, senderActive,
                   receiverActive, failed, sent, hand>>

\* A message more than fifty seconds old is deleted, and the next one wanted.
DropTooOld(n) ==
    /\ world.longWaits /\ pending[n] # <<>>
    /\ Goto(n, "pop pending", "choose")
    /\ Lose(Head(pending[n]))
    /\ Pop(pending, n)
    /\ UNCHANGED <<output, ackQueue, input, received, receiverVars, senderActive,
                   receiverActive, failed, sent, hand>>

\* Mutant: front() instead of pop().
PopOutputNot(n) ==
    /\ output[n] # <<>>
    /\ Goto(n, "pop output", "send")
    /\ hand' = [hand EXCEPT ![n] = Head(output[n])]
    /\ UNCHANGED <<queueVars, receiverVars, senderActive, receiverActive, failed,
                   pending, sent>>

PopOutput(n) ==
    /\ output[n] # <<>>
    /\ Goto(n, "pop output", "send")
    /\ hand' = [hand EXCEPT ![n] = Head(output[n])]
    /\ Pop(output, n)
    /\ UNCHANGED <<ackQueue, input, received, lost, receiverVars, senderActive,
                   receiverActive, failed, pending, sent>>

\* wait() may return although nothing was pushed: pop() gives nullptr, which
\* is tested for after output_queue.pop() and used after the other one.
WakeForNothing(n) ==
    /\ \/ pending[n] = <<>> /\ Goto(n, "pop pending", "aborted")
       \/ output[n] = <<>> /\ Goto(n, "pop output", "top")
    /\ UNCHANGED <<queueVars, receiverVars, senderActive, receiverActive,
                   failed, pending, sent, hand>>

\* Mutant: a message is forgotten as soon as it is sent.
KeepNothing(n) == UNCHANGED sent /\ Goto(n, "send", "top")

\* sent_messages[msg_id] = message, which throws when the key is there.
Keep(n) ==
    IF ~ MustKeep(hand[n]) THEN UNCHANGED sent /\ Goto(n, "send", "top")
    ELSE IF IdOf[hand[n].num] \in sent[n]
         THEN UNCHANGED sent /\ Goto(n, "send", "aborted")
         ELSE /\ sent' = [sent EXCEPT ![n] = @ \cup {IdOf[hand[n].num]}]
              /\ Goto(n, "send", "top")

Connect(m) == backlog' = [backlog EXCEPT ![m.to] = @ \cup {m}]

\* send_message() returns true: the connection took every byte.
Send(n) ==
    /\ senderPc[n] = "send" /\ Up(hand[n].to)
    /\ Connect(hand[n])
    /\ Keep(n)
    /\ hand' = [hand EXCEPT ![n] = NoMessage]
    /\ UNCHANGED <<queueVars, senderActive, receiverActive, failed, pending,
                   accepting, reading, delivering>>

\* The message waits in the queue of pending ones, unless this is the end.
KeepFailed(n) ==
    pending' = IF senderActive[n]
               THEN [pending EXCEPT ![n] = Append(@, hand[n])] ELSE pending

\* It returns false: the connection is refused, or breaks during a write and
\* has only woken the acceptor up.
SendFails(n) ==
    /\ Goto(n, "send", "top")
    /\ LET to == hand[n].to
       IN  \/ (world.refusals \/ ~ Up(to) \/ ~ accepting[to]) /\ UNCHANGED accepting
          \/ /\ world.refusals /\ Up(to) /\ accepting[to]
             /\ accepting' = [accepting EXCEPT ![to] = receiverActive[to]]
    /\ failed' = [failed EXCEPT ![n] = TRUE]
    /\ KeepFailed(n)
    /\ hand' = [hand EXCEPT ![n] = NoMessage]
    /\ UNCHANGED <<queueVars, senderActive, receiverActive, sent, backlog,
                   reading, delivering>>

\* An acknowledged message is deleted; unknown ids are ignored.
TakeAck(n) ==
    /\ senderPc[n] = "top" /\ ackQueue[n] # <<>>
    /\ sent' = [sent EXCEPT ![n] = @ \ {IdOf[Head(ackQueue[n])]}]
    /\ Pop(ackQueue, n)
    /\ UNCHANGED <<output, input, received, lost, receiverVars, senderActive,
                   receiverActive, failed, pending, senderPc, hand>>

-----------------------------------------------------------------------------
\* The receiving threads of process n.

\* The acceptor starts a thread for the connection and looks at its flag.
Accept(n, m) ==
    /\ Up(n) /\ accepting[n] /\ m \in backlog[n]
    /\ backlog' = [backlog EXCEPT ![n] = @ \ {m}]
    /\ reading' = [reading EXCEPT ![n] = @ \cup {m}]
    /\ accepting' = [accepting EXCEPT ![n] = receiverActive[n]]
    /\ UNCHANGED <<queueVars, senderVars, senderActive, receiverActive,
                   delivering>>

ReadsFrom(n, m) ==
    /\ Up(n) /\ m \in reading[n]
    /\ reading' = [reading EXCEPT ![n] = @ \ {m}]

\* Mutant: what could not be read is acknowledged as well.
ReadFailsAcknowledged(n, m) ==
    /\ world.losses /\ ReadsFrom(n, m)
    /\ Lose(m)
    /\ IF MustKeep(m) THEN Push(output, n, Acknowledgement(m)) ELSE UNCHANGED output
    /\ UNCHANGED <<ackQueue, input, received, senderVars, senderActive,
                   receiverActive, accepting, backlog, delivering>>

\* receive_message() returns nullptr: a read fails or comes up short, or the
\* checksum is wrong.
ReadFails(n, m) ==
    /\ world.losses /\ ReadsFrom(n, m)
    /\ Lose(m)
    /\ UNCHANGED <<output, ackQueue, input, received, senderVars, senderActive,
                   receiverActive, accepting, backlog, delivering>>

ReadAck(n, m) ==
    /\ ReadsFrom(n, m) /\ m.kind = "ack"
    /\ Push(ackQueue, n, m.num)
    /\ UNCHANGED <<output, input, received, lost, senderVars, senderActive,
                   receiverActive, accepting, backlog, delivering>>

ReadCommand(n, m) ==
    /\ ReadsFrom(n, m) /\ m.kind \in Commands
    /\ receiverActive' = [receiverActive EXCEPT ![n] = @ /\ m.kind # "shutdown"]
    /\ Push(input, n, m)
    /\ UNCHANGED <<output, ackQueue, received, lost, senderVars, senderActive,
                   accepting, backlog, delivering>>

\* Gradients are acknowledged first ...
ReadGradients(n, m) ==
    /\ ReadsFrom(n, m) /\ m.kind = "gradients"
    /\ Push(output, n, Acknowledgement(m))
    /\ delivering' = [delivering EXCEPT ![n] = @ \cup {m}]
    /\ UNCHANGED <<ackQueue, input, received, lost, senderVars, senderActive,
                   receiverActive, accepting, backlog>>

\* ... and delivered then.
Deliver(n, m) ==
    /\ Up(n) /\ m \in delivering[n]
    /\ delivering' = [delivering EXCEPT ![n] = @ \ {m}]
    /\ Push(input, n, m)
    /\ received' = received \cup {m.num}
    /\ UNCHANGED <<output, ackQueue, lost, senderVars, senderActive,
                   receiverActive, accepting, backlog, reading>>

-----------------------------------------------------------------------------
SenderRuns(n) ==
    \/ Top(n) \/ Recover(n) \/ Choose(n) \/ PopPending(n) \/ DropTooOld(n)
    \/ PopOutput(n) \/ Send(n) \/ SendFails(n) \/ TakeAck(n)

ReadStep(n, m) ==
    \/ ReadFails(n, m) \/ ReadAck(n, m) \/ ReadCommand(n, m)
    \/ ReadGradients(n, m) \/ Deliver(n, m)

ReceiverStep(n) ==
    \/ \E m \in backlog[n] : Accept(n, m)
    \/ \E m \in reading[n] \cup delivering[n] : ReadStep(n, m)

TcpStep(n) == SenderRuns(n) \/ WakeForNothing(n) \/ ReceiverStep(n)

-----------------------------------------------------------------------------
SenderTypeOK ==
    /\ senderActive \in [Node -> BOOLEAN] /\ failed \in [Node -> BOOLEAN]
    /\ senderPc \in [Node -> {"top", "choose", "pop pending", "pop output", "send",
                              "stopped", "aborted"}]
    /\ DOMAIN hand = Node
    /\ \A n \in Node : IF senderPc[n] = "send"
                       THEN hand[n] \in Message ELSE hand[n] = NoMessage
    /\ pending \in [Node -> Seq(Message)]
    /\ sent \in [Node -> SUBSET Range(IdOf)]

TcpTypeOK ==
    /\ SenderTypeOK
    /\ output \in [Node -> Seq(Message)] /\ input \in [Node -> Seq(Message)]
    /\ ackQueue \in [Node -> Seq(Gradients)] /\ received \subseteq Gradients
    /\ lost \subseteq Gradients
    /\ receiverActive \in [Node -> BOOLEAN] /\ accepting \in [Node -> BOOLEAN]
    /\ DOMAIN backlog = Node /\ DOMAIN reading = Node /\ DOMAIN delivering = Node
    /\ \A n \in Node :
          backlog[n] \cup reading[n] \cup delivering[n] \subseteq Message

\* Where a message m to process n may be on its way.
Queued(m, n)  == m \in Range(output[n]) \cup Range(pending[n]) \/ hand[n] = m
OnTheWay(m)   == m \in backlog[m.to] \cup reading[m.to]

\* An acknowledgement of gradients g, wherever it is on its way, says that
\* they are in the input queue of the master or on their last step to it.
AcksAreTrue ==
    \A g \in Gradients :
        LET ack == Acknowledgement(GradientsOf(g))
        IN  \/ Queued(ack, Master) \/ OnTheWay(ack) \/ g \in Range(ackQueue[OwnerOf[g]])
            => g \in received \/ GradientsOf(g) \in delivering[Master]

\* A sender keeps the gradients it has sent until it gets the
\* acknowledgement, wherever the two are on their way.
KeptUntilAcknowledged ==
    \A g \in Gradients :
        LET ack == Acknowledgement(GradientsOf(g))
        IN  /\ Up(OwnerOf[g])
            /\ \/ OnTheWay(GradientsOf(g)) \/ Queued(ack, Master)
               \/ OnTheWay(ack) \/ g \in Range(ackQueue[OwnerOf[g]])
            => IdOf[g] \in sent[OwnerOf[g]]

\* In how many places the gradients are.
Occurrences(m, queue) == Cardinality({i \in DOMAIN queue : queue[i] = m})
One(condition) == IF condition THEN 1 ELSE 0

Copies(g) ==
    LET m == GradientsOf(g)
    IN  Occurrences(m, output[m.from]) + Occurrences(m, pending[m.from])
        + One(hand[m.from] = m) + One(m \in backlog[Master])
        + One(m \in reading[Master]) + One(m \in delivering[Master])
        + One(g \in received)

=============================================================================
