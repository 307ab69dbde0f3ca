# EDDL in TLA+

EDDL is a C++ library for distributed deep learning.  This directory holds a
formal model of the parts of it whose correctness depends on the order in which
things happen - threads, packets, processes, queues - and of the pure
algorithms those parts rest on.  The modules are translated from the source
files, not from the documentation; where the two disagree, a run says so.

## 1. Inventory

Paths are relative to the repository.  `C/` stands for
`src/distributed/communications/`, `H/` for `include/eddl/distributed/`.

### 1.1 The master/worker communications

| Component | State | Operations | Interacts through |
|---|---|---|---|
| Messages and packets (`C/eddl_message.cpp`, `C/eddl_packet.cpp`, `H/eddl_packet_ack.h`) | a message under construction: size, packet size, number of packets, which packets were added, checksum | cut into packets, add a packet, set and verify the checksum, create acknowledgements | owned by exactly one thread at a time, handed over through queues |
| Accounting of acknowledgements (`C/eddl_message_acks.cpp`) | a bit per worker and packet, a counter per packet, a global counter, creation time | acknowledge a packet, acknowledge a whole message, ask whether everything is acknowledged, ask whether it takes too long | shared by the sender and ack_processor threads under one mutex |
| `MulticastSender` (`C/multicast_sender.cpp`) | `sender_active`, `active_acknowledgements`, sending rate; in `send_message()`: `seq_no_queue`, `return_status` | threads `sender` and `ack_processor`, `stop()` | pops `weights_output_queue` and `weights_ack_queue`; UDP multicast out, UDP acknowledgements in |
| `MulticastReceiver` (`C/multicast_receiver.cpp`) | `receiver_active`, `active_messages`, `recently_received_messages` | thread `receiver`, `send_ack()`, `stop()` | UDP in and out; pushes `input_queue` and `output_queue` |
| `eddl_queue` (`H/eddl_queue.h`) | a queue of owned messages, a mutex, a condition variable | `push`, `push_front`, `pop`, `front`, `size`, `empty`, `clear` | every thread of a process; in the master also the signal handler |
| `TCP_Sender` (`C/tcp_sender.cpp`) | `sender_active`, `sender_status` and when it changed, `queue_of_pending_messages`, `sent_messages` | thread `sender`, `send_message`, `manage_to_send_message`, `stop` | pops the output queue and the acknowledgement queue; TCP connections to the peers |
| `TCP_Receiver` (`C/tcp_receiver.cpp`) | `receiver_active`, the listening socket, the queue of `ActiveThread`s | threads `acceptor`, `joiner`, one thread per connection, `stop`, `drop_stopped` | pushes the input, output and acknowledgement queues |
| Master main (`runtime/distributed/master.cpp`) | `master_active`, `shutdown_master`, list of workers | START, STOP, SHUTDOWN, producing weights; a signal handler turns signals into commands | all queues, `stop()` of its three communication objects |
| Worker main (`runtime/distributed/worker.cpp`) | `worker_status`, waiting times, its master's address | START, STOP, SHUTDOWN, MASTER_A_WORKER, FREE_A_WORKER, producing gradients | all queues, `stop()` of its three communication objects |

Hard behaviour: six to ten threads per process that share unsynchronised flags;
UDP that loses, repeats and reorders; messages whose ownership moves between
threads; thread functions out of which an exception ends the process; shutdown
that depends on one thread waking another out of a blocking system call.
What makes it correct: no message is delivered twice, torn or made up; a message
reported as sent is with every worker; accounting kept in counters agrees with
what was received; every send ends; shutting down ends every thread.

### 1.2 Distributed training with MPI

| Component | State | Operations | Interacts through |
|---|---|---|---|
| Data generator (`src/mpi_distributed/data_generator.cpp`, `DG_Data` and the older free functions) | ring of buffers, producer/consumer positions, permutation of batches, semaphores, thread list | create, start, `get_batch`, stop, destroy; one or more producer threads | threads of one process, semaphores, a file |
| Weight averaging (`src/mpi_distributed/mpi_distributed.cpp`) | `batches_avg` (how many batches between two averages), averaging policy, per-rank weights | `avg_weights_distributed`, `update_batch_avg_distributed`, broadcast, barriers | MPI collectives between ranks |

Hard behaviour: several producers fill consecutive slots of a ring in any order,
file position shared by threads, threads cancelled in the middle of a step,
collectives that block unless every rank calls them equally often, integer
policies that halve, double or compute the averaging interval at its limits, and
arguments that nothing checks before they are divided by.
What makes it correct: the consumer gets every batch of an epoch once, complete
and in a slot no producer is writing; every rank makes the same collective
calls; no policy turns a positive interval into zero.

### 1.3 Networks

| Component | State | Operations | Interacts through |
|---|---|---|---|
| Graph construction (`src/net/net_build.cpp`, `net.cpp`) | layers, their parents and children, `vfts`/`vbts` orders, copies per device (`snets`) | build, topological sorts, split over devices, resize | layers |
| Training loop (`src/net/net_api.cpp`, `net_func.cpp`, `netloss.cpp`) | accumulated losses and metrics, mode, batch counters | forward, backward, loss, update, `fit`, `evaluate`, threads per device | `snets`, optimizers, losses |
| Unrolling of recurrent nets (`src/net/net_unroll.cpp`) | the unrolled net `rnet` and shared parameters | unroll encoder/decoder, copy states | graph construction |
| Computing service (`src/net/compserv.cpp`) | device lists, local sync batches | constructors | graph construction |
| Pooling layers (`src/layers/pool`, `src/descriptors/descriptor_pool*.cpp`, `cpu_pool.cpp`) | shape, padding, recorded indices, delta | build, resize, forward, backward, copies for devices and time steps | tensors, graph construction |
| Layers, losses, metrics, optimizers, regularizers, initializers, constraints | parameters, gradients, moments | forward, backward, applygrads | tensors |

Hard behaviour: orders computed from in-degrees on shared graphs, one thread per
device that must join before losses are summed, learning state copied between
original and unrolled nets.  What makes it correct: every layer runs after all
its parents and its gradient after all its children, once; the gradient of a layer
is the sum over all paths to the losses; the copies of a net are the same net, and
their weights do not drift apart; what a layer keeps has room for the batch it is
given.

### 1.4 Tensors, formats and the rest

Tensor class and its descriptors (`src/tensor`, `src/descriptors`), CPU, GPU and
FPGA kernels (`src/hardware`), serialization (ONNX, txt, bin, images), random
generators and profiling helpers, the public API (`src/apis/eddl.cpp`), examples,
tests, and third-party code (generated protobuf, Eigen, stb, Doctest).  These are
numeric kernels, format conversions and thin wrappers: sequential code in which
the interesting part is arithmetic on floating point data, which model checking
does not reach.  The shape arithmetic of descriptors is the exception; that of
pooling is in section 9.

## 2. Plan

In order of importance, each module with the runs that make it real:

1. `MessageAcks`, `Reassembly`, `Multicast` (the protocol and its threads),
   abstract specification `ReliableMulticast`, proofs in `MulticastProofs`.
   **Done.**
2. `TcpLink`: TCP senders, acceptors and reading threads with the queues between
   them.  **Done.**  `MessageQueue`: one `eddl_queue` with its mutex, its condition
   variable and the signal handler; proofs in `MessageQueueProofs`.  **Done**,
   section 6.
3. `Cluster`: the main loops of master and workers on top of `TcpLink`; START,
   STOP, gradients, SHUTDOWN; proofs in `ClusterProofs`.  **Done**, section 5.
   Left: an abstract specification of the link for it to implement, an instance
   with two workers (too large so far), the destructors.
4. `DataGenerator`: ring of slots with several producers, against an abstract
   specification `BatchStream` (only whole batches, none twice), start, stop,
   end; proofs in `DataGeneratorProofs`.  **Done** for the `DG_Data` interface.
5. `WeightAveraging`: ranks, collectives and interval policies; proofs in
   `WeightAveragingProofs`.  **Done**, section 7.
6. `LayerGraph`, `Backprop`, `Devices`, `Training`: how nets are sorted, cloned for
   devices and trained; proofs in `NetProofs` and `SweepProofs`.  **Done**,
   section 8.  Left: unrolling of recurrent nets.
7. `Pooling`: shapes, windows and buffers of a layer; proofs in `PoolingProofs`.
   **Done**, section 9.  Left: the other descriptors.
8. Proofs.  **Done** for every safety property the runs check; liveness stays with TLC,
   and `ENABLED` and what recursive operators compute are out of the prover's reach.

Where TLAPS proves type correctness of a module for all values of its constants, its
runs do not repeat it, except those of `Cluster` and `Training`, whose type invariants
the runs check as well.

## 3. The multicast

### 3.1 Modules

`MessageAcks` is `eddl_message_acks`: a record of what it counts and operators
for its methods.  `Reassembly` is the part of `eddl_message` that cuts a message
into packets and puts it together: a message has a size in units of data, the
pieces a receiver has stored are records of sequence number, origin and place,
and a checksum is the message it was computed over, so that "the checksum is
valid" means "exactly the pieces of that message, each in its place".

`Multicast` extends both and has the threads.  What the code keeps where:

| Model | Code |
|---|---|
| `mainPc`, `produced`, `outQueue`, `Produce`, `RequestShutdown`, `StopSender` | master main loop, `weights_output_queue`, SHUTDOWN |
| `senderPc`, `cur`, `seqQueue`, `batch`, `returnStatus`, `outcome` and `BeginSend` to `SenderExits` | `MulticastSender::sender()` and `send_message()`: the outer loop, the inner `for` over as many packets as were queued, the drain of `weights_ack_queue`, the return value |
| `acks`, `expired`, `Tick` | the entry of `active_acknowledgements`; `lasting_too_much_time()` |
| `ackPc`, `ProcessAck`, `AckProcessorExits` | thread `ack_processor` |
| `netData`, `netAck`, `Carry`, `AfterDelivery`, `LoseData`, `LoseAck` | the UDP sockets and the network (external) |
| `wholeAcks` | a worker's `output_queue`, TCP, the master's `weights_ack_queue`; only its order is left out |
| `rxActive`, `rxPc`, `hand`, `active`, `recent` and `ReceiveCommand` to `SendWholeAck` | `MulticastReceiver::receiver()`: `active_messages`, `recently_received_messages`; one step up to the acknowledgement of a packet, one for storing it, one each for what it does after `input_queue.push()` |
| `inbox`, `consumed`, `Consume`, `StopReceiver` | a worker's `input_queue` and main loop |

`ReliableMulticast` is what the protocol promises: messages are submitted, every
worker receives a message at most once and only if it was submitted, a message
ends as sent or failed, and it may end as sent only when every worker that is
not down has received it.

Steps of different threads interleave at every access to something shared.  An
exception that leaves a thread function ends the process: `"aborted"`.

### 3.2 Assumptions

- A socket holds `Capacity` datagrams and loses the rest; the network also
  loses any datagram at any time, delivers in any order, and with `Duplicates`
  again.  TCP, which brings the acknowledgement of a whole message, delivers in
  any order (every message is a connection of its own) and loses nothing.
- `StopSender`: the master sleeps one second before it stops its sender.  A
  sender with nothing to do looks into its queue ten times a second and needs no
  more than that second to put one command on the network, so the guard lets the
  stop overtake the command only when the sender is busy with a message.
- Reading a message after `input_queue.push()` when the main thread has already
  deleted it (`EagerPops`) has the outcomes of reading freed memory: the right
  id, another id, or the end of the process.
- Ids are a constant: `OwnIds` when no two messages of the worker's memory share
  a millisecond, `SharedIds` when they do.  `LongRuns` lets an hour pass.
- The sending rate, statistics and log output are left out.

### 3.3 Runs

A message of size 3 is one data packet and the checksum packet, one of size 7
two data packets, the last of them shorter (`PacketSize` 4): the smallest sizes
at which layouts differ between packets.  Two datagrams per socket let a packet of
one message stay behind while the next message passes; elsewhere one per socket
is enough for an old and a new one to race, as the old one may be in the
receiver's hands.  Everything else is bounded by the messages
the master may create.

| Run | Instance | Shows |
|---|---|---|
| `messages` | 1 worker, 2 short messages, two datagrams per socket, socket errors, timeout | `AcksAreReal`: every acknowledgement in transit or accounted for stands for a packet its worker took; `AtMostOnce`; `OrderKept`: overtaking only after the sender gave up |
| `accounting` | 1 worker and a group member outside the list, duplicates, timeout | `CountersAgree`: bits and counters agree whoever acknowledges; `SendReturns` whatever the others do |
| `workers` | 2 workers (symmetric) | `NothingGivenUp`: a packet leaves the queue only when every worker has acknowledged it; `KeepsPromise`: `Multicast` implements `ReliableMulticast`, so a message reported as sent is with, or entering the input queue of, every live worker, and none gets it twice |
| `reused` | a long and a short message with one id, long runs, eager main thread, timeout | `IntactDelivery`: what is delivered is one whole message |
| `delivery` | 1 worker, a message, and SHUTDOWN at any time | `EventuallyDelivered`; `FailureHasCause` |

Fairness.  `ThreadFairness`: every thread that can take a step takes one in the
end (the operating system's scheduler); `StopSender` strongly, as the sleep of
the main thread ends whatever the sender does.  `ClockedSpec` assumes only that the
sender thread and the clock go on: `SendReturns` holds when every packet is lost
and every worker hangs.
`NetworkFairness`: a datagram sent again and again is received some time; without
it nothing can be promised over UDP.  `delivery` needs it, and no timeout.

### 3.4 Conditions

Some behaviours are in the model without a run of their own, as conditions of the
properties.  After `input_queue.push(message)` the receiver uses the message it
gave away (`multicast_receiver.cpp:261`); with a wrong id in
`recently_received_messages` the resent packets build and deliver the message
again, so the runs that check `AtMostOnce` set `EagerPops` to 0, and its theorem names the
condition, `NothingFreedEarly`.  A receiver takes type
and packet size of a new message from the first packet to arrive; if that is the
checksum packet, or a shorter last packet, a later `throw` ends the worker, which
is why every promise to a worker excepts those that are not `Alive`.  And a master
that shuts down while it sends leaves the packet that should unlock the receivers
in its queue.

### 3.5 Proofs

`MulticastProofs` begins with one message: that no packet of any message is empty (`DataSizeType`), and,
from lemmas on cardinalities, that `acknowledge()` and
`acknowledge_whole_message()` keep the counters equal to the counts of the bits,
so that `all_has_been_acknowledged()` is true exactly when all bits are set
(`AllAcknowledgedIffAllBits`).  Assumption: `SizesAreValid`, sizes are naturals
and a packet has room.

Then the protocol, for any set of workers and strangers, any messages and any
network: `TypeCorrect` and `SenderIsRight` from `TypeInv /\ SenderInv` (the type
of `batch` needs that the inner loop never outruns the queue, and the type of
`acks` that accounting exists exactly while a message is sent);
`CountersAlwaysAgree` and `NothingIsGivenUp` from
`SafetyInv == TypeInv /\ CountersAgree /\ NothingGivenUp`, which is inductive only
as a whole (a packet leaves the queue on the word of a counter, and a counter
is worth what its bits are); `FailuresHaveCauses`, an
action property, from the same invariant: without it nothing says that a queue
which is empty at the end was emptied by acknowledgements.  Assumption:
`MulticastAssumption`.

The properties that relate the two ends and the network between them rest on one
invariant, `ProtocolInv`.  Its parts, each of which needs the ones before it:

- `SafetyInv`, above.
- `ReassemblyInv`: what a worker has assembled are packets of one message with its id,
  each in its place, and what it is about to hand over is all of one.  Hence
  `MessagesAreIntact`.
- `MasterInv`: the queue holds what was produced last, and nothing was begun after the
  message being sent.  `BegunInv`: packets, and what workers have, are of messages that
  were begun.
- `AckInv`: an acknowledgement of a packet or of a message, under way or accounted
  for, is of something its worker has, if the messages begun so far have different ids.
  Hence `AcksAreAlwaysReal`.
- `MemoryInv`: a worker remembers the id of everything it delivered, or is about to.
  Hence `AtMostOnceHolds`.
- `SentInv`: what was reported as sent every worker has, is about to deliver, or will
  never ask for, as it has ended.  `OrderInv`: messages arrive in the order in which
  they were queued, but for those that were given up.  Hence `OrderIsKept`.

`PromiseIsKept` is the refinement: under `ProtocolInv` every step of every thread and of
the network maps to a step of `ReliableMulticast` or to none (`ProtocolStep`), so a
behaviour of `Spec` that meets the conditions below satisfies `KeepsPromise`.

Four of these theorems have hypotheses, and the code ensures neither of them.  They are
part of the statements, as formulas about the behaviour, not values of constants: the
theorems hold for every `EagerPops` and every assignment of ids.

- `[]NothingFreedEarly`: no main thread pops and deletes a message that its receiver
  thread still reads (`multicast_receiver.cpp:261`, 3.4).  `AtMostOnceHolds`,
  `OrderIsKept` and `PromiseIsKept` need it: after a read of freed memory neither order nor
  number of deliveries can be claimed.  Behaviours in which the main thread is late are
  covered whatever `EagerPops` is; with `EagerPops` 0, as in the runs, all are.
- `[]IdsDiffer`: no two messages queued so far have one id.  `set_message_id()` makes
  an id of address, type and the millisecond of creation and cuts it to 32 bits
  (`eddl_message.cpp:156`), so two messages of a millisecond, or of times 49.7 days apart,
  may share one.  `OrderIsKept` and `PromiseIsKept` need it, as acknowledgements name
  nothing but an id and the sender takes one for the other.  `AtMostOnceHolds` needs only
  `[]IdsTellApart`: ids may be shared as long as no hour passes, after which a worker
  forgets.  `AcksAreAlwaysReal` still assumes `UniqueIds` of the constant: it says of all
  messages what `IdsDiffer` says of those queued.

`MessagesAreIntact` and the other theorems of this module need neither.

Only model-checked: the liveness properties `EventuallyDelivered` and `SendReturns`,
which are out of the prover's reach.

## 4. The data generator

### 4.1 Modules

`DataGenerator` has the generators of a program, which share the ring of
buffers, the semaphores and the table of threads, the training loop, and the
producer threads.

| Model | Code |
|---|---|
| `created`, `allocated`, `New`, `End` | `new_DataGen()`, `end_DataGen()`; `dg_num_DG`, `dg_buffer_size` |
| `dg`, `Start`, `Stop`, `Stopped` | `start_DataGen()`; `stop_DataGen()` up to the last `pthread_cancel()` and from the joins on |
| `mainPc`, `GetBatch`, `Take`, `EndCopy`, `Uncount`, `Return` | `get_batch_DataGen()`: the wait for `vaciar`, the copy, `buffer_count`, the post of `llenar` |
| `pc`, `currPtr`, `currDsPtr`, `WaitForRoom` to `Post`, `Cancel` | `producer_DataGen()`: the wait for `llenar`, the section that claims a batch and a buffer, `loadXY_DataGen()`, `buffer_count`, the post of `vaciar` |
| `buffer`, `seen`, `got` | what the buffers hold, and what the training loop got |

A batch is its number in the epoch: in the sequential and linear orders
(`DG_LIN`, `DG_PERFECT`) `ds_ptr` goes through a permutation, so that different
numbers are different batches; `DG_RANDOM`, which may repeat samples by design,
is left out.  A buffer is `Torn` while it is written, and `Mixed` when two
threads touched it together; the copy of a buffer that changed meanwhile is any
of the old, the new and a mixture.  `Start` renames whatever the buffers still
hold to `Old`, so that a batch of the run before would show.

`BatchStream` is the promise: between start and stop, whole batches of the
epoch, none twice.

### 4.2 Assumptions

- A section between `sem_wait(&dmutex)` and `sem_post(&dmutex)` waits for nothing
  and is one step.
- Threads are cancelled where POSIX allows it: at the semaphores and in the reads
  of the file.  After `vaciar` is posted the next such point is `sem_wait(&llenar)`.
- Calls out of turn (start while another generator runs, end of a running one)
  print an error and exit, so programs that go on make none.  `get_batch` is
  called by the thread that also starts and stops.
- One call of `pthread_create()` starts one thread; `num_threads` and
  `buffer_size` are within the limits `new_DataGen()` tests.

### 4.3 Runs

| Run | Instance | Shows |
|---|---|---|
| `generators` | 3 generators: `train` with 4 batches, 2 buffers, 2 threads; `val` with 4, 3, 1; `test` with 1, 2, 1 | `BuffersExist`: ending one never takes the buffers of the one that runs; `BuffersAreAccountedFor`: semaphores, threads and `buffer_count` agree on every buffer; `CallsReturn`: `get_batch`, if asked for no more than the epoch has, and `stop`; for the generators with one thread `CopyIsAlone`, and `StreamIsKept`: the ring implements `BatchStream`; all through cancellations, restarts and changes from one generator to another |

Four batches go round a ring of two buffers twice, so that a buffer is filled,
emptied, filled and emptied again, and the last room of the epoch meets threads
that find no batch left; `val` goes round its ring once and a bit with one thread, and
`test` has fewer batches than buffers.
Fairness: every thread that can step steps in the end, also out of a cancelled
wait; the program need not call anything.

`two_producers` (`NoRepetitions`): each producer posts `vaciar` when *its* buffer is
full, but the consumer takes buffers in order.  If the second batch is loaded
first, the consumer copies the first buffer while it still holds an old batch,
or is being written: a batch is given twice.  So `StreamIsKept` and
`CopyIsAlone` are claimed, and proved, while a generator with one producer runs
(`OneProducer`); the buffers are accounted for with any number.

### 4.4 Proofs

`DataGeneratorProofs`, for any generators, threads and buffers
(`GeneratorAssumption`): `TypeCorrect` and `BuffersAlwaysExist` from
`TypeInv == TypeOK /\ RingInv` (the pointers stay inside the ring of the generator
that runs, not just inside the table, and every generator that exists fits in
the buffers that exist; that a running generator is not the last one is what
makes `End` safe).  `BuffersAreAlwaysAccountedFor` from `RoomInv`,
by lemmas on how the cardinality of a set of threads changes when one thread
moves.

Without any assumption on the other generators, `StreamInv` says that, while `OneProducer` holds (the generator that runs has `num_threads` 1), batch
*i* travels through buffer `i % buffer_size`, that the batches from the
next one to give up to the last one loaded are in their buffers, and that there
are never more of them than buffers.  Two lemmas of arithmetic carry it: the
code's next position is the remainder of the next number (`NextPosition`), and
numbers less than a round apart have different remainders
(`DifferentPositions`).  From it `CopiesAreAlone`, and `StreamIsImplemented`: every
step is a step of `BatchStream` or leaves it alone (`StreamStep`).

Only model-checked: `CallsReturn`.

## 5. TCP and the main loops

### 5.1 Modules

`TcpLink` has what every process runs: the queues, the thread of its `TCP_Sender`,
the acceptor of its `TCP_Receiver` and one thread for each connection it
accepted.  `Cluster` extends it with the main loops.

| Model | Code |
|---|---|
| `output`, `ackQueue`, `input`, `Push`, `Pop` | the `eddl_queue`s between the threads of a process |
| `senderPc`, `hand`, `Top`, `Choose`, `PopPending`, `DropTooOld`, `PopOutput`, `Recover`, `TakeAck` | `TCP_Sender::sender()`: the test of its flag, `empty()` and the later `pop()`, messages too old, the second after a failure, the queue of acknowledgements |
| `pending`, `sent`, `failed`, `Keep`, `KeepFailed`, `Send`, `SendFails` | `queue_of_pending_messages`, `sent_messages`, `sender_status`; `manage_to_send_message()` after `send_message()` returned true or false |
| `WakeForNothing` | `pop()` giving `nullptr` after a spurious wake-up |
| `backlog`, `accepting`, `Accept` | the connections on the listening socket, the loop of `acceptor()` |
| `reading`, `delivering`, `ReadFails` to `Deliver` | `receive_message()` and the `switch` of `thread_receiver()`; gradients are acknowledged in one step and delivered in the next |
| `world` | which of these faults there are, the gradients to come and the signals (no code) |
| `Signal`, `MasterReads`, `ShutdownCommands` | the signal handler, the master's main loop |
| `status`, `WorkerReads`, `Produce`, `HasStopped`, `ClearOutput` | `worker_status` and the worker's main loop |
| `StopSender`, `StopReceiver` | the `stop()` calls, the first of which clears a flag before it clears a queue |
| `received`, `lost`, `produced` | what became of the gradients (no code) |

### 5.2 Assumptions

- A message is a connection of its own and arrives whole or not at all.  With
  `refusals` connecting or writing may fail at any time; a connection that breaks
  wakes the acceptor up and brings nothing else.  With `losses` what was written
  may not be read: a connection broken later, a short read, a wrong checksum.
  With `longWaits` fifty seconds may pass while a message is pending.
- The sender empties its queue of acknowledgements before it tests its flag.  In
  the code the other order is possible for one that arrives in between, which
  touches nothing that step reads.
- A worker reads a message or acts on its status in one step; a main thread that
  sleeps takes no step.
- The master sleeps one second before it stops its sender.  That is enough for
  the commands in its queue unless a peer refuses one (`SleepEnds`).
- Ids are constants (`IdOf`).  With repeated ids `Keep` has the exception of the
  code; the run keeps them apart, the proofs do not need to.
- There are finitely many workers (the master keeps a list of them).
- Weights go over the multicast and are not in this model, neither are the
  destructors: `ended` is the return of a main function.

### 5.3 Runs

| Run | Instance | Shows |
|---|---|---|
| `cluster` | 1 worker in two worlds. *Training*: 2 gradients, STOP at any time; refusals, losses, long waits. *Closing*: SHUTDOWN at any time, no faults | `TypeOK`; `InOnePlace`: gradients are never twice on their way, and exactly once while their worker serves unless a connection lost them; `AcksAreTrue`: an acknowledgement under way means the gradients are in the master's input queue, or on their last step to it; `KeptUntilAcknowledged`; `GradientsArrive`; `StoppingEnds`; `WorkersShutDown` |

Two gradients are the fewest for one that failed and one that is still new to
meet in the sender.  Commands to the worker and the master go through the
same sender, so that one worker already gives it two peers.  The queue limit of 10
messages is never reached with two gradients.

Fairness: threads run (`WF`), and a peer that is tried again and again accepts in
the end (`SF` on `Send`); without that a message waits until it is too old.  `Recover`
is strong because acknowledgements may come first time and again.  Nothing relies
on spurious wake-ups.

The two SHUTDOWN connections that should get an acceptor out of `accept()` do so only
if the first one was read before the second one was accepted
(`tcp_receiver.cpp:94`).  If not, the acceptor waits for a third, and the
destructor, which is not in the model, for the acceptor.

### 5.4 Proofs

`ClusterProofs`, for any number of workers, any worlds, gradients and ids
(`TcpAssumption`, `WorldAssumption`, `ClusterAssumption`).  `Shape` is the type invariant with what the types leave
out: whose messages are in which queue, that a sender has a message in hand exactly
while it sends, and that no main thread reads any more once its sender has been stopped.
Hence `ClusterTypeCorrect`.

The other theorems rest on `Inv == Shape /\ LinkInv`, which counts.  `Before(g)` is the
number of places between the worker's output queue and the thread of the master that
reads the gradients, `After(g)` that of places behind it, and `Acks(g)` that of
acknowledgements on their way back.  `Counted`: `Before + After` is at most 1, and `Acks`
at most `After`, so that an acknowledgement means arrival (`AcksAreAlwaysTrue`).
`NotGone`: the sum is exactly 1 while a worker serves and nothing was lost
(`GradientsInOnePlace`).  `Remembered` and `OneFlight`: what is sent and may not have
arrived is in `sent`, under an id that no other of its gradients in flight has;
without the second, the acknowledgement of one would make the sender forget the other
(`GradientsAreKept`).  Ids may repeat: `Keep` has the exception that ends a sender which
is about to use one twice, and that is what makes `OneFlight` inductive.

Each queue operation has a lemma that says how it moves a message from one place to
another and leaves its number as it is (`PopPendingMoves` and the like); the steps of the
main loops come down to these.

Only model-checked: `GradientsArrive`, `StoppingEnds`, `WorkersShutDown` (liveness).

## 6. The message queue

### 6.1 Module

`MessageQueue` is one `eddl_queue` with every thread that uses it, down to the mutex and
the set of waiting threads, which `TcpLink` and `Multicast` take for granted.

| Model | Code |
|---|---|
| `holder`, `Lock`, `Inside`, `Release` | `_mutex_`: a call locks it in one step, and does its work and releases it in the next |
| `q`, `pushed`, `Push`, `PushFront`, `Turned` | the queue; messages are numbered as they come. `push_front()` pushes last and then moves the first element to the end as often as there are elements, the new one included: the queue is as before and the message is last (`eddl_queue.h:58`) |
| `pc` at `asleep`, `woken`, `back`; `Notify`, `WakeUp`, `WakeForNothing`, `ReturnFromWait` | the condition variable: a wait releases the mutex and ends by `notify_one()` or for no reason, and has to lock the mutex again |
| `Look`, `Empty`, `BeginPop`, `Pop` | a sender tests `empty()` and calls `pop()` later; the main threads call `pop()` at once |
| `Clear`, `Size` | `clear()`, `size()` |
| `victim`, `signals`, `Signal`, `HandlerLocks` | the signal handler of `master.cpp`, which pushes a command from within whatever the interrupted thread was doing |
| `urgent` | the messages that came by `push_front()` (no code) |
| `result`, `cleared`, `idle` | what `pop()` returned and what happened since it was called (no code) |

### 6.2 The run

`queues` checks the four ways in which the processes use a queue, two of them with and
without waits that end for no reason: the input queue of the master (two signals), an
output queue (the main thread clears it, acknowledgements are pushed in front), the
queue of acknowledgements and that of pending messages.  Four pushes and two calls of
`clear()` let a message come before, during and after a wait and meet another one.

| Property | Says |
|---|---|
| `NoWakeUpIsLost` | the consumer never sleeps while there is a message |
| `PopHasCause` | one who looked first waits only if the queue was cleared in between; `pop()` returns nothing only after a `clear()` or a wait that ended for no reason |
| `PushesKeepTheirOrder` | no message is in the queue twice, and those of `push()` keep their order, wherever `push_front()` puts its own |
| `MessagesLeave` | every message leaves the queue unless a thread waits for itself |

Fairness: threads run, and one that wants the mutex gets it some time although others
lock it time and again (`SF` of the consumer and the handler).  Nobody has to push, to
clear or to send a signal, and nothing relies on waits that end for no reason.

The name of `push_front()` asks for the front, and the loop at `eddl_queue.h:57` turns
the queue once too often for that: it pushes the message first and then counts with
the new length, so the message stays last.  The model does what the code does; the
property claims nothing about the place of such a message, so that it would hold of a
`push_front()` that did as its name says, too, and fails of a turn that moves other
messages past each other.

Three conditions in these properties are worth a look in the code.  `pop()` tests the
queue with `if`, not with `while` (`eddl_queue.h:88`), so it can return `nullptr`; the
comments at `tcp_sender.cpp:80` and `:92` say that it "blocks and waits until data is
ready", and `tcp_sender.cpp:82` uses the result untested.  A signal in the middle of a
queue call makes its thread wait for a mutex that it has itself, and all others with it
(`master.cpp:24`).  And a sender that looked before somebody cleared the queue waits for
a message that may never come.

### 6.3 Proofs

`MessageQueueProofs`, for any number of threads, any calls and any signals
(`QueueAssumption`).  The invariant is `Inv == TypeOK /\ MutexInv /\ PopInv /\ ClearInv
/\ NoWakeUpIsLost /\ LookPreventsWait /\ NullHasCause`.  `MutexInv` says that only who
has the mutex is within a call, and where a handler and its victim can be; without it a
push could come between a consumer's test and its sleep.  `ClearInv` says that a look
which found something is true until somebody clears the queue.  From it follow
`QueueTypeCorrect`, `WakeUpsArrive` and `PopsHaveCauses`.  `MessagesKeepTheirOrder` rests on
the numbers in the queue being `Ascending`, which a push keeps (`PushedLast`) and a
`push_front()` too, as the code turns the queue by its whole length (`FullTurn`): more
than the property asks for.  Only model-checked: `MessagesLeave`.

## 7. Weight averaging

### 7.1 Module

`WeightAveraging` is what every MPI process does in a program that calls `fit()` one or
more times: it trains its batches, averages when the interval is over, and at the end of
an epoch lets rank 0 choose the next interval.  A weight is, for every rank, the number
of that rank's batches that are in it.

| Model | Code |
|---|---|
| `SetAvgMethod`, `SetBatch`, `SetNBPP` | `set_avg_method_distributed()`, `set_batch_distributed()`, `set_NBPP_distributed()` |
| `Barrier`, `Reduce`, `AvgMetrics` | `MPI_Barrier`, `MPI_Allreduce` on a parameter, on the metrics: every rank has to be there |
| `chan`, `Broadcast`, `Receive`, `SendWeights`, `ReceiveWeights` | `MPI_Bcast`: the root hands over and goes on, the others wait; first the weights, one parameter after the other |
| `TrainBatch`, `IsDue`, `AvgWeights`, `Averaged` | the loop of `fit()` and `avg_weights_distributed()`: average after every `batches_avg` batches and after the last one |
| `UpdateInterval`, `NewIntervals`, `UpdateFails`, `ReceiveInterval` | `update_batch_avg_distributed()` for the six methods; what a method takes from a clock is any value it could be |
| `DecideStop`, `ReceiveStop` | early stopping: rank 0 decides and broadcasts |
| `pc` at `crashed` | an integer division by zero |

### 7.2 The run

`averaging` has three ranks (a rank can agree with the root and disagree with a third),
two parameters (so that a collective can be on the wrong one) and two calls of `fit()`,
with every method, a `batch_avg` of 0, 1, 2 and 4, an `epoch_avg` of 0, 1 and 2, and
data sets with three batches for each rank, one, none, and a batch smaller than the
number of ranks.

| Property | Says |
|---|---|
| `CollectivesMatch` | ranks never wait in different collectives, or in one collective for different parameters, and what was broadcast is what its receiver asks for, although every rank decides by itself from its own copy of the interval |
| `DriftIsBounded` | the weights of a rank have all its own batches, also after the broadcast that starts the next `fit()` and overwrites them with the root's; and all of the others but those of the interval under way |
| `CrashHasCause` | a division by zero has one of four causes: a batch smaller than the number of processes, an `epoch_avg` of 0, a `batch_avg` of 0, an interval left over from a `fit()` without batches |
| `TrainingEnds` | every rank gets through the program, or one has divided by zero |

Fairness: MPI completes a collective when all are there, and processes run.

The causes are the code's.  `set_avg_method_distributed()` takes `batch_avg` and
`epoch_avg` as they are (`mpi_distributed.cpp:374`), and the first batch divides by the one
(line 739), rank 0 by the other (line 826).  Negative values, which it takes as well, are
not in the model: a program that averages every minus two batches has no meaning to
be faithful to, though `NEG_SAWTOOTH` would halve such an interval to 0 (line 841).  `update_batch_avg_distributed()` clamps the interval to the
number of batches of the current `fit()`, so that an epoch without batches leaves a 0
for the next one.  Two more observations have no property of their own: `fit()` numbers its epochs
from 0, so a method with an `epoch_avg` of more epochs than a `fit()` has never changes
its interval, and `NEG_SAWTOOTH` starts at the smallest interval it allows and
therefore never changes either.

### 7.3 Proofs

`WeightAveragingProofs`, for any number of ranks, parameters and programs
(`AveragingAssumption`).  `TypeInv == TypeOK /\ KnowBound` is inductive only together:
an average of weights is a number because no weight, and no packet of weights under
way, has more batches of a rank than the rank has trained (`NothingIsMadeUp`).
`CauseInv == TypeInv /\ RootCounts /\ ZeroHasCause /\ CrashHasCause` says where a 0 can
come from (`ZeroSource`: the program's own `batch_avg`, or a `fit()` without batches),
through the broadcasts and the change from one `fit()` to the next; hence
`CrashesHaveCauses`: the rules for the next interval never round a positive one to 0.

`Lockstep` says why ranks that decide by themselves stay together.  There is a position
*g* in the program (`Agreement`: the call of `fit()`, the epoch, the batch of the last
average, the parameter, the interval) up to which rank 0's broadcasts take everybody:
every rank is there with an empty channel (`Here`), possibly on its own way between two
averages (`Between`), or gets there by what its channel holds (`TakesWeights`,
`TakesInterval`, `TakesStop`).  A rank has no batch behind it at which it ought to have
averaged, so two that wait for an average wait for the same one.  `Shared(g)` adds the weights:
each has all batches but those its ranks are `Ahead` of the last average, and so has
every packet of weights.  `LockInv == TypeInv /\ Lockstep` is inductive, with a lemma for each
action, and from it follow `CollectivesAlwaysMatch` and, with the remainder of
the sum of a multiple and the interval (`NextMultiple`), `DriftStaysBounded`.  The
position is not a variable: a step that takes rank 0 further is shown to lead
to another.

Only model-checked: `TrainingEnds` (liveness).

## 8. Nets

### 8.1 Modules

`LayerGraph` puts nets together, `Backprop` computes gradients, `Devices` divides a
batch, and `Training` is the program that makes the calls.

| Model | Code |
|---|---|
| `Walk`, `TurnBack`, `WalkBack`, `Collect` | `walk()` and `walk_back()` from the inputs and the outputs of a model |
| `count`, `Ready`, `Visit`, `Released`, `Sorting` | `toposort()`, `fts()`, `bts()`: counters of edges that count down, the first layer whose counter is 0 is next |
| `Split`, `twin`, `Among`, `Built` | `split()`: layers are cloned in forward order, and the clones are collected and sorted as a new net |
| `has`, `content`, `size`, `MemDelta`, `FreeDelta`, `PassedOn`, `BackLayer` | `Layer::mem_delta()`, `free_delta()` and the `backward()` of a layer; views share the delta of their parent |
| `DoDelta`, `DoBackward`, `CopyDeltas`, `NextNets`, `Sweep` | `do_delta()`, `do_backward()`, `Net::backward()` with `netinput`: the sweep goes on to the nets the inputs came from |
| `Reset`, `ZeroGrads`, `Resized`, `Slices`, `SliceOf` | `reset()`, `zeroGrads()`, `resize()`, the slices of `train_batch()` |
| `Forward`, `ForwardChain`, `Compute`, `Detach`, `Backward`, `Optimize`, `Update`, `TrainBatch`, `EvalBatch` | the calls of the API of these names and `NetLoss::compute()` |
| `tr`, `drift`, `pace`, `SyncAfterTrain`, `SyncAfterUpdate` | `tr_batches`; `sync_weights()` in `train_batch()` and `update()` |
| `due`, `link`, `causes` | what the gradients ought to be, and why they may not be (no code) |

A layer is the number of its creation, and every derivative is 1, so that a delta is the
number of paths to the losses: a path that is lost, taken twice or left over from an
earlier batch shows as another number.  `Fill` is what memory may hold that was not
initialised.  Devices run `do_forward()` and the like in one thread each and are joined
before anything is read, on data of their own; a call is one step.

Assumptions: a program does not call `update()` or `optimize()` with fewer samples than
devices; nets that feed one net agree on the batch size, and there is one layer for each
input of the net they feed, a layer of some net (`CanChain`; `Net::forward()` refuses
another number and dereferences `netinput[i]->net`); no layer is in two nets; a view has
one parent (`BackpropAssumption`; `LinLayer::addparent()` refuses a second one).

### 8.2 The run

`training` builds and trains every net of four layers with up to two parents each
(double links included), one or two inputs and one or two outputs in either order; and
programs of up to seven calls on named nets: a residual net and a net with an output
inside (each with and without low memory, the latter with a view), crossed inputs,
encoder and decoder with a loss graph, two losses on one net, a loss of two layers, a
diamond of nets, a layer that leads nowhere, two devices with `lsb` from 0 to 3 and
batches of one, two and three samples.  There is no fairness: all properties are about
what is never so, and programs end (`CHECK_DEADLOCK FALSE`).

| Property | Says |
|---|---|
| `TypeOK` | among others, a view has a delta only if its parent has one |
| `SortsAreTopological` | no sort ever fails to find a layer; every sort has every collected layer once, after those it depends on |
| `TwinsMatch` | the clone for a device lists layers, inputs and outputs as the net does, if they were created in that order; `sync_weights()`, losses and targets pair them by position |
| `GradientsAreExact` | the gradient of every weight is the sum over all paths to the losses since gradients were zeroed, unless a cause is known |
| `CrashHasCause` | a sweep finds every delta it needs, but for a net with a layer that leads nowhere; `lsb` 0 is divided by |
| `DevicesStayClose` | devices of a net that is trained regularly are never `lsb` updates apart; with `update()` that needs an `lsb` of 2 or more |

The causes `GradientsAreExact` allows are where the code computes another number, found
one by one as counterexamples:

- *used before*: deltas are zeroed by `reset()` only, so a second `backward()` after one
  `forward()` counts the deltas of the first again (without low memory).
- *resized*: a delta that stays over a change of the batch size is memory that was not
  initialised, and children only add to it.
- *two outputs in one delta*: an output and a view of it.
- *own loss*: a net that has losses of its own and is reached by a sweep from another.
- *input delta zeroed*: with low memory `do_backward()` zeroes the delta of an input before
  `Net::backward()` copies it to the layer it came from.
- *not its input*: `netinput` is kept when `forward()` is called with tensors, and the
  sweep goes on to a net the data did not come from.
- *copied over*: two inputs copied from one layer, of which the second delta replaces
  the first.

### 8.3 Proofs

`NetProofs`, for every program whose layers are created after their parents
(`ArchitectureAssumption`), with batch sizes other than 0 (`TrainingAssumption`), and
every number of devices and calls.

*The sorts.*  `GraphInv` is the conjunction of `PhaseInv`, `NetsInv`, `WalkType`,
`SortType`, `VisitInv` and `ForwardInv`.  Its core is `VisitInv`: the counter of a layer
is the number of edges that lead to it from layers not yet visited, double edges twice.
Edges go from lower to higher numbers, so among the layers left there is always one that
waits for none, and the sort goes on: `SortsNeverFail`, as well as `GraphTypeCorrect`,
for `GraphSpec`, the part of `Training` that builds nets.  In whole programs a call may
crash, and what is true of a net that is being built is then no longer looked at:
`ProgramInv` is `GraphInv` until the program has crashed and what of it is about finished
nets from then on.  Calls change no net, so `SortsStayTopological` holds of `Spec`.

*The devices.*  `EverySampleOnce`: with at least as many samples as devices the slices of
`resize()` and `train_batch()` lie in the batch, do not overlap and leave nothing out,
whatever the slices before.  `DevicesAlwaysClose`: that a net's devices have made fewer
than `lsb` updates by themselves follows from nothing said about `drift` alone, since the
next average is due when `tr_batches` says so.  `PaceInv` says how the two go together
in a net that is trained regularly: `drift` is `tr % lsb` after `train_batch()`,
`(tr - 1) % lsb` after `update()`, which averages one batch later than `train_batch()`,
and `(tr - 2) % lsb` between a backward sweep and the `update()` that follows it.
`CountInv` is needed beside it, for no net is made that has no model.

*The clones.*  `TwinsAlwaysMatch` compares the results of two walks and four sorts made
at different times, of the net and of the net of its clones.  Its invariant `PastInv`
keeps what each of them was made from: `WalkOf` says that a stack and a list are on the
way of the walk that starts at given ends, by the trace that led there (and that nothing
was lost on it), `SortOf` that every layer of a list is the first in creation order that
waited for no other when it came.  Both have one result only (`OneWalk`, `OneSort`), and
layers that are listed in creation order are their own sort (`CreationIsSorted`); so the
net of the clones, which `split()` creates in the order of the forward sort, goes
through what the net itself went through (`SameNet`).

*The sweeps.*  `SweepsFindTheirDeltas`, in `NetProofs` as well: a backward sweep finds the delta
of every layer it comes to, in nets that feed each other, after any calls, unless a layer
of the net leads nowhere; and nothing else crashes a program but an `lsb` of 0.  What a
sweep does is a fold over the layers, and the folds of the community modules are functions
whose value is chosen: `FoldExists` says that there is one, and `DoDeltaSteps`,
`DoBackwardSteps`, `CopyDeltasSteps` and `ParentsMemSteps` say what one more element adds
to each fold.  The core is `DoBackwardFacts`, by induction on the layers visited: a
layer not yet visited that is an output, or a parent of a visited one, has its delta.  It
needs that `bts` lists every layer once and after its children (`SortsStayTopological`),
that a visit makes the deltas of all parents before it adds to them, and that low memory
takes away only the delta of the layer just left (`FreeDeltaFacts`).  `SweepInv` is the invariant: the types of deltas and gradients, what
nets were fed with, and that calls under way are calls of nets there are.  That a delta is
there says nothing of its value: an invariant on which deltas are left over between calls
is not needed, for `do_delta()` makes the deltas of the outputs that are not there.

*The types.*  `TrainingTypeCorrect`, in `SweepProofs`, is `TypeOK` under `NetsApart`: no
layer is in two nets, a net has the parents of its layers, and the nets go on from nets
that were built before them.  All programs of the run are so.  Two parts of `TypeOK` need
it.

- `due` is a number.  `Paths` is a recursive function over edges within nets and over
  inputs copied from another net, and it has a value only if neither leads in a circle:
  a later layer of a net, and every layer of a later net, has a lower rank (`RanksFall`),
  and `PathsType` follows by induction on ranks, first that there is such a function and
  then that its values are numbers.  `MapThenSumSet` is a recursive function that is
  chosen, too; `SumExists` and `OneSum` say that there is one and only one.  `LinkInv`
  says that what a net went on from are layers of its model's `feeds`.
- A view has a delta only while the layer has whose memory it shows (`Backed`).  A sweep
  with low memory frees the deltas one by one, so within the sweep the fold keeps more
  (`Freed`): of the layers already left only inputs have deltas, those being zeroed and not
  freed.  A view of the layer about to be freed would have been left before it, and not be an
  input.  Without `NetsApart` it is false: a layer that leads nowhere makes the delta of its
  parent, and if that is a view that is not in the net, it keeps its delta when the sweep
  frees the one whose memory it shows.  TLC finds this in a program of five layers.

`TrainInv` is the invariant; `EndsInv`, that the inputs and outputs of a net are among
its layers, follows from `PastInv`, what each net was built from.

*The gradients.*  `GradientsAlwaysExact`, in `SweepProofs`, is `GradientsAreExact` for all
programs that are `Plain`: `NetsApart` as above, the inputs of a net are `LInput` layers
(`InputsFirst`), and a loss graph has a loss for each of its outputs, as `NetLoss` builds it
with one output and one `LMin`.  Sizes, links, views, memory levels, numbers of nets and
the order of the calls are arbitrary.  It says of every weight of a net none of whose causes
has happened that its gradient, which the sweeps add up edge by edge, is what is due, the
sum over all paths to the losses.

Between two steps of a `backward()` that goes from net to net this is not so, and nothing
said of the gradients of one net alone is inductive.  `ExactInv` says what is missing:

- `Pending(td, c)` is what the sweeps to come will find in the deltas: a 1 for each loss
  if the first of them writes losses, what the delta holds in a net that is called as one
  of a chain, and nothing in other nets.
- `Balanced` says of numbers q for the layers that each is what is pending there, and
  what its children with weights have (`FromHeirs`, through views), and what the inputs have
  that were copied from it (`FromCopies`).
- `Explained` says that there are such numbers and that gradient plus q is what is due.
  It is claimed for every net m without causes and every set R of nets from m on that is
  `Clear`: the calls to come, and what the nets went on from, stay in R, and none of R
  would pass on something wrong.  The set is quantified because a sweep takes its net out of what
  is still pending, and the set that was clear before is no longer the least one.
- `CleanIn` says that deltas which no sweep has used hold nothing, but for those that a loss
  overwrites, so that a sweep that begins adds to nothing left over.

`TrainedSettled`, `StartedExact` and `ComputeExact` are the calls that begin a sweep, where
what is due grows.  For them `PathsAre` says what `Paths` sums up layer by layer, and
`Owing`, `OwingCopies` and `OwingBalanced` that these sums solve `Balanced`: paths are counted
layer by layer, deltas are where the memory is, so an output that is a view counts in the
layer whose memory it shows.  `FedStep` is one sweep of a chain: what was pending in its
net moves to the gradients and to the deltas of the nets before, by the lemmas on the
folds (what `do_delta()` writes, what `backward()` of one layer adds, what is copied), and
q stays what it was everywhere else.  Induction over the layers of a sweep is by their
places in the sort, and over nets by their numbers.

The proof changed the model in three places.  `Upstream`, which was a function over
numbers of nets downwards, is now the least set that has with a net those it went on from:
the same nets where nets go on from nets built before, and a definition one can reason about.
The copied inputs that `Paths` counts are pairs of a net and a position in its inputs; they were
pairs of a net and a layer.  And the assumption on views is now that they have exactly one
parent: a view of two layers cannot be built, but would have let the deltas of the second go
unseen.

All programs of the run are `Plain`, so the theorem covers what the run does.  Programs that
are not, where layers are in two nets or an input has parents, are neither checked nor proved.

## 9. Pooling layers

### 9.1 Module

| Model | Code |
|---|---|
| `OutputOf`, `OutputWithin`, `Padding` | `compute_output()` and `compute_padding()` of the descriptors; the floating point arithmetic in them is exact for sizes below 2^24, so it is integer division rounded up or down |
| `Build`, `Accepted`, `Refused` | `PoolDescriptor*::build()`, which throws for an empty output |
| `Copied`, `Copy` | `clone()` and `share()`: a new layer with the computed pads as given ones |
| `Resize`, `RoomForIndices` | `resize()` of descriptor and layer, `indX`, `indY`, `indZ` |
| `Forward`, `MemDelta`, `Delta`, `Backward` | the sweeps and `mem_delta()`, `free_delta()` of `LPool1D`, `LPool2D`, `LPool3D` |
| `Starts`, `Places` | the loops of the CPU kernels, which count the windows to know where in the output they are |

### 9.2 The run

`windows`: all windows and strides up to 3 on inputs up to 5, "same", "none" and given
pads, one to three dimensions, two batch sizes.  A window of 3 with strides from 1 to 3
overlaps, touches and leaves gaps, and an input of 5 is not a multiple of 2 or 3.

| Property | Says |
|---|---|
| `OutputsInPlace` | there are as many windows as the output has places, in every dimension; when pads are given, in the dimensions whose pads add up to those of the first one |
| `CoversInput` | "same" leaves out no part of the input, "none" less than a stride |
| `BuffersFit` | the backward sweep of a maximum finds recorded indices for the batch, and the delta has the size of the batch but for `LPool1D` and `LPool3D`, which keep one of an earlier batch |
| `CopiesAgree` | a copy has the output of the layer unless pads differ between dimensions |

Two conditions are worth a look.  With given pads the output of every dimension is computed
from the pads of the first one (`descriptor_pool2D.cpp:70`, although the comments at
`:86` and `:87` say rows and columns; `descriptor_pool3D.cpp:73` alike), so the copy of a
layer whose computed pads differ, as for windows of 3 with stride 2 on an input of 4 by 5, has
another shape or is refused.  And only `LPool2D` makes a new delta when the batch size
has changed; other layers outside this module (`LNorm*`, `LConvT2D`, `LConv1D`) do not
either.

### 9.3 Proofs

`PoolingProofs`, for all sizes, strides and pads (`PoolingAssumption`).  The lemma `Room`
bounds the last window, (o - 1) s <= i - k + p < o s for an output of o places; from it,
by nonlinear steps made one at a time, the windows are on the grid of the output
(`Grid`, hence `WindowsAreInPlace`), cover the input (`Covered`, hence
`InputIsCovered`) and meet it (`Met`, hence, with `Inv == BuiltInv /\ UsedInv`,
`BuffersAlwaysFit`).  `PoolingTypeCorrect` follows from the same invariant.
`CopiesAlwaysAgree`: the pads `build()` computed, given to the other formula, lead to the
same output, unless they differ between dimensions.

## 10. What is not modelled

Most of the repository by size is not EDDL's own logic: `stb`, the OpenCL headers, the
generated protobuf files.  Of its own code the larger part are numeric kernels for CPU,
GPU and FPGA and their wrappers (`src/hardware`, `src/tensor`, `src/apis`), layers that
differ in the arithmetic of one function, the serialization of every layer to and from
ONNX, and examples: sequential code whose difficulty is in floating point values and
formats, on which an explicit-state model says nothing that the code does not.

Of the rest:

- Unrolling of recurrent nets: the walk over time steps with shared parameters; the
  copying of layers it rests on is in `Pooling` for the layers that are there.
- The other descriptors (convolution, normalisation, upsampling, selection), and the
  computing service, which only holds lists.
- The older free-function interface of the data generator (the same protocol for one
  generator), and file positions, which under MPI all producers of a process share.
- Worker descriptions, environment and the parsing of command lines.
- Destructors of the communication objects, and signal handlers beyond the lock of the
  queue: they also allocate memory, and may interrupt each other.

Known to be hard and not covered: `active_messages` keeps a message that was given up
for ever (`multicast_receiver.cpp:228`); a generator with larger samples created second
uses buffers allocated for the first (`data_generator.cpp:1252`); `get_batch_DataGen()`
waits for ever when it is called once more than an epoch has batches
(`data_generator.cpp:1576`, the condition of `CallsReturn`).
