--------------------------- MODULE DataGenerator ---------------------------
(***************************************************************************)
(* The data generators of the distributed training (DG_Data): producer      *)
(* threads load batches of a data set from a file into a ring of buffers,   *)
(* the training loop copies them out.  All generators of a program share    *)
(* the ring, the semaphores and the table of threads; one of them runs at a *)
(* time.  The sections under the semaphore dmutex hold no other semaphore   *)
(* and do not block, so each of them is one step.                           *)
(***************************************************************************)
EXTENDS Integers, Sequences, FiniteSets, Functions

CONSTANTS Gen,          \* the DG_Data structures of the program
          NoGen,        \* none of them is running
          Nbpp,         \* [Gen -> nbpp, batches of an epoch of this process]
          BufferSize,   \* [Gen -> buffer_size]
          NumThreads,   \* [Gen -> num_threads]
          MaxBuffer,    \* MAX_BUFFER
          MaxThreads,   \* MAX_DG_THREADS
          Old,          \* bytes from before the generator was started
          Torn,         \* a batch some of whose bytes are not written yet
          Mixed         \* bytes of several batches

Junk == {Old, Torn, Mixed}

ASSUME GeneratorAssumption ==
    /\ IsFiniteSet(Gen) /\ NoGen \notin Gen
    /\ Nbpp \in [Gen -> Nat]
    /\ BufferSize \in [Gen -> Nat \ {0}]
    /\ NumThreads \in [Gen -> Nat \ {0}]
    /\ MaxBuffer \in Nat \ {0} /\ MaxThreads \in Nat \ {0}
    /\ Torn # Mixed /\ Junk \cap Nat = {}

Thread == 1 .. MaxThreads
Slot   == 0 .. MaxBuffer - 1

VARIABLES
    created,       \* the generators whose flag created is set
    allocated,     \* dg_buffer_size: buffers allocated
    dg,            \* the generator whose flag running is set
    mainPc,        \* training loop: "idle", "take" (waits in get_batch),
                   \* "copy", "uncount", "return", "stop" (joins)
    pc,            \* producers: "none", "fill" (waits for room), "claim",
                   \* "load", "write", "count", "post", "ended"
    currPtr,       \* curr_ptr of each producer
    currDsPtr,     \* curr_ds_ptr of each producer
    cancelled,     \* pthread_cancel() was called for the producers
    llenar,        \* semaphore: buffers that may be filled
    vaciar,        \* semaphore: buffers that may be emptied
    dsPtr,         \* ds_ptr: next batch to load
    ptrIn,         \* ptr_in: next buffer to fill
    ptrOut,        \* ptr_out: next buffer to empty
    bufferCount,   \* buffer_count
    buffer,        \* what each buffer holds: the number of a batch, or junk
    seen,          \* what the buffer held when the copy out of it began
    got            \* what get_batch gave since the generator was started

progVars == <<created, allocated>>
threadVars == <<pc, currPtr, currDsPtr>>
semVars  == <<llenar, vaciar>>
ringVars == <<dsPtr, ptrIn, ptrOut, bufferCount>>
dataVars == <<buffer, seen, got>>
vars == <<progVars, dg, mainPc, threadVars, cancelled, semVars, ringVars,
          dataVars>>

Init ==
    /\ created = {} /\ allocated = 0 /\ dg = NoGen /\ mainPc = "idle"
    /\ pc = [t \in Thread |-> "none"]
    /\ currPtr = [t \in Thread |-> 0] /\ currDsPtr = [t \in Thread |-> 0]
    /\ cancelled = FALSE
    /\ llenar = 0 /\ vaciar = 0
    /\ dsPtr = 0 /\ ptrIn = 0 /\ ptrOut = 0 /\ bufferCount = 0
    /\ buffer = [s \in Slot |-> Old] /\ seen = Old /\ got = <<>>

-----------------------------------------------------------------------------
\* The program creates, starts, stops and ends generators.  A call out of
\* turn prints an error and exits, so programs that live on make none.

\* Buffers are added when the ones of the other generators are not enough.
New(g) ==
    /\ mainPc = "idle"
    /\ g \notin created
    /\ BufferSize[g] <= MaxBuffer /\ NumThreads[g] <= MaxThreads
    /\ created' = created \cup {g}
    /\ allocated' = IF BufferSize[g] > allocated THEN BufferSize[g] ELSE allocated
    /\ buffer' = [s \in Slot |-> IF s < allocated THEN buffer[s] ELSE Old]
    /\ UNCHANGED <<dg, mainPc, threadVars, cancelled, semVars, ringVars, seen, got>>

\* Mutant: the count of generators is lowered before it is tested.
EndEarly(g) ==
    /\ mainPc = "idle"
    /\ g \in created /\ dg # g
    /\ created' = created \ {g}
    /\ allocated' = IF Cardinality(created') = 1 THEN 0 ELSE allocated
    /\ UNCHANGED <<dg, mainPc, threadVars, cancelled, semVars, ringVars, dataVars>>

\* The last generator to end deletes the buffers.
End(g) ==
    /\ mainPc = "idle"
    /\ g \in created /\ dg # g
    /\ created' = created \ {g}
    /\ allocated' = IF Cardinality(created) = 1 THEN 0 ELSE allocated
    /\ UNCHANGED <<dg, mainPc, threadVars, cancelled, semVars, ringVars, dataVars>>

\* Mutant: room for one batch more than there are buffers.
InitialRoomPlusOne(g) == BufferSize[g] + 1

\* sem_init(&llenar, 0, DG->buffer_size)
InitialRoom(g) == BufferSize[g]

\* Mutant: the consumer goes on where it was in the run before.
RewindInput ==
    /\ dsPtr' = 0 /\ ptrIn' = 0 /\ bufferCount' = 0
    /\ UNCHANGED ptrOut

Rewind == dsPtr' = 0 /\ ptrIn' = 0 /\ ptrOut' = 0 /\ bufferCount' = 0

\* start_DataGen(); from here on what the buffers hold is old.
Start(g) ==
    /\ mainPc = "idle"
    /\ dg = NoGen /\ g \in created
    /\ dg' = g
    /\ Rewind
    /\ llenar' = InitialRoom(g) /\ vaciar' = 0
    /\ pc' = [t \in Thread |-> IF t <= NumThreads[g] THEN "fill" ELSE "none"]
    /\ cancelled' = FALSE
    /\ buffer' = [s \in Slot |-> Old]
    /\ got' = <<>>
    /\ UNCHANGED <<progVars, mainPc, currPtr, currDsPtr, seen>>

\* stop_DataGen() cancels the producers ...
Stop ==
    /\ mainPc = "idle" /\ dg # NoGen
    /\ mainPc' = "stop"
    /\ cancelled' = TRUE
    /\ UNCHANGED <<progVars, dg, threadVars, semVars, ringVars, dataVars>>

\* ... and joins them.
Stopped ==
    /\ mainPc = "stop"
    /\ \A t \in Thread : pc[t] \in {"none", "ended"}
    /\ mainPc' = "idle"
    /\ dg' = NoGen
    /\ got' = <<>>
    /\ UNCHANGED <<progVars, threadVars, cancelled, semVars, ringVars, buffer, seen>>

-----------------------------------------------------------------------------
\* get_batch_DataGen()
GetBatch ==
    /\ mainPc = "idle" /\ dg # NoGen
    /\ mainPc' = "take"
    /\ UNCHANGED <<progVars, dg, threadVars, cancelled, semVars, ringVars, dataVars>>

Take ==
    /\ mainPc = "take" /\ vaciar > 0
    /\ vaciar' = vaciar - 1
    /\ seen' = buffer[ptrOut]
    /\ mainPc' = "copy"
    /\ UNCHANGED <<progVars, dg, threadVars, cancelled, llenar, ringVars, buffer, got>>

\* What a copy gives when a producer wrote into the buffer meanwhile is open.
Copied == IF buffer[ptrOut] = seen THEN {seen}
                                   ELSE {seen, buffer[ptrOut], Mixed}

EndCopy ==
    /\ mainPc = "copy"
    /\ \E b \in Copied : got' = Append(got, b)
    /\ seen' = Old
    /\ ptrOut' = IF ptrOut + 1 >= BufferSize[dg] THEN 0 ELSE ptrOut + 1
    /\ mainPc' = "uncount"
    /\ UNCHANGED <<progVars, dg, threadVars, cancelled, semVars, dsPtr, ptrIn,
                   bufferCount, buffer>>

Uncount ==
    /\ mainPc = "uncount"
    /\ bufferCount' = bufferCount - 1
    /\ mainPc' = "return"
    /\ UNCHANGED <<progVars, dg, threadVars, cancelled, semVars, dsPtr, ptrIn,
                   ptrOut, dataVars>>

\* Mutant: the emptied buffer is not given back.
ReturnNothing ==
    /\ mainPc = "return"
    /\ mainPc' = "idle"
    /\ UNCHANGED <<progVars, dg, threadVars, cancelled, semVars, ringVars,
                   dataVars>>

Return ==
    /\ mainPc = "return"
    /\ llenar' = llenar + 1
    /\ mainPc' = "idle"
    /\ UNCHANGED <<progVars, dg, threadVars, cancelled, vaciar, ringVars, dataVars>>

-----------------------------------------------------------------------------
\* Producer thread t.
WaitForRoom(t) ==
    /\ pc[t] = "fill" /\ llenar > 0
    /\ llenar' = llenar - 1
    /\ pc' = [pc EXCEPT ![t] = "claim"]
    /\ UNCHANGED <<progVars, dg, mainPc, currPtr, currDsPtr, cancelled, vaciar,
                   ringVars, dataVars>>

NextSlot(p) == (p + 1) % BufferSize[dg]

\* The next batch and the next buffer; after the last batch the thread ends.
Claim(t) ==
    /\ pc[t] = "claim"
    /\ IF dsPtr < Nbpp[dg]
       THEN /\ currPtr' = [currPtr EXCEPT ![t] = ptrIn]
            /\ currDsPtr' = [currDsPtr EXCEPT ![t] = dsPtr]
            /\ dsPtr' = dsPtr + 1
            /\ ptrIn' = NextSlot(ptrIn)
            /\ pc' = [pc EXCEPT ![t] = "load"]
       ELSE /\ pc' = [pc EXCEPT ![t] = "ended"]
            /\ UNCHANGED <<currPtr, currDsPtr, dsPtr, ptrIn>>
    /\ UNCHANGED <<progVars, dg, mainPc, cancelled, semVars, ptrOut, bufferCount,
                   dataVars>>

\* Some other producer is writing into buffer s.
WrittenByOther(t, s) ==
    \E u \in Thread \ {t} : pc[u] = "write" /\ currPtr[u] = s

\* loadXY_DataGen(): the batch has been read from the file and goes into the
\* buffer, samples first, labels after another read.
BeginWrite(t) ==
    /\ pc[t] = "load"
    /\ pc' = [pc EXCEPT ![t] = "write"]
    /\ buffer' = [buffer EXCEPT ![currPtr[t]] =
                     IF WrittenByOther(t, currPtr[t]) THEN Mixed ELSE Torn]
    /\ UNCHANGED <<progVars, dg, mainPc, currPtr, currDsPtr, cancelled, semVars,
                   ringVars, seen, got>>

\* What the buffer holds in the end: the batch, unless somebody else wrote
\* into it at the same time.
Written(t) ==
    IF WrittenByOther(t, currPtr[t]) THEN {Mixed}
    ELSE {currDsPtr[t]} \cup ({buffer[currPtr[t]]} \cap {Mixed})

EndWrite(t) ==
    /\ pc[t] = "write"
    /\ pc' = [pc EXCEPT ![t] = "count"]
    /\ \E b \in Written(t) : buffer' = [buffer EXCEPT ![currPtr[t]] = b]
    /\ UNCHANGED <<progVars, dg, mainPc, currPtr, currDsPtr, cancelled, semVars,
                   ringVars, seen, got>>

Count(t) ==
    /\ pc[t] = "count"
    /\ bufferCount' = bufferCount + 1
    /\ pc' = [pc EXCEPT ![t] = "post"]
    /\ UNCHANGED <<progVars, dg, mainPc, currPtr, currDsPtr, cancelled, semVars,
                   dsPtr, ptrIn, ptrOut, dataVars>>

Post(t) ==
    /\ pc[t] = "post"
    /\ vaciar' = vaciar + 1
    /\ pc' = [pc EXCEPT ![t] = "fill"]
    /\ UNCHANGED <<progVars, dg, mainPc, currPtr, currDsPtr, cancelled, llenar,
                   ringVars, dataVars>>

\* Mutant: a thread that waits for room is not woken by its cancellation.
CancellableWhenBusy == {"claim", "load", "write", "count"}

\* Cancellation points: the waits and the reads of the file.
Cancellable == {"fill", "claim", "load", "write", "count"}

Cancel(t) ==
    /\ cancelled /\ pc[t] \in Cancellable
    /\ pc' = [pc EXCEPT ![t] = "ended"]
    /\ UNCHANGED <<progVars, dg, mainPc, currPtr, currDsPtr, cancelled, semVars,
                   ringVars, dataVars>>

-----------------------------------------------------------------------------
ProducerStep(t) ==
    \/ WaitForRoom(t) \/ Claim(t) \/ BeginWrite(t) \/ EndWrite(t)
    \/ Count(t) \/ Post(t)

CallStep == Take \/ EndCopy \/ Uncount \/ Return \/ Stopped

ProgramStep == \/ \E g \in Gen : New(g) \/ End(g) \/ Start(g)
               \/ Stop \/ GetBatch

Next == \/ ProgramStep \/ CallStep
        \/ \E t \in Thread : ProducerStep(t) \/ Cancel(t)

Spec == Init /\ [][Next]_vars

\* Every thread keeps running; the program need not make any call.
FairSpec == /\ Spec
            /\ WF_vars(CallStep)
            /\ \A t \in Thread : WF_vars(ProducerStep(t)) /\ WF_vars(Cancel(t))

-----------------------------------------------------------------------------
TypeOK ==
    /\ created \subseteq Gen /\ allocated \in 0 .. MaxBuffer
    /\ dg \in created \cup {NoGen}
    /\ mainPc \in {"idle", "take", "copy", "uncount", "return", "stop"}
    /\ mainPc # "idle" => dg # NoGen
    /\ pc \in [Thread -> {"none", "fill", "claim", "load", "write", "count",
                          "post", "ended"}]
    /\ currPtr \in [Thread -> Slot] /\ currDsPtr \in [Thread -> Nat]
    /\ cancelled \in BOOLEAN
    /\ llenar \in Nat /\ vaciar \in Nat
    /\ dsPtr \in Nat /\ ptrIn \in Slot /\ ptrOut \in Slot /\ bufferCount \in Int
    /\ buffer \in [Slot -> Nat \cup Junk]
    /\ seen \in Nat \cup Junk
    /\ got \in Seq(Nat \cup Junk)

Producers(states) == {t \in Thread : pc[t] \in states}

\* A producer that still works on the batch it claimed.
Busy == {"load", "write", "count", "post"}

\* Every buffer is accounted for by exactly one of: the two semaphores, the
\* producers between them, the consumer between them, and the producers that
\* took the room for a batch and found none left.
RoomIsConserved ==
    dg # NoGen /\ ~ cancelled =>
        BufferSize[dg] =
            llenar + vaciar + Cardinality(Producers(Busy \cup {"claim"}))
            + (IF mainPc \in {"copy", "uncount", "return"} THEN 1 ELSE 0)
            + Cardinality(Producers({"ended"}))

\* buffer_count is what can be emptied, up to the steps under way.
CountIsRight ==
    dg # NoGen /\ ~ cancelled =>
        bufferCount = vaciar + Cardinality(Producers({"post"}))
                      + (IF mainPc \in {"copy", "uncount"} THEN 1 ELSE 0)

\* The semaphores, the threads and the counter agree on every buffer.
BuffersAreAccountedFor == RoomIsConserved /\ CountIsRight

\* A generator never runs on buffers that do not exist (any more).
BuffersExist == dg # NoGen => BufferSize[dg] <= allocated

\* The generator that runs has one producer.
OneProducer == dg # NoGen /\ NumThreads[dg] = 1

\* With one producer nobody writes into the buffer the consumer copies from.
CopyIsAlone ==
    OneProducer /\ mainPc = "copy" =>
        \A t \in Thread : pc[t] \in {"load", "write"} => currPtr[t] # ptrOut

\* The promise to the training loop; only generators with one producer keep
\* it, the others do not show.
Stream == INSTANCE BatchStream
          WITH owner <- IF OneProducer THEN dg ELSE NoGen,
               given <- IF OneProducer THEN got ELSE <<>>

\* What get_batch gives are whole batches of the epoch, each at most once.
StreamIsKept == Stream!Spec

\* No batch is given twice between start and stop.
NoRepetitions ==
    \A i, j \in DOMAIN got :
        got[i] = got[j] /\ got[i] \notin Junk => i = j

\* Whoever asks for no more batches than an epoch has gets an answer.
GetBatchReturns == mainPc = "take" /\ Len(got) < Nbpp[dg] ~> mainPc = "idle"

\* Stopping a generator ends all its producers, wherever they are.
StopReturns == mainPc = "stop" ~> mainPc = "idle"

\* No call of the training loop's hangs.
CallsReturn == GetBatchReturns /\ StopReturns
=============================================================================
