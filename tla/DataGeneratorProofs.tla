------------------------ MODULE DataGeneratorProofs ------------------------
(***************************************************************************)
(* Safety of the data generators for any number of generators, threads,     *)
(* buffers and batches, and BatchStream for those with one producer.         *)
(***************************************************************************)
EXTENDS DataGenerator, FiniteSetTheorems, SequenceTheorems, TLAPS

\* Every generator that exists fits in the buffers that exist, the pointers
\* stay inside the ring of the generator that runs, and no producer outlives
\* its generator.
RingInv ==
    /\ \A g \in created : BufferSize[g] <= allocated
    /\ dg # NoGen => ptrIn < BufferSize[dg] /\ ptrOut < BufferSize[dg]
    /\ dg = NoGen => \A t \in Thread : pc[t] \in {"none", "ended"}

TypeInv == TypeOK /\ RingInv

LEMMA RemainderBound ==
    ASSUME NEW a \in Nat, NEW b \in Nat \ {0}
    PROVE  a % b \in 0 .. b - 1
  OBVIOUS

LEMMA InitTypeInv == Init => TypeInv
  <1> SUFFICES ASSUME Init PROVE TypeInv
    OBVIOUS
  <1> USE GeneratorAssumption
  <1>1. <<>> \in Seq(Nat \cup Junk)
    BY EmptySeq
  <1>2. 0 \in Slot /\ 0 \in 0 .. MaxBuffer /\ Old \in Nat \cup Junk
    BY DEF Slot, Junk
  <1>3. TypeOK
    <2>1. pc \in [Thread -> {"none", "fill", "claim", "load", "write", "count",
                             "post", "ended"}]
      BY DEF Init
    <2>2. currPtr \in [Thread -> Slot] /\ currDsPtr \in [Thread -> Nat]
      BY <1>2 DEF Init
    <2>3. buffer \in [Slot -> Nat \cup Junk] /\ seen \in Nat \cup Junk
      BY <1>2 DEF Init
    <2>4. got \in Seq(Nat \cup Junk)
      BY <1>1 DEF Init
    <2>5. cancelled \in BOOLEAN
      BY DEF Init
    <2> QED
      BY <1>2, <2>1, <2>2, <2>3, <2>4, <2>5 DEF Init, TypeOK
  <1>4. RingInv
    BY DEF Init, RingInv
  <1> QED
    BY <1>3, <1>4 DEF TypeInv

\* A generator that runs is not the only one when another one is ended.
LEMMA OtherGenerator ==
    ASSUME TypeOK, NEW g \in created, dg # g, dg # NoGen
    PROVE  Cardinality(created) # 1
  <1>1. IsFiniteSet(created) /\ dg \in created
    BY GeneratorAssumption, FS_Subset DEF TypeOK
  <1>2. SUFFICES ASSUME Cardinality(created) = 1 PROVE FALSE
    OBVIOUS
  <1>3. PICK x : created = {x}
    BY <1>1, <1>2, FS_Singleton
  <1> QED
    BY <1>1, <1>3

\* The calls of the program keep the invariant.
LEMMA ProgramTypeInv ==
    ASSUME TypeInv, ProgramStep
    PROVE  TypeInv'
  <1> USE GeneratorAssumption DEF TypeInv, TypeOK, RingInv
  <1>1. ASSUME NEW g \in Gen, New(g) PROVE TypeInv'
    <2>1. g \in created' /\ created' \subseteq Gen /\ allocated' \in 0 .. MaxBuffer
      BY <1>1 DEF New
    <2>2. \A h \in created' : BufferSize[h] <= allocated'
      BY <1>1 DEF New
    <2>3. buffer' \in [Slot -> Nat \cup Junk]
      BY <1>1 DEF New, Junk
    <2> QED
      BY <1>1, <2>1, <2>2, <2>3
      DEF New, threadVars, semVars, ringVars
  <1>2. ASSUME NEW g \in Gen, End(g) PROVE TypeInv'
    <2>1. dg # NoGen => Cardinality(created) # 1
      BY <1>2, OtherGenerator DEF End
    <2>2. Cardinality(created) = 1 => created' = {}
      <3> SUFFICES ASSUME Cardinality(created) = 1 PROVE created' = {}
        OBVIOUS
      <3>1. IsFiniteSet(created)
        BY FS_Subset
      <3>2. PICK x : created = {x}
        BY <3>1, FS_Singleton
      <3> QED
        BY <1>2, <3>2 DEF End
    <2> QED
      BY <1>2, <2>1, <2>2
      DEF End, threadVars, semVars, ringVars, dataVars
  <1>3. ASSUME NEW g \in Gen, Start(g) PROVE TypeInv'
    <2>1. <<>> \in Seq(Nat \cup Junk)
      BY EmptySeq
    <2>2. pc' \in [Thread -> {"none", "fill", "claim", "load", "write", "count",
                              "post", "ended"}]
      BY <1>3 DEF Start
    <2>3. buffer' \in [Slot -> Nat \cup Junk]
      BY <1>3 DEF Start, Junk
    <2>4. g # NoGen /\ 0 < BufferSize[g] /\ 0 \in Slot /\ BufferSize[g] \in Nat
      BY DEF Slot
    <2>5. TypeOK'
      <3>1. got' \in Seq(Nat \cup Junk)
        BY <1>3, <2>1 DEF Start
      <3>2. cancelled' \in BOOLEAN
        BY <1>3 DEF Start
      <3> QED
        BY <1>3, <2>2, <2>3, <2>4, <3>1, <3>2
        DEF Start, Rewind, InitialRoom, progVars
    <2>6. RingInv'
      BY <1>3, <2>4 DEF Start, Rewind, progVars
    <2> QED
      BY <2>5, <2>6
  <1>4. CASE Stop
    BY <1>4 DEF Stop, progVars, threadVars, semVars, ringVars, dataVars
  <1>5. CASE GetBatch
    BY <1>5 DEF GetBatch, progVars, threadVars, semVars, ringVars, dataVars
  <1> QED
    BY <1>1, <1>2, <1>3, <1>4, <1>5 DEF ProgramStep

\* So does what get_batch_DataGen() and stop_DataGen() do after a call.
LEMMA CallTypeInv ==
    ASSUME TypeInv, CallStep
    PROVE  TypeInv'
  <1> USE GeneratorAssumption DEF TypeInv, TypeOK, RingInv
  <1>1. CASE Take
    BY <1>1 DEF Take, progVars, threadVars, ringVars
  <1>2. CASE EndCopy
    <2>1. dg \in Gen /\ BufferSize[dg] \in Nat \ {0} /\ BufferSize[dg] <= MaxBuffer
      BY <1>2 DEF EndCopy
    <2>2. ptrOut' \in Slot /\ ptrOut' < BufferSize[dg]
      BY <1>2, <2>1 DEF EndCopy, Slot
    <2>3. got' \in Seq(Nat \cup Junk)
      <3>1. PICK b \in Copied : got' = Append(got, b)
        BY <1>2 DEF EndCopy
      <3>2. b \in Nat \cup Junk
        BY <3>1 DEF Copied, Junk
      <3> QED
        BY <3>1, <3>2, AppendProperties
    <2>4. seen' \in Nat \cup Junk
      BY <1>2 DEF EndCopy, Junk
    <2> QED
      BY <1>2, <2>1, <2>2, <2>3, <2>4 DEF EndCopy, progVars, threadVars, semVars
  <1>3. CASE Uncount
    BY <1>3 DEF Uncount, progVars, threadVars, semVars, dataVars
  <1>4. CASE Return
    BY <1>4 DEF Return, progVars, threadVars, ringVars, dataVars
  <1>5. CASE Stopped
    <2>1. <<>> \in Seq(Nat \cup Junk)
      BY EmptySeq
    <2> QED
      BY <1>5, <2>1 DEF Stopped, progVars, threadVars, semVars, ringVars
  <1> QED
    BY <1>1, <1>2, <1>3, <1>4, <1>5 DEF CallStep

\* So do the producers.
LEMMA ProducerTypeInv ==
    ASSUME TypeInv, NEW t \in Thread, ProducerStep(t) \/ Cancel(t)
    PROVE  TypeInv'
  <1> USE GeneratorAssumption DEF TypeInv, TypeOK, RingInv
  <1>1. CASE WaitForRoom(t)
    BY <1>1 DEF WaitForRoom, progVars, ringVars, dataVars
  <1>2. CASE Claim(t)
    <2>0. pc[t] = "claim"
      BY <1>2 DEF Claim
    <2>1. dg \in created
      BY <2>0
    <2>2. /\ dg \in Gen /\ BufferSize[dg] \in Nat \ {0}
          /\ BufferSize[dg] <= MaxBuffer /\ Nbpp[dg] \in Nat
          /\ ptrIn \in Nat
      BY <2>1 DEF Slot
    <2>3. NextSlot(ptrIn) \in 0 .. BufferSize[dg] - 1
      <3>1. ptrIn + 1 \in Nat
        BY <2>2
      <3> QED
        BY <2>2, <3>1, RemainderBound DEF NextSlot
    <2>4. ptrIn' \in Slot /\ ptrIn' < BufferSize[dg]
      BY <1>2, <2>2, <2>3 DEF Claim, Slot
    <2>5. dsPtr' \in Nat
      BY <1>2 DEF Claim
    <2>6. currPtr' \in [Thread -> Slot] /\ currDsPtr' \in [Thread -> Nat]
      <3>1. CASE dsPtr < Nbpp[dg]
        <4>1. /\ currPtr' = [currPtr EXCEPT ![t] = ptrIn]
              /\ currDsPtr' = [currDsPtr EXCEPT ![t] = dsPtr]
          BY <1>2, <3>1 DEF Claim
        <4> QED
          BY <4>1
      <3>2. CASE ~ (dsPtr < Nbpp[dg])
        BY <1>2, <3>2 DEF Claim
      <3> QED
        BY <3>1, <3>2
    <2> QED
      BY <1>2, <2>1, <2>2, <2>4, <2>5, <2>6 DEF Claim, progVars, semVars, dataVars
  <1>3. CASE BeginWrite(t)
    <2>1. buffer' \in [Slot -> Nat \cup Junk]
      BY <1>3 DEF BeginWrite, Junk
    <2> QED
      BY <1>3, <2>1 DEF BeginWrite, progVars, semVars, ringVars
  <1>4. CASE EndWrite(t)
    <2>1. buffer' \in [Slot -> Nat \cup Junk]
      <3>1. PICK b \in Written(t) : buffer' = [buffer EXCEPT ![currPtr[t]] = b]
        BY <1>4 DEF EndWrite
      <3>2. b \in Nat \cup Junk
        BY <3>1 DEF Written, Junk
      <3> QED
        BY <3>1, <3>2
    <2> QED
      BY <1>4, <2>1 DEF EndWrite, progVars, semVars, ringVars
  <1>5. CASE Count(t)
    BY <1>5 DEF Count, progVars, semVars, dataVars
  <1>6. CASE Post(t)
    BY <1>6 DEF Post, progVars, ringVars, dataVars
  <1>7. CASE Cancel(t)
    BY <1>7 DEF Cancel, progVars, semVars, ringVars, dataVars
  <1> QED
    BY <1>1, <1>2, <1>3, <1>4, <1>5, <1>6, <1>7 DEF ProducerStep

LEMMA NextTypeInv == TypeInv /\ [Next]_vars => TypeInv'
  <1> SUFFICES ASSUME TypeInv, [Next]_vars PROVE TypeInv'
    OBVIOUS
  <1>1. CASE UNCHANGED vars
    BY <1>1 DEF vars, progVars, threadVars, semVars, ringVars, dataVars,
                TypeInv, TypeOK, RingInv
  <1>2. CASE Next
    BY <1>2, ProgramTypeInv, CallTypeInv, ProducerTypeInv DEF Next
  <1> QED
    BY <1>1, <1>2

LEMMA SpecTypeInv == Spec => []TypeInv
  BY InitTypeInv, NextTypeInv, PTL DEF Spec

\* The state of the generators always has its type; in particular the ring
\* pointers of producer_DataGen() and get_batch_DataGen() name buffers.
THEOREM TypeCorrect == Spec => []TypeOK
  <1>1. TypeInv => TypeOK
    BY DEF TypeInv
  <1> QED
    BY <1>1, SpecTypeInv, PTL

\* end_DataGen() never deletes the buffers of a generator that runs.
THEOREM BuffersAlwaysExist == Spec => []BuffersExist
  <1>1. TypeInv => BuffersExist
    BY DEF TypeInv, TypeOK, RingInv, BuffersExist
  <1> QED
    BY <1>1, SpecTypeInv, PTL

-----------------------------------------------------------------------------
\* The room in the ring.
PcState == {"none", "fill", "claim", "load", "write", "count", "post", "ended"}

\* One thread that moves changes the count of a set of states by itself.
LEMMA CountMove ==
    ASSUME NEW f \in [Thread -> PcState], NEW t \in Thread, NEW v \in PcState,
           NEW S
    PROVE  LET before == {u \in Thread : f[u] \in S}
               after  == {u \in Thread : [f EXCEPT ![t] = v][u] \in S}
           IN  /\ Cardinality(before) \in Nat
               /\ Cardinality(after) = Cardinality(before)
                                       - (IF f[t] \in S THEN 1 ELSE 0)
                                       + (IF v \in S THEN 1 ELSE 0)
  <1> DEFINE before == {u \in Thread : f[u] \in S}
             after  == {u \in Thread : [f EXCEPT ![t] = v][u] \in S}
             rest   == before \ {t}
  <1>1. IsFiniteSet(Thread)
    BY GeneratorAssumption, FS_Interval DEF Thread
  <1>2. IsFiniteSet(before) /\ Cardinality(before) \in Nat
    BY <1>1, FS_Subset, FS_CardinalityType
  <1>3. IsFiniteSet(rest) /\ Cardinality(rest) \in Nat
    BY <1>2, FS_RemoveElement, FS_CardinalityType
  <1>4. Cardinality(rest) = Cardinality(before) - (IF f[t] \in S THEN 1 ELSE 0)
    <2>1. t \in before <=> f[t] \in S
      OBVIOUS
    <2>2. Cardinality(rest) = IF t \in before THEN Cardinality(before) - 1
                                               ELSE Cardinality(before)
      BY <1>2, FS_RemoveElement
    <2> QED
      BY <1>2, <2>1, <2>2
  <1>5. Cardinality(after) = Cardinality(rest) + (IF v \in S THEN 1 ELSE 0)
    <2>1. after = IF v \in S THEN rest \cup {t} ELSE rest
      OBVIOUS
    <2>2. t \notin rest
      OBVIOUS
    <2>3. Cardinality(rest \cup {t}) = Cardinality(rest) + 1
      BY <1>3, <2>2, FS_AddElement
    <2> QED
      BY <1>3, <2>1, <2>3
  <1> QED
    BY <1>2, <1>3, <1>4, <1>5

\* The same for the producers of the model.
LEMMA ProducersMove ==
    ASSUME TypeOK, NEW t \in Thread, NEW v \in PcState,
           pc' = [pc EXCEPT ![t] = v], NEW S
    PROVE  /\ Cardinality(Producers(S)) \in Nat
           /\ Cardinality(Producers(S))' = Cardinality(Producers(S))
                                       - (IF pc[t] \in S THEN 1 ELSE 0)
                                       + (IF v \in S THEN 1 ELSE 0)
  <1>1. pc \in [Thread -> PcState]
    BY DEF TypeOK, PcState
  <1>2. /\ Producers(S) = {u \in Thread : pc[u] \in S}
        /\ Producers(S)' = {u \in Thread : [pc EXCEPT ![t] = v][u] \in S}
    BY DEF Producers
  <1> QED
    BY <1>1, <1>2, CountMove

RoomInv == TypeInv /\ RoomIsConserved /\ CountIsRight

LEMMA InitRoomInv == Init => RoomInv
  BY InitTypeInv DEF RoomInv, Init, RoomIsConserved, CountIsRight

\* A step that moves no thread leaves the sets of producers alone.
LEMMA ProducersStay ==
    ASSUME UNCHANGED pc
    PROVE  \A S : Producers(S)' = Producers(S)
  BY DEF Producers

\* At the start all producers wait for room and every buffer is free.
LEMMA StartRoomInv ==
    ASSUME RoomInv, NEW g \in Gen, Start(g)
    PROVE  RoomIsConserved' /\ CountIsRight'
  <1>1. /\ Producers(Busy \cup {"claim"})' = {}
        /\ Producers({"ended"})' = {} /\ Producers({"post"})' = {}
    BY DEF Start, Producers, Busy
  <1>2. /\ Cardinality(Producers(Busy \cup {"claim"}))' = 0
        /\ Cardinality(Producers({"ended"}))' = 0
        /\ Cardinality(Producers({"post"}))' = 0
    BY <1>1, FS_EmptySet
  <1>3. /\ mainPc' = "idle" /\ dg' = g /\ BufferSize[g] \in Nat
        /\ llenar' = BufferSize[g] /\ vaciar' = 0 /\ bufferCount' = 0
    BY GeneratorAssumption DEF Start, Rewind, InitialRoom
  <1>4. RoomIsConserved'
    BY <1>2, <1>3 DEF RoomIsConserved
  <1>5. CountIsRight'
    BY <1>2, <1>3 DEF CountIsRight
  <1> QED
    BY <1>4, <1>5

LEMMA OtherCallsRoomInv ==
    ASSUME RoomInv,
           \/ \E g \in Gen : New(g) \/ End(g)
           \/ Stop \/ GetBatch \/ CallStep
    PROVE  RoomIsConserved' /\ CountIsRight'
  <1> USE DEF RoomInv, TypeInv, RoomIsConserved, CountIsRight
  <1>1. UNCHANGED pc
    BY DEF New, End, Stop, GetBatch, CallStep, Take, EndCopy, Uncount, Return,
           Stopped, threadVars
  <1>2. /\ Producers(Busy \cup {"claim"})' = Producers(Busy \cup {"claim"})
        /\ Producers({"ended"})' = Producers({"ended"})
        /\ Producers({"post"})' = Producers({"post"})
    BY <1>1, ProducersStay
  <1>3. llenar \in Nat /\ vaciar \in Nat /\ bufferCount \in Int
    BY DEF TypeOK
  <1>4. \A S : Cardinality(Producers(S)) \in Nat
    <2>1. IsFiniteSet(Thread)
      BY GeneratorAssumption, FS_Interval DEF Thread
    <2> QED
      BY <2>1, FS_Subset, FS_CardinalityType DEF Producers
  <1>5. ASSUME NEW g \in Gen, New(g) \/ End(g)
        PROVE  RoomIsConserved' /\ CountIsRight'
    BY <1>2, <1>5 DEF New, End, semVars, ringVars
  <1>6. CASE Stop
    BY <1>6 DEF Stop
  <1>7. CASE GetBatch
    BY <1>2, <1>7 DEF GetBatch, semVars, ringVars
  <1>8. CASE Take
    BY <1>2, <1>3, <1>4, <1>8 DEF Take, ringVars
  <1>9. CASE EndCopy
    BY <1>2, <1>9 DEF EndCopy, semVars
  <1>10. CASE Uncount
    BY <1>2, <1>3, <1>4, <1>10 DEF Uncount, semVars
  <1>11. CASE Return
    BY <1>2, <1>3, <1>4, <1>11 DEF Return, ringVars
  <1>12. CASE Stopped
    BY <1>12 DEF Stopped
  <1> QED
    BY <1>5, <1>6, <1>7, <1>8, <1>9, <1>10, <1>11, <1>12 DEF CallStep

LEMMA ProducerRoomInv ==
    ASSUME RoomInv, NEW t \in Thread, ProducerStep(t) \/ Cancel(t)
    PROVE  RoomIsConserved' /\ CountIsRight'
  <1> USE DEF RoomInv, TypeInv, RoomIsConserved, CountIsRight
  <1>1. /\ llenar \in Nat /\ vaciar \in Nat /\ bufferCount \in Int
        /\ TypeOK
    BY DEF TypeOK
  <1> DEFINE A == {"load", "write", "count", "post", "claim"}
             E == {"ended"}
             P == {"post"}
             Move(S, v) == Cardinality(Producers(S))' =
                               Cardinality(Producers(S))
                               - (IF pc[t] \in S THEN 1 ELSE 0)
                               + (IF v \in S THEN 1 ELSE 0)
  <1>0. /\ Producers(Busy \cup {"claim"}) = Producers(A)
        /\ Producers(Busy \cup {"claim"})' = Producers(A)'
    BY DEF Busy, Producers
  <1>2. ASSUME NEW v \in PcState, pc' = [pc EXCEPT ![t] = v]
        PROVE  /\ Cardinality(Producers(A)) \in Nat /\ Move(A, v)
               /\ Cardinality(Producers(E)) \in Nat /\ Move(E, v)
               /\ Cardinality(Producers(P)) \in Nat /\ Move(P, v)
    <2>1. \A S : Cardinality(Producers(S)) \in Nat /\ Move(S, v)
      BY <1>1, <1>2, ProducersMove
    <2> HIDE DEF Move
    <2>2. Cardinality(Producers(A)) \in Nat /\ Move(A, v)
      BY <2>1
    <2>3. Cardinality(Producers(E)) \in Nat /\ Move(E, v)
      BY <2>1
    <2>4. Cardinality(Producers(P)) \in Nat /\ Move(P, v)
      BY <2>1
    <2> QED
      BY <2>2, <2>3, <2>4
  <1>3. CASE WaitForRoom(t)
    <2>1. pc' = [pc EXCEPT ![t] = "claim"] /\ pc[t] = "fill"
      BY <1>3 DEF WaitForRoom
    <2>2. /\ Cardinality(Producers(A)) \in Nat /\ Move(A, "claim")
          /\ Cardinality(Producers(E)) \in Nat /\ Move(E, "claim")
          /\ Cardinality(Producers(P)) \in Nat /\ Move(P, "claim")
      BY <1>2, <2>1 DEF PcState
    <2> QED
      BY <1>0, <1>1, <1>3, <2>1, <2>2 DEF WaitForRoom, ringVars
  <1>4. CASE BeginWrite(t)
    <2>1. pc' = [pc EXCEPT ![t] = "write"] /\ pc[t] = "load"
      BY <1>4 DEF BeginWrite
    <2>2. /\ Cardinality(Producers(A)) \in Nat /\ Move(A, "write")
          /\ Cardinality(Producers(E)) \in Nat /\ Move(E, "write")
          /\ Cardinality(Producers(P)) \in Nat /\ Move(P, "write")
      BY <1>2, <2>1 DEF PcState
    <2> QED
      BY <1>0, <1>1, <1>4, <2>1, <2>2 DEF BeginWrite, semVars, ringVars
  <1>5. CASE EndWrite(t)
    <2>1. pc' = [pc EXCEPT ![t] = "count"] /\ pc[t] = "write"
      BY <1>5 DEF EndWrite
    <2>2. /\ Cardinality(Producers(A)) \in Nat /\ Move(A, "count")
          /\ Cardinality(Producers(E)) \in Nat /\ Move(E, "count")
          /\ Cardinality(Producers(P)) \in Nat /\ Move(P, "count")
      BY <1>2, <2>1 DEF PcState
    <2> QED
      BY <1>0, <1>1, <1>5, <2>1, <2>2 DEF EndWrite, semVars, ringVars
  <1>6. CASE Count(t)
    <2>1. pc' = [pc EXCEPT ![t] = "post"] /\ pc[t] = "count"
      BY <1>6 DEF Count
    <2>2. /\ Cardinality(Producers(A)) \in Nat /\ Move(A, "post")
          /\ Cardinality(Producers(E)) \in Nat /\ Move(E, "post")
          /\ Cardinality(Producers(P)) \in Nat /\ Move(P, "post")
      BY <1>2, <2>1 DEF PcState
    <2> QED
      BY <1>0, <1>1, <1>6, <2>1, <2>2 DEF Count, semVars
  <1>7. CASE Post(t)
    <2>1. pc' = [pc EXCEPT ![t] = "fill"] /\ pc[t] = "post"
      BY <1>7 DEF Post
    <2>2. /\ Cardinality(Producers(A)) \in Nat /\ Move(A, "fill")
          /\ Cardinality(Producers(E)) \in Nat /\ Move(E, "fill")
          /\ Cardinality(Producers(P)) \in Nat /\ Move(P, "fill")
      BY <1>2, <2>1 DEF PcState
    <2> QED
      BY <1>0, <1>1, <1>7, <2>1, <2>2 DEF Post, ringVars
  <1>8. CASE Claim(t)
    <2>1. PICK v \in {"load", "ended"} : pc' = [pc EXCEPT ![t] = v]
      BY <1>8 DEF Claim
    <2>2. /\ Cardinality(Producers(A)) \in Nat /\ Move(A, v)
          /\ Cardinality(Producers(E)) \in Nat /\ Move(E, v)
          /\ Cardinality(Producers(P)) \in Nat /\ Move(P, v)
      BY <1>2, <2>1 DEF PcState
    <2> QED
      BY <1>0, <1>1, <1>8, <2>1, <2>2 DEF Claim, semVars
  <1>9. CASE Cancel(t)
    BY <1>9 DEF Cancel
  <1> QED
    BY <1>3, <1>4, <1>5, <1>6, <1>7, <1>8, <1>9 DEF ProducerStep

LEMMA NextRoomInv == RoomInv /\ [Next]_vars => RoomInv'
  <1> SUFFICES ASSUME RoomInv, [Next]_vars PROVE RoomInv'
    OBVIOUS
  <1>1. TypeInv'
    BY NextTypeInv DEF RoomInv
  <1>2. CASE UNCHANGED vars
    BY <1>1, <1>2, ProducersStay
    DEF RoomInv, RoomIsConserved, CountIsRight, vars, threadVars, semVars,
        ringVars
  <1>3. CASE Next
    BY <1>1, <1>3, StartRoomInv, OtherCallsRoomInv, ProducerRoomInv
    DEF RoomInv, Next, ProgramStep
  <1> QED
    BY <1>2, <1>3

LEMMA SpecRoomInv == Spec => []RoomInv
  BY InitRoomInv, NextRoomInv, PTL DEF Spec

\* The semaphores llenar and vaciar, the producers and get_batch_DataGen()
\* hold together exactly the buffers of the running generator, and
\* buffer_count tells how many of them can be emptied.
THEOREM BuffersAreAlwaysAccountedFor == Spec => []BuffersAreAccountedFor
  <1>1. RoomInv => BuffersAreAccountedFor
    BY DEF RoomInv, BuffersAreAccountedFor
  <1> QED
    BY <1>1, SpecRoomInv, PTL

-----------------------------------------------------------------------------
(* A generator with one producer thread keeps the promise of BatchStream. *)


One(condition) == IF condition THEN 1 ELSE 0

Loading == One(pc[1] \in {"load", "write"})
InWork  == One(pc[1] \in Busy)
Taking  == One(mainPc = "copy")
Held    == One(pc[1] \in Busy \cup {"claim"})
Carried == One(mainPc \in {"copy", "uncount", "return"})
Spent   == One(pc[1] = "ended")

\* Batch number i travels through buffer i % buffer_size: the batches from
\* the next one to give up to the last one loaded are in their buffers, and
\* never more of them than there are buffers.
RingHolds ==
    LET size == BufferSize[dg]
    IN  /\ \A t \in Thread \ {1} : pc[t] = "none"
        /\ size = llenar + vaciar + Held + Carried + Spent
        /\ dsPtr = Len(got) + Taking + vaciar + InWork
        /\ dsPtr <= Nbpp[dg]
        /\ ptrIn = dsPtr % size /\ ptrOut = Len(got) % size
        /\ pc[1] \in Busy =>
              currDsPtr[1] = dsPtr - 1 /\ currPtr[1] = (dsPtr - 1) % size
        /\ pc[1] = "write" => buffer[currPtr[1]] = Torn
        /\ mainPc = "copy" => seen = Len(got)
        /\ \A i \in Len(got) .. dsPtr - 1 - Loading : buffer[i % size] = i

GivenInOrder == \A i \in 1 .. Len(got) : got[i] = i - 1

StreamInv ==
    /\ TypeInv
    /\ cancelled /\ dg # NoGen => mainPc = "stop"
    /\ OneProducer => GivenInOrder
    /\ OneProducer /\ ~ cancelled => RingHolds

-----------------------------------------------------------------------------
\* Positions in a ring.
LEMMA Euclid ==
    ASSUME NEW n \in Nat, NEW d \in Nat \ {0}
    PROVE  /\ n \div d \in Nat
           /\ n % d \in 0 .. d - 1
           /\ n = d * (n \div d) + (n % d)
  OBVIOUS

LEMMA RemainderUnique ==
    ASSUME NEW n \in Nat, NEW d \in Nat \ {0}, NEW q \in Nat,
           NEW r \in 0 .. d - 1, n = d * q + r
    PROVE  n % d = r
  OBVIOUS

\* The next position, as producer_DataGen() computes it.
LEMMA NextPosition ==
    ASSUME NEW n \in Nat, NEW d \in Nat \ {0}
    PROVE  /\ ((n % d) + 1) % d = (n + 1) % d
           /\ (IF (n % d) + 1 >= d THEN 0 ELSE (n % d) + 1) = (n + 1) % d
  <1> DEFINE q == n \div d
             r == n % d
  <1>1. q \in Nat /\ r \in 0 .. d - 1 /\ n = d * q + r
    BY Euclid
  <1>2. CASE r + 1 = d
    <2>1. n + 1 = d * (q + 1) + 0
      <3>1. d * (q + 1) = d * q + d
        BY <1>1
      <3> QED
        BY <1>1, <1>2, <3>1
    <2>2. (n + 1) % d = 0
      <3>1. n + 1 \in Nat /\ q + 1 \in Nat /\ 0 \in 0 .. d - 1
        BY <1>1
      <3> HIDE DEF q
      <3> QED
        BY <2>1, <3>1, RemainderUnique
    <2>3. (r + 1) % d = 0
      BY <1>2
    <2> QED
      BY <1>1, <1>2, <2>2, <2>3
  <1>3. CASE r + 1 # d
    <2>1. n + 1 = d * q + (r + 1) /\ r + 1 \in 0 .. d - 1
      BY <1>1, <1>3
    <2>2. (n + 1) % d = r + 1
      <3> HIDE DEF q, r
      <3>1. n + 1 \in Nat
        OBVIOUS
      <3> QED
        BY <1>1, <2>1, <3>1, RemainderUnique
    <2>3. (r + 1) % d = r + 1
      BY <2>1
    <2> QED
      BY <2>1, <2>2, <2>3
  <1> QED
    BY <1>2, <1>3

\* Batches less than a round apart are in different buffers.
LEMMA DifferentPositions ==
    ASSUME NEW i \in Nat, NEW j \in Nat, NEW d \in Nat \ {0}, i < j, j < i + d
    PROVE  i % d # j % d
  <1> DEFINE q == i \div d
             p == j \div d
  <1>1. q \in Nat /\ i % d \in 0 .. d - 1 /\ i = d * q + (i % d)
    BY Euclid
  <1>2. p \in Nat /\ j % d \in 0 .. d - 1 /\ j = d * p + (j % d)
    BY Euclid
  <1>3. SUFFICES ASSUME i % d = j % d PROVE FALSE
    OBVIOUS
  <1> HIDE DEF q, p
  <1>4. d * p - d * q = j - i /\ d * p \in Nat /\ d * q \in Nat
    BY <1>1, <1>2, <1>3
  <1>5. CASE p <= q
    <2>1. d * p <= d * q
      BY <1>1, <1>2, <1>5
    <2> QED
      BY <1>4, <2>1
  <1>6. CASE p >= q + 1
    <2>1. d * p >= d * (q + 1)
      BY <1>1, <1>2, <1>6
    <2>2. d * (q + 1) = d * q + d
      BY <1>1
    <2> QED
      BY <1>4, <2>1, <2>2
  <1> QED
    BY <1>1, <1>2, <1>5, <1>6

-----------------------------------------------------------------------------
\* The invariant.
LEMMA InitStreamInv == Init => StreamInv
  <1> SUFFICES ASSUME Init PROVE StreamInv
    OBVIOUS
  <1>1. TypeInv
    BY InitTypeInv
  <1> QED
    BY <1>1 DEF Init, StreamInv, OneProducer

\* What TypeInv says of a generator that runs.
LEMMA RunningFacts ==
    ASSUME TypeInv, dg # NoGen
    PROVE  /\ dg \in Gen /\ BufferSize[dg] \in Nat \ {0} /\ Nbpp[dg] \in Nat
           /\ BufferSize[dg] <= allocated /\ allocated <= MaxBuffer
           /\ allocated \in Nat /\ MaxBuffer \in Nat /\ 1 \in Thread
           /\ llenar \in Nat /\ vaciar \in Nat /\ dsPtr \in Nat
           /\ Len(got) \in Nat
           /\ \A i \in Nat : i % BufferSize[dg] \in Slot
           /\ \A i \in Nat : i % BufferSize[dg] < allocated
  <1> USE GeneratorAssumption DEF TypeInv, TypeOK, RingInv
  <1>1. dg \in Gen /\ dg \in created
    OBVIOUS
  <1>2. /\ BufferSize[dg] \in Nat \ {0} /\ BufferSize[dg] <= allocated
        /\ allocated \in Nat /\ allocated <= MaxBuffer
    BY <1>1
  <1>3. ASSUME NEW i \in Nat
        PROVE  i % BufferSize[dg] \in Slot /\ i % BufferSize[dg] < allocated
    <2>1. i % BufferSize[dg] \in 0 .. BufferSize[dg] - 1
      BY <1>2, Euclid
    <2> QED
      BY <1>2, <2>1 DEF Slot
  <1>4. Len(got) \in Nat
    BY LenProperties
  <1>5. 1 \in Thread
    BY DEF Thread
  <1> QED
    BY <1>1, <1>2, <1>3, <1>4, <1>5

\* The batch the producer works on is the last one claimed.
LEMMA BatchInWork ==
    ASSUME StreamInv, OneProducer, ~ cancelled, pc[1] \in Busy
    PROVE  /\ dsPtr - 1 \in Nat
           /\ currDsPtr[1] = dsPtr - 1
           /\ currPtr[1] = (dsPtr - 1) % BufferSize[dg]
           /\ Len(got) <= dsPtr - 1
           /\ dsPtr - 1 < Len(got) + BufferSize[dg]
           /\ mainPc = "copy" => Len(got) < dsPtr - 1
  <1>1. RingHolds /\ TypeInv
    BY DEF StreamInv
  <1>2. /\ llenar \in Nat /\ vaciar \in Nat /\ dsPtr \in Nat
        /\ Len(got) \in Nat /\ BufferSize[dg] \in Nat
    BY <1>1, RunningFacts DEF OneProducer
  <1>3. /\ InWork = 1 /\ Held = 1 /\ Spent = 0
        /\ Taking \in {0, 1} /\ Carried \in {0, 1} /\ Taking <= Carried
        /\ mainPc = "copy" <=> Taking = 1
    BY DEF InWork, Held, Spent, Taking, Carried, One, Busy
  <1>4. /\ dsPtr = Len(got) + Taking + vaciar + 1
        /\ BufferSize[dg] = llenar + vaciar + 1 + Carried
    BY <1>1, <1>2, <1>3 DEF RingHolds
  <1>5. /\ dsPtr - 1 \in Nat /\ Len(got) <= dsPtr - 1
        /\ dsPtr - 1 < Len(got) + BufferSize[dg]
        /\ mainPc = "copy" => Len(got) < dsPtr - 1
    BY <1>2, <1>3, <1>4
  <1> QED
    BY <1>1, <1>5 DEF RingHolds

\* The batch in the hands of the consumer is the next one of the epoch.
LEMMA NextBatch ==
    ASSUME StreamInv, OneProducer, ~ cancelled,
           vaciar > 0 \/ mainPc = "copy"
    PROVE  /\ buffer[ptrOut] = Len(got) /\ Len(got) < Nbpp[dg]
  <1>1. RingHolds /\ TypeInv
    BY DEF StreamInv
  <1>2. /\ vaciar \in Nat /\ dsPtr \in Nat /\ Len(got) \in Nat /\ Nbpp[dg] \in Nat
    BY <1>1, RunningFacts DEF OneProducer
  <1>3. dsPtr - InWork > Len(got) /\ InWork >= Loading /\ InWork \in {0, 1}
        /\ Loading \in {0, 1}
    BY <1>1, <1>2 DEF RingHolds, InWork, Loading, Taking, One, Busy
  <1>4. Len(got) \in Len(got) .. dsPtr - 1 - Loading
    BY <1>2, <1>3
  <1>5. buffer[Len(got) % BufferSize[dg]] = Len(got)
    BY <1>1, <1>4 DEF RingHolds
  <1> QED
    BY <1>1, <1>2, <1>3, <1>5 DEF RingHolds

\* Calls of the program: the buffers in use are left alone.
LEMMA ProgramStreamInv ==
    ASSUME StreamInv, TypeInv', OneProducer', ProgramStep
    PROVE  StreamInv'
  <1> USE DEF StreamInv, GivenInOrder, OneProducer
  <1>1. ASSUME NEW g \in Gen, New(g) PROVE StreamInv'
    <2>1. ASSUME OneProducer, ~ cancelled
          PROVE  RingHolds'
      <3>1. RingHolds /\ TypeInv
        BY <2>1
      <3>2. \A i \in Nat : i % BufferSize[dg] \in Slot /\ i % BufferSize[dg] < allocated
        BY <2>1, <3>1, RunningFacts
      <3>3. \A i \in Nat : buffer'[i % BufferSize[dg]] = buffer[i % BufferSize[dg]]
        BY <1>1, <3>2 DEF New
      <3>4. /\ Len(got) \in Nat /\ dsPtr \in Nat /\ Loading \in Nat
            /\ 1 \in Thread
        BY <2>1, <3>1, RunningFacts DEF Loading, One
      <3>5. \A i \in Len(got) .. dsPtr - 1 - Loading : i \in Nat
        BY <3>4
      <3>6. pc[1] = "write" => buffer'[currPtr[1]] = buffer[currPtr[1]]
        <4>1. pc[1] = "write" => /\ currPtr[1] = (dsPtr - 1) % BufferSize[dg]
                                 /\ dsPtr - 1 \in Nat
          BY <2>1, <3>1, BatchInWork DEF Busy
        <4> QED
          BY <3>3, <4>1
      <3>7. UNCHANGED <<dg, mainPc, threadVars, cancelled, semVars, ringVars,
                        seen, got>>
        BY <1>1 DEF New
      <3> QED
        BY <3>1, <3>3, <3>5, <3>6, <3>7
        DEF RingHolds, Loading, InWork, Taking, Held, Carried, Spent,
            threadVars, semVars, ringVars
    <2> QED
      BY <1>1, <2>1 DEF New, threadVars
  <1>2. ASSUME NEW g \in Gen, End(g) PROVE StreamInv'
    BY <1>2 DEF End, RingHolds, Loading, InWork, Taking, Held, Carried, Spent,
                threadVars, semVars, ringVars, dataVars
  <1>3. ASSUME NEW g \in Gen, Start(g) PROVE StreamInv'
    <2>1. /\ dg' = g /\ g # NoGen /\ BufferSize[g] \in Nat \ {0}
          /\ Nbpp[g] \in Nat /\ 1 \in Thread
      BY <1>3, GeneratorAssumption DEF Start, Thread
    <2>2. /\ got' = <<>> /\ Len(got') = 0 /\ dsPtr' = 0 /\ ptrIn' = 0
          /\ ptrOut' = 0 /\ llenar' = BufferSize[g] /\ vaciar' = 0
          /\ mainPc' = "idle" /\ cancelled' = FALSE
      BY <1>3 DEF Start, Rewind, InitialRoom
    <2>3. pc'[1] = "fill" /\ \A t \in Thread \ {1} : pc'[t] = "none"
      BY <1>3, <2>1 DEF Start, Thread
    <2>4. 0 % BufferSize[g] = 0
      BY <2>1
    <2>5. /\ Loading' = 0 /\ InWork' = 0 /\ Taking' = 0
          /\ Held' = 0 /\ Carried' = 0 /\ Spent' = 0
      BY <2>2, <2>3 DEF Loading, InWork, Taking, Held, Carried, Spent, One, Busy
    <2>6. RingHolds'
      BY <2>1, <2>2, <2>3, <2>4, <2>5 DEF RingHolds, Busy
    <2> QED
      BY <2>1, <2>2, <2>6
  <1>4. CASE Stop
    BY <1>4 DEF Stop, dataVars
  <1>5. CASE GetBatch
    <2>1. /\ UNCHANGED <<dg, threadVars, cancelled, semVars, ringVars, dataVars>>
          /\ mainPc' = "take" /\ mainPc = "idle"
      BY <1>5 DEF GetBatch
    <2>2. /\ Loading' = Loading /\ InWork' = InWork /\ Taking' = Taking
          /\ Held' = Held /\ Carried' = Carried /\ Spent' = Spent
      BY <2>1 DEF Loading, InWork, Taking, Held, Carried, Spent, One, threadVars
    <2> QED
      BY <2>1, <2>2 DEF RingHolds, threadVars, semVars, ringVars, dataVars
  <1> QED
    BY <1>1, <1>2, <1>3, <1>4, <1>5 DEF ProgramStep

\* get_batch_DataGen() and the end of stop_DataGen().
LEMMA CallStreamInv ==
    ASSUME StreamInv, TypeInv', OneProducer', CallStep
    PROVE  StreamInv'
  <1> USE DEF StreamInv, GivenInOrder, OneProducer
  <1>1. CASE Take
    <2>1. OneProducer /\ ~ cancelled /\ mainPc = "take" /\ vaciar > 0
      BY <1>1 DEF Take, TypeInv, TypeOK
    <2>2. /\ RingHolds /\ Len(got) \in Nat /\ dsPtr \in Nat /\ vaciar \in Nat
          /\ llenar \in Nat
      BY <2>1, RunningFacts
    <2>3. seen' = Len(got) /\ vaciar' = vaciar - 1 /\ mainPc' = "copy"
      BY <1>1, <2>1, NextBatch DEF Take
    <2>4. UNCHANGED <<dg, pc, currPtr, currDsPtr, cancelled, llenar, dsPtr,
                      ptrIn, ptrOut, buffer, got>>
      BY <1>1 DEF Take, threadVars, ringVars
    <2>5. /\ Loading' = Loading /\ InWork' = InWork /\ InWork \in Nat
          /\ Held' = Held /\ Held \in Nat /\ Spent' = Spent /\ Spent \in Nat
          /\ Taking' = 1 /\ Taking = 0 /\ Carried' = 1 /\ Carried = 0
      BY <2>1, <2>3, <2>4
      DEF Loading, InWork, Taking, Held, Carried, Spent, One
    <2>6. /\ dsPtr' = Len(got') + Taking' + vaciar' + InWork'
          /\ BufferSize[dg'] = llenar' + vaciar' + Held' + Carried' + Spent'
      <3>1. BufferSize[dg] \in Nat
        BY <2>1, RunningFacts
      <3>2. /\ dsPtr = Len(got) + 0 + vaciar + InWork
            /\ BufferSize[dg] = llenar + vaciar + Held + 0 + Spent
        BY <2>2, <2>5 DEF RingHolds
      <3>3. /\ dsPtr = Len(got) + 1 + (vaciar - 1) + InWork
            /\ BufferSize[dg] = llenar + (vaciar - 1) + Held + 1 + Spent
        BY <2>2, <2>5, <3>1, <3>2
      <3> QED
        BY <2>3, <2>4, <2>5, <3>3
    <2>7. \A i \in Len(got') .. dsPtr' - 1 - Loading' :
             buffer'[i % BufferSize[dg']] = i
      BY <2>2, <2>4, <2>5 DEF RingHolds
    <2>8. RingHolds'
      BY <2>2, <2>3, <2>4, <2>6, <2>7 DEF RingHolds
    <2> QED
      BY <2>1, <2>4, <2>8
  <1>2. CASE EndCopy
    <2>1. OneProducer /\ ~ cancelled /\ mainPc = "copy"
      BY <1>2 DEF EndCopy, TypeInv, TypeOK
    <2>2. /\ RingHolds /\ Len(got) \in Nat /\ dsPtr \in Nat /\ vaciar \in Nat
          /\ llenar \in Nat /\ BufferSize[dg] \in Nat \ {0}
          /\ got \in Seq(Nat \cup Junk)
      BY <2>1, RunningFacts DEF TypeInv, TypeOK
    <2>3. got' = Append(got, Len(got))
      <3>1. buffer[ptrOut] = Len(got) /\ seen = Len(got)
        BY <2>1, <2>2, NextBatch DEF RingHolds
      <3> QED
        BY <1>2, <3>1 DEF EndCopy, Copied
    <2>4. /\ Len(got') = Len(got) + 1
          /\ \A i \in 1 .. Len(got) : got'[i] = got[i]
          /\ got'[Len(got) + 1] = Len(got)
      <3>1. Len(got) \in Nat \cup Junk
        BY <2>2
      <3> QED
        BY <2>2, <2>3, <3>1, AppendProperties
    <2>5. GivenInOrder'
      <3>1. \A i \in 1 .. Len(got) : got[i] = i - 1
        BY <2>1
      <3> QED
        BY <2>2, <2>4, <3>1
    <2>6. UNCHANGED <<dg, pc, currPtr, currDsPtr, cancelled, semVars, dsPtr,
                      ptrIn, buffer>>
      BY <1>2 DEF EndCopy, threadVars
    <2>7. ptrOut' = (Len(got) + 1) % BufferSize[dg] /\ mainPc' = "uncount"
      <3>1. ptrOut = Len(got) % BufferSize[dg]
        BY <2>2 DEF RingHolds
      <3> QED
        BY <1>2, <2>2, <3>1, NextPosition DEF EndCopy
    <2>8. /\ Loading' = Loading /\ InWork' = InWork /\ InWork \in Nat
          /\ Held' = Held /\ Spent' = Spent /\ Carried' = Carried
          /\ Taking' = 0 /\ Taking = 1
      BY <2>1, <2>6, <2>7
      DEF Loading, InWork, Taking, Held, Carried, Spent, One
    <2>9. RingHolds'
      <3>1. Loading \in Nat
        BY DEF Loading, One
      <3>2. \A i \in Len(got') .. dsPtr' - 1 - Loading' :
               buffer'[i % BufferSize[dg]] = i
        <4>1. \A i \in Len(got) .. dsPtr - 1 - Loading : buffer[i % BufferSize[dg]] = i
          BY <2>2 DEF RingHolds
        <4>2. dsPtr' = dsPtr /\ buffer' = buffer /\ dg' = dg /\ Loading' = Loading
          BY <2>6, <2>8
        <4>3. SUFFICES ASSUME NEW i \in Len(got') .. dsPtr' - 1 - Loading'
                       PROVE  buffer'[i % BufferSize[dg]] = i
          OBVIOUS
        <4>4. i \in Len(got) .. dsPtr - 1 - Loading
          BY <2>2, <2>4, <3>1, <4>2
        <4> QED
          BY <4>1, <4>2, <4>4
      <3> QED
        <4>1. /\ llenar' = llenar /\ vaciar' = vaciar /\ dsPtr' = dsPtr
              /\ BufferSize[dg'] = BufferSize[dg] /\ Nbpp[dg'] = Nbpp[dg]
              /\ mainPc' # "copy"
          BY <2>6, <2>7 DEF semVars
        <4>2. /\ BufferSize[dg] = llenar' + vaciar' + Held' + Carried' + Spent'
              /\ dsPtr' = Len(got) + Taking + vaciar' + InWork'
          BY <2>2, <2>8, <4>1 DEF RingHolds
        <4>3. dsPtr' = Len(got') + Taking' + vaciar' + InWork'
          <5>1. Len(got) \in Nat /\ vaciar' \in Nat /\ InWork' \in Nat
            BY <2>2, <2>8, <4>1
          <5> QED
            BY <2>4, <2>8, <4>2, <5>1
        <4> QED
          BY <2>2, <2>4, <2>6, <2>7, <3>2, <4>1, <4>2, <4>3 DEF RingHolds
    <2> QED
      BY <2>1, <2>5, <2>6, <2>9
  <1>3. CASE Uncount
    <2>1. /\ UNCHANGED <<dg, threadVars, cancelled, semVars, dsPtr, ptrIn,
                         ptrOut, dataVars>>
          /\ mainPc' = "return" /\ mainPc = "uncount"
      BY <1>3 DEF Uncount
    <2>2. /\ Loading' = Loading /\ InWork' = InWork /\ Taking' = Taking
          /\ Held' = Held /\ Carried' = Carried /\ Spent' = Spent
      BY <2>1 DEF Loading, InWork, Taking, Held, Carried, Spent, One, threadVars
    <2> QED
      BY <2>1, <2>2 DEF RingHolds, threadVars, semVars, dataVars
  <1>4. CASE Return
    <2>1. OneProducer /\ ~ cancelled /\ mainPc = "return"
      BY <1>4 DEF Return, TypeInv, TypeOK
    <2>2. /\ RingHolds /\ vaciar \in Nat /\ llenar \in Nat
          /\ BufferSize[dg] \in Nat
      BY <2>1, RunningFacts
    <2>3. /\ llenar' = llenar + 1 /\ mainPc' = "idle"
          /\ UNCHANGED <<dg, pc, currPtr, currDsPtr, cancelled, vaciar, dsPtr,
                         ptrIn, ptrOut, dataVars>>
      BY <1>4 DEF Return, threadVars, ringVars
    <2>4. /\ Loading' = Loading /\ InWork' = InWork
          /\ Held' = Held /\ Held \in Nat /\ Spent' = Spent /\ Spent \in Nat
          /\ Taking' = Taking /\ Carried' = 0 /\ Carried = 1
      BY <2>1, <2>3 DEF Loading, InWork, Taking, Held, Carried, Spent, One
    <2>5. RingHolds'
      BY <2>1, <2>2, <2>3, <2>4 DEF RingHolds, dataVars
    <2> QED
      BY <2>1, <2>3, <2>5 DEF dataVars
  <1>5. CASE Stopped
    BY <1>5 DEF Stopped
  <1> QED
    BY <1>1, <1>2, <1>3, <1>4, <1>5 DEF CallStep

\* The producer thread.
LEMMA ProducerStreamInv ==
    ASSUME StreamInv, TypeInv', OneProducer', NEW t \in Thread,
           ProducerStep(t) \/ Cancel(t)
    PROVE  StreamInv'
  <1>1. UNCHANGED <<dg, mainPc, cancelled, got>>
    BY DEF ProducerStep, WaitForRoom, Claim, BeginWrite, EndWrite, Count, Post,
           Cancel, semVars, ringVars, dataVars
  <1>2. SUFFICES ASSUME OneProducer, ~ cancelled PROVE RingHolds'
    BY <1>1 DEF StreamInv, GivenInOrder, OneProducer
  <1>3. RingHolds /\ TypeInv
    BY <1>2 DEF StreamInv
  <1>4. t = 1 /\ ProducerStep(1)
    <2>1. pc[t] # "none"
      BY DEF ProducerStep, WaitForRoom, Claim, BeginWrite, EndWrite, Count,
             Post, Cancel, Cancellable
    <2> QED
      BY <1>2, <1>3, <2>1 DEF RingHolds, Cancel
  <1>5. /\ BufferSize[dg] \in Nat \ {0} /\ Nbpp[dg] \in Nat
        /\ llenar \in Nat /\ vaciar \in Nat /\ dsPtr \in Nat
        /\ Len(got) \in Nat /\ 1 \in Thread
        /\ \A i \in Nat : i % BufferSize[dg] \in Slot
    BY <1>2, <1>3, RunningFacts DEF OneProducer
  <1>6. /\ DOMAIN pc = Thread /\ DOMAIN currPtr = Thread
        /\ DOMAIN currDsPtr = Thread /\ DOMAIN buffer = Slot
    BY <1>3 DEF TypeInv, TypeOK
  <1>7. Taking' = Taking /\ Carried' = Carried /\ Taking \in Nat /\ Carried \in Nat
    BY <1>1 DEF Taking, Carried, One
  <1>8. /\ \A u \in Thread \ {1} : pc[u] = "none"
        /\ BufferSize[dg] = llenar + vaciar + Held + Carried + Spent
        /\ dsPtr = Len(got) + Taking + vaciar + InWork
        /\ dsPtr <= Nbpp[dg]
        /\ ptrIn = dsPtr % BufferSize[dg] /\ ptrOut = Len(got) % BufferSize[dg]
        /\ pc[1] \in Busy =>
              /\ currDsPtr[1] = dsPtr - 1
              /\ currPtr[1] = (dsPtr - 1) % BufferSize[dg]
        /\ pc[1] = "write" => buffer[currPtr[1]] = Torn
        /\ mainPc = "copy" => seen = Len(got)
        /\ \A i \in Len(got) .. dsPtr - 1 - Loading : buffer[i % BufferSize[dg]] = i
    BY <1>3 DEF RingHolds
  <1>a. /\ BufferSize[dg] = llenar + vaciar + Held + Carried + Spent
        /\ dsPtr = Len(got) + Taking + vaciar + InWork
        /\ BufferSize[dg] \in Nat /\ llenar \in Nat /\ vaciar \in Nat /\ dsPtr \in Nat
        /\ Len(got) \in Nat /\ Taking \in Nat /\ Carried \in Nat
    BY <1>5, <1>7, <1>8
  <1>9. CASE WaitForRoom(1)
    <2>1. /\ llenar' = llenar - 1 /\ pc[1] = "fill" /\ pc' = [pc EXCEPT ![1] = "claim"]
          /\ UNCHANGED <<currPtr, currDsPtr, vaciar, ringVars, dataVars>>
      BY <1>9 DEF WaitForRoom
    <2>2. pc'[1] = "claim" /\ \A u \in Thread \ {1} : pc'[u] = "none"
      BY <1>5, <1>6, <1>8, <2>1
    <2>3. /\ Loading' = Loading /\ InWork' = InWork /\ Held' = 1 /\ Held = 0
          /\ Spent' = 0 /\ Spent = 0
      BY <2>1, <2>2 DEF Loading, InWork, Held, Spent, One, Busy
    <2>4. BufferSize[dg] = llenar' + vaciar' + Held' + Carried' + Spent'
      <3>1. llenar' = llenar - 1 /\ vaciar' = vaciar /\ Carried' = Carried
        BY <1>7, <2>1
      <3> QED
        BY <1>a, <2>3, <3>1
    <2> QED
      BY <1>1, <1>7, <1>8, <2>1, <2>2, <2>3, <2>4
      DEF RingHolds, Busy, ringVars, dataVars
  <1>10. CASE Claim(1)
    <2>1. /\ pc[1] = "claim"
          /\ UNCHANGED <<semVars, ptrOut, bufferCount, dataVars>>
      BY <1>10 DEF Claim
    <2>2. Loading = 0 /\ InWork = 0 /\ Held = 1 /\ Spent = 0
      BY <2>1 DEF Loading, InWork, Held, Spent, One, Busy
    <2>3. CASE dsPtr < Nbpp[dg]
      <3>1. /\ currPtr' = [currPtr EXCEPT ![1] = ptrIn]
            /\ currDsPtr' = [currDsPtr EXCEPT ![1] = dsPtr]
            /\ dsPtr' = dsPtr + 1
            /\ ptrIn' = (ptrIn + 1) % BufferSize[dg]
            /\ pc' = [pc EXCEPT ![1] = "load"]
        BY <1>10, <2>3 DEF Claim, NextSlot
      <3>2. /\ pc'[1] = "load" /\ \A u \in Thread \ {1} : pc'[u] = "none"
            /\ currPtr'[1] = dsPtr % BufferSize[dg] /\ currDsPtr'[1] = dsPtr
        BY <1>5, <1>6, <1>8, <3>1
      <3>3. Loading' = 1 /\ InWork' = 1 /\ Held' = 1 /\ Spent' = 0
        BY <3>2 DEF Loading, InWork, Held, Spent, One, Busy
      <3>4. ptrIn' = dsPtr' % BufferSize[dg]
        BY <1>5, <1>8, <3>1, NextPosition
      <3>5. dsPtr' - 1 = dsPtr /\ dsPtr' <= Nbpp[dg]
        BY <1>5, <2>3, <3>1
      <3>6. dsPtr' = Len(got) + Taking + vaciar + InWork'
        BY <1>a, <2>2, <3>1, <3>3
      <3>7. \A i \in Len(got) .. dsPtr' - 1 - Loading' :
               buffer[i % BufferSize[dg]] = i
        BY <1>5, <1>8, <2>2, <3>1, <3>3
      <3> QED
        BY <1>1, <1>7, <1>8, <2>1, <2>2, <3>2, <3>3, <3>4, <3>5, <3>6, <3>7
        DEF RingHolds, semVars, dataVars
    <2>4. CASE ~ (dsPtr < Nbpp[dg])
      <3>1. /\ pc' = [pc EXCEPT ![1] = "ended"]
            /\ UNCHANGED <<currPtr, currDsPtr, dsPtr, ptrIn>>
        BY <1>10, <2>4 DEF Claim
      <3>2. pc'[1] = "ended" /\ \A u \in Thread \ {1} : pc'[u] = "none"
        BY <1>5, <1>6, <1>8, <3>1
      <3>3. Loading' = 0 /\ InWork' = 0 /\ Held' = 0 /\ Spent' = 1
        BY <3>2 DEF Loading, InWork, Held, Spent, One, Busy
      <3>4. BufferSize[dg] = llenar + vaciar + Held' + Carried + Spent'
        BY <1>a, <2>2, <3>3
      <3> QED
        BY <1>1, <1>7, <1>8, <2>1, <2>2, <3>1, <3>2, <3>3, <3>4
        DEF RingHolds, Busy, semVars, dataVars
    <2> QED
      BY <2>3, <2>4
  <1>11. CASE BeginWrite(1)
    <2>1. /\ pc[1] = "load" /\ pc' = [pc EXCEPT ![1] = "write"]
          /\ UNCHANGED <<currPtr, currDsPtr, semVars, ringVars, seen>>
      BY <1>11 DEF BeginWrite
    <2>2. pc'[1] = "write" /\ \A u \in Thread \ {1} : pc'[u] = "none"
      BY <1>5, <1>6, <1>8, <2>1
    <2>3. /\ Loading' = 1 /\ Loading = 1 /\ InWork' = InWork /\ Held' = Held
          /\ Spent' = Spent
      BY <2>1, <2>2 DEF Loading, InWork, Held, Spent, One, Busy
    <2>4. /\ dsPtr - 1 \in Nat /\ currPtr[1] = (dsPtr - 1) % BufferSize[dg]
          /\ currDsPtr[1] = dsPtr - 1
          /\ dsPtr - 1 < Len(got) + BufferSize[dg]
      BY <1>2, <2>1, BatchInWork DEF Busy
    <2>5. buffer' = [buffer EXCEPT ![(dsPtr - 1) % BufferSize[dg]] = Torn]
      BY <1>8, <1>11, <2>4 DEF BeginWrite, WrittenByOther
    <2>6. buffer'[currPtr'[1]] = Torn
      BY <1>5, <1>6, <2>1, <2>4, <2>5
    <2>7. ASSUME NEW i \in Len(got) .. dsPtr - 1 - Loading
          PROVE  buffer'[i % BufferSize[dg]] = i
      <3>1. Loading = 1 /\ dsPtr \in Nat /\ Len(got) \in Nat /\ BufferSize[dg] \in Nat
        BY <1>5, <2>3
      <3>2. i \in Nat /\ i < dsPtr - 1 /\ dsPtr - 1 < i + BufferSize[dg]
        BY <2>4, <3>1
      <3>3. i % BufferSize[dg] # (dsPtr - 1) % BufferSize[dg]
        BY <1>5, <2>4, <3>2, DifferentPositions
      <3>4. i % BufferSize[dg] \in Slot
        BY <1>5, <3>2
      <3> QED
        BY <1>6, <1>8, <2>5, <3>3, <3>4
    <2> QED
      BY <1>1, <1>7, <1>8, <2>1, <2>2, <2>3, <2>4, <2>6, <2>7
      DEF RingHolds, semVars, ringVars
  <1>12. CASE EndWrite(1)
    <2>1. /\ pc[1] = "write" /\ pc' = [pc EXCEPT ![1] = "count"]
          /\ UNCHANGED <<currPtr, currDsPtr, semVars, ringVars, seen>>
      BY <1>12 DEF EndWrite
    <2>2. pc'[1] = "count" /\ \A u \in Thread \ {1} : pc'[u] = "none"
      BY <1>5, <1>6, <1>8, <2>1
    <2>3. /\ Loading' = 0 /\ Loading = 1 /\ InWork' = InWork /\ Held' = Held
          /\ Spent' = Spent
      BY <2>1, <2>2 DEF Loading, InWork, Held, Spent, One, Busy
    <2>4. /\ dsPtr - 1 \in Nat /\ currPtr[1] = (dsPtr - 1) % BufferSize[dg]
          /\ currDsPtr[1] = dsPtr - 1
          /\ dsPtr - 1 < Len(got) + BufferSize[dg]
      BY <1>2, <2>1, BatchInWork DEF Busy
    <2>5. buffer' = [buffer EXCEPT ![(dsPtr - 1) % BufferSize[dg]] = dsPtr - 1]
      <3>1. ~ WrittenByOther(1, currPtr[1])
        BY <1>8 DEF WrittenByOther
      <3>2. Written(1) = {dsPtr - 1}
        BY <1>8, <2>1, <2>4, <3>1, GeneratorAssumption DEF Written
      <3> QED
        BY <1>12, <2>4, <3>2 DEF EndWrite
    <2>6. ASSUME NEW i \in Len(got') .. dsPtr' - 1 - Loading'
          PROVE  buffer'[i % BufferSize[dg]] = i
      <3>1. i \in Nat /\ i % BufferSize[dg] \in Slot
        BY <1>1, <1>5
      <3>2. CASE i = dsPtr - 1
        BY <1>6, <2>5, <3>1, <3>2
      <3>3. CASE i # dsPtr - 1
        <4>1. i < dsPtr - 1 /\ dsPtr - 1 < i + BufferSize[dg]
              /\ i \in Len(got) .. dsPtr - 1 - Loading
          BY <1>1, <1>5, <2>1, <2>3, <2>4, <3>3 DEF ringVars
        <4>2. i % BufferSize[dg] # (dsPtr - 1) % BufferSize[dg]
          BY <1>5, <2>4, <3>1, <4>1, DifferentPositions
        <4> QED
          BY <1>6, <1>8, <2>5, <3>1, <4>1, <4>2
      <3> QED
        BY <3>2, <3>3
    <2> QED
      BY <1>1, <1>7, <1>8, <2>1, <2>2, <2>3, <2>4, <2>6
      DEF RingHolds, semVars, ringVars
  <1>13. CASE Count(1)
    <2>1. /\ pc[1] = "count" /\ pc' = [pc EXCEPT ![1] = "post"]
          /\ UNCHANGED <<currPtr, currDsPtr, semVars, dsPtr, ptrIn, ptrOut, dataVars>>
      BY <1>13 DEF Count
    <2>2. pc'[1] = "post" /\ \A u \in Thread \ {1} : pc'[u] = "none"
      BY <1>5, <1>6, <1>8, <2>1
    <2>3. /\ Loading' = Loading /\ InWork' = InWork /\ Held' = Held
          /\ Spent' = Spent
      BY <2>1, <2>2 DEF Loading, InWork, Held, Spent, One, Busy
    <2> QED
      BY <1>1, <1>7, <1>8, <2>1, <2>2, <2>3 DEF RingHolds, Busy, semVars, dataVars
  <1>14. CASE Post(1)
    <2>1. /\ pc[1] = "post" /\ pc' = [pc EXCEPT ![1] = "fill"]
          /\ vaciar' = vaciar + 1
          /\ UNCHANGED <<currPtr, currDsPtr, llenar, ringVars, dataVars>>
      BY <1>14 DEF Post
    <2>2. pc'[1] = "fill" /\ \A u \in Thread \ {1} : pc'[u] = "none"
      BY <1>5, <1>6, <1>8, <2>1
    <2>3. /\ Loading' = Loading /\ InWork' = 0 /\ InWork = 1
          /\ Held' = 0 /\ Held = 1 /\ Spent' = Spent /\ Spent = 0
      BY <2>1, <2>2 DEF Loading, InWork, Held, Spent, One, Busy
    <2>4. /\ BufferSize[dg] = llenar' + vaciar' + Held' + Carried' + Spent'
          /\ dsPtr = Len(got) + Taking + vaciar' + InWork'
      <3>1. llenar' = llenar /\ vaciar' = vaciar + 1 /\ Carried' = Carried
        BY <1>7, <2>1
      <3> QED
        BY <1>a, <2>3, <3>1
    <2> QED
      BY <1>1, <1>7, <1>8, <2>1, <2>2, <2>3, <2>4
      DEF RingHolds, Busy, ringVars, dataVars
  <1> QED
    BY <1>4, <1>9, <1>10, <1>11, <1>12, <1>13, <1>14 DEF ProducerStep

\* With several producers nothing is said of the ring; when none runs, either.
LEMMA NotOneProducer ==
    ASSUME StreamInv, TypeInv', Next, ~ OneProducer'
    PROVE  StreamInv'
  <1>1. cancelled' /\ dg' # NoGen => mainPc' = "stop"
    <2>1. CASE ProgramStep
      BY <2>1 DEF StreamInv, ProgramStep, New, End, Start, Stop, GetBatch
    <2>2. CASE CallStep
      BY <2>2 DEF StreamInv, CallStep, Take, EndCopy, Uncount, Return, Stopped
    <2>3. CASE \E t \in Thread : ProducerStep(t) \/ Cancel(t)
      BY <2>3 DEF StreamInv, ProducerStep, WaitForRoom, Claim, BeginWrite,
                  EndWrite, Count, Post, Cancel
    <2> QED
      BY <2>1, <2>2, <2>3 DEF Next
  <1> QED
    BY <1>1 DEF StreamInv

LEMMA NextStreamInv ==
    ASSUME StreamInv, [Next]_vars
    PROVE  StreamInv'
  <1>1. TypeInv'
    BY NextTypeInv DEF StreamInv
  <1>2. CASE Next
    <2>1. CASE OneProducer'
      <3>1. CASE ProgramStep
        BY <1>1, <2>1, <3>1, ProgramStreamInv
      <3>2. CASE CallStep
        BY <1>1, <2>1, <3>2, CallStreamInv
      <3>3. ASSUME NEW t \in Thread, ProducerStep(t) \/ Cancel(t)
            PROVE  StreamInv'
        BY <1>1, <2>1, <3>3, ProducerStreamInv
      <3> QED
        BY <1>2, <3>1, <3>2, <3>3 DEF Next
    <2>2. CASE ~ OneProducer'
      BY <1>1, <1>2, <2>2, NotOneProducer
    <2> QED
      BY <2>1, <2>2
  <1>3. CASE UNCHANGED vars
    <2>1. UNCHANGED <<dg, mainPc, pc, currPtr, currDsPtr, cancelled, llenar,
                      vaciar, dsPtr, ptrIn, ptrOut, buffer, seen, got>>
      BY <1>3 DEF vars, threadVars, semVars, ringVars, dataVars
    <2>2. /\ Loading' = Loading /\ InWork' = InWork /\ Taking' = Taking
          /\ Held' = Held /\ Carried' = Carried /\ Spent' = Spent
      BY <2>1 DEF Loading, InWork, Taking, Held, Carried, Spent, One
    <2> QED
      BY <1>1, <2>1, <2>2 DEF StreamInv, GivenInOrder, RingHolds, OneProducer
  <1> QED
    BY <1>2, <1>3

LEMMA SpecStreamInv == Spec => []StreamInv
  <1>1. Init => StreamInv
    BY InitStreamInv
  <1>2. StreamInv /\ [Next]_vars => StreamInv'
    BY NextStreamInv
  <1> QED
    BY <1>1, <1>2, PTL DEF Spec

-----------------------------------------------------------------------------
\* With one producer thread, producer_DataGen() never writes into the buffer
\* get_batch_DataGen() copies out of.
THEOREM CopiesAreAlone == Spec => []CopyIsAlone
  <1>1. StreamInv => CopyIsAlone
    <2> SUFFICES ASSUME StreamInv, OneProducer, mainPc = "copy",
                        NEW t \in Thread, pc[t] \in {"load", "write"}
                 PROVE  currPtr[t] # ptrOut
      BY DEF CopyIsAlone
    <2>1. dg # NoGen /\ ~ cancelled /\ TypeInv
      BY DEF StreamInv, OneProducer
    <2>2. RingHolds
      BY <2>1 DEF StreamInv
    <2>3. t = 1
      BY <2>2 DEF RingHolds
    <2>4. /\ dsPtr - 1 \in Nat /\ currPtr[1] = (dsPtr - 1) % BufferSize[dg]
          /\ Len(got) < dsPtr - 1 /\ dsPtr - 1 < Len(got) + BufferSize[dg]
      BY <2>1, <2>3, BatchInWork DEF Busy
    <2>5. Len(got) \in Nat /\ BufferSize[dg] \in Nat \ {0}
      BY <2>1, RunningFacts
    <2>6. Len(got) % BufferSize[dg] # (dsPtr - 1) % BufferSize[dg]
      BY <2>4, <2>5, DifferentPositions
    <2> QED
      BY <2>2, <2>3, <2>4, <2>6 DEF RingHolds
  <1>2. Spec => []StreamInv
    BY SpecStreamInv
  <1> QED
    BY <1>1, <1>2, PTL

\* A step of the generator is a step of the stream, or changes nothing of it.
LEMMA StreamStep ==
    ASSUME StreamInv, [Next]_vars
    PROVE  [Stream!Next]_(Stream!vars)
  <1> USE DEF Stream!vars, OneProducer
  <1>1. ASSUME NEW g \in Gen, New(g) \/ End(g) PROVE UNCHANGED Stream!vars
    BY <1>1 DEF New, End, dataVars
  <1>2. ASSUME NEW g \in Gen, Start(g) PROVE [Stream!Next]_(Stream!vars)
    BY <1>2, GeneratorAssumption DEF Start, Stream!Next, Stream!Open
  <1>3. CASE Stop \/ GetBatch \/ Take \/ Uncount \/ Return
    BY <1>3 DEF Stop, GetBatch, Take, Uncount, Return, dataVars
  <1>4. CASE EndCopy /\ OneProducer
    <2>1. dg # NoGen /\ ~ cancelled /\ mainPc = "copy" /\ TypeInv
      BY <1>4 DEF EndCopy, StreamInv
    <2>2. RingHolds /\ Len(got) \in Nat /\ Nbpp[dg] \in Nat
      BY <1>4, <2>1, RunningFacts DEF StreamInv
    <2>3. buffer[ptrOut] = Len(got) /\ Len(got) < Nbpp[dg] /\ seen = Len(got)
      BY <1>4, <2>1, <2>2, NextBatch DEF RingHolds
    <2>4. got' = Append(got, Len(got)) /\ dg' = dg
      BY <1>4, <2>3 DEF EndCopy, Copied
    <2>5. Len(got) \notin Range(got)
      <3> SUFFICES ASSUME NEW i \in DOMAIN got, got[i] = Len(got) PROVE FALSE
        BY DEF Range
      <3>1. i \in 1 .. Len(got)
        BY <2>1, LenProperties DEF TypeInv, TypeOK
      <3>2. got[i] = i - 1
        BY <1>4, <3>1 DEF StreamInv, GivenInOrder
      <3> QED
        BY <2>2, <3>1, <3>2
    <2>6. Len(got) \in 0 .. Nbpp[dg] - 1
      BY <2>2, <2>3
    <2>7. Stream!Give(Len(got))
      BY <1>4, <2>1, <2>4, <2>5 DEF Range, Stream!Give, Stream!Range
    <2> QED
      BY <1>4, <2>1, <2>6, <2>7 DEF Stream!Next
  <1>5. CASE Stopped /\ OneProducer
    BY <1>5 DEF Stopped, Stream!Next, Stream!Close
  <1>6. CASE (EndCopy \/ Stopped) /\ ~ OneProducer
    BY <1>6 DEF EndCopy, Stopped
  <1>7. ASSUME NEW t \in Thread, ProducerStep(t) \/ Cancel(t)
        PROVE  UNCHANGED Stream!vars
    BY <1>7 DEF ProducerStep, WaitForRoom, Claim, BeginWrite, EndWrite, Count,
                Post, Cancel, dataVars
  <1>8. CASE UNCHANGED vars
    BY <1>8 DEF vars, dataVars
  <1> QED
    BY <1>1, <1>2, <1>3, <1>4, <1>5, <1>6, <1>7, <1>8
    DEF Next, ProgramStep, CallStep

\* With one producer thread, what get_batch_DataGen() gives between
\* start_DataGen() and stop_DataGen() are whole batches of the epoch, none of
\* them twice: the generator implements BatchStream.
THEOREM StreamIsImplemented == Spec => StreamIsKept
  <1>1. Init => Stream!Init
    BY DEF Init, Stream!Init, OneProducer
  <1>2. StreamInv /\ [Next]_vars => [Stream!Next]_(Stream!vars)
    BY StreamStep
  <1>3. Spec => []StreamInv
    BY SpecStreamInv
  <1> QED
    BY <1>1, <1>2, <1>3, PTL DEF Spec, StreamIsKept, Stream!Spec
=============================================================================
