----------------------- MODULE WeightAveragingProofs -----------------------
(***************************************************************************)
(* Proofs about WeightAveraging, for any number of ranks, parameters and    *)
(* programs: its types, that no weight holds a batch nobody has trained, that *)
(* a division by zero has one of three causes; and, because all ranks follow *)
(* rank 0 through one and the same loop (Lockstep), that the collectives they *)
(* call match and how far their weights drift apart.                        *)
(***************************************************************************)
EXTENDS WeightAveraging, WellFoundedInduction, TLAPS

LEMMA DivIsNat ==
    ASSUME NEW a \in Nat, NEW b \in Nat \ {0}
    PROVE  a \div b \in Nat
  OBVIOUS

LEMMA LeastOfNaturals ==
    ASSUME NEW S \in SUBSET Nat, S # {}
    PROVE  \E n \in S : \A m \in S : n <= m
  <1>1. PICK n \in S : \A m \in S : <<m, n>> \notin OpToRel(<, Nat)
    BY NatLessThanWellFounded, WFMin
  <1>2. \A m \in S : ~ (m < n)
    BY <1>1 DEF OpToRel
  <1> QED
    BY <1>2

LEMMA RankFacts == 0 \in Rank /\ Rank \subseteq Nat /\ 1 \in Param /\ P \in Param
  BY AveragingAssumption DEF Rank, Param

\* What is in a program.
LEMMA ProgramFacts ==
    ASSUME program \in Programs
    PROVE  /\ program.method \in Method /\ program.avg \in Nat
           /\ program.every \in Nat /\ program.fits \in Seq(Fit)
           /\ program.fits # <<>> /\ 1 \in DOMAIN program.fits
           /\ \A k \in DOMAIN program.fits : program.fits[k] \in Fit
           /\ DOMAIN program.fits = 1 .. Len(program.fits)
           /\ Len(program.fits) \in Nat
  <1>1. program \in Program /\ program.fits # <<>>
    BY AveragingAssumption
  <1>2. program.method \in Method /\ program.avg \in Nat /\ program.every \in Nat
        /\ program.fits \in Seq(Fit)
    BY <1>1 DEF Program
  <1> QED
    BY <1>1, <1>2

LEMMA BatchTypes ==
    ASSUME NEW f \in Fit
    PROVE  /\ LocalBatch(f) \in Nat
           /\ LocalBatch(f) # 0 => BatchesPerProc(f) \in Nat
  <1>1. f.batch \in Nat /\ f.size \in Nat /\ N \in Nat \ {0}
    BY AveragingAssumption DEF Fit
  <1>2. LocalBatch(f) \in Nat
    BY <1>1, DivIsNat DEF LocalBatch
  <1>3. ASSUME LocalBatch(f) # 0 PROVE BatchesPerProc(f) \in Nat
    <2>1. f.size \div LocalBatch(f) \in Nat
      BY <1>1, <1>2, <1>3, DivIsNat
    <2> QED
      BY <2>1, <1>1, DivIsNat DEF BatchesPerProc
  <1> QED
    BY <1>2, <1>3

\* An interval is never rounded down to 0: it was 0 before, there are no batches
\* to average, or the program asked for 0.
LEMMA IntervalBounds ==
    ASSUME program \in Programs, NEW ba \in Nat, NEW i \in Nat, NEW most \in Nat,
           program.method \in Periodic => program.every # 0,
           NEW n \in NewIntervals(ba, i, most)
    PROVE  n \in Nat /\ (n = 0 => ba = 0 \/ most = 0 \/ program.avg = 0)
  <1>1. program.avg \in Nat /\ program.method \in Method
    BY ProgramFacts
  <1>2. CASE program.method = "limit_overhead"
    BY <1>2 DEF NewIntervals, LimitOverhead
  <1>3. CASE program.method = "fixed"
    BY <1>3 DEF NewIntervals
  <1>4. CASE program.method \in {"avg_inc", "sawtooth"}
    BY <1>4 DEF NewIntervals, Periodically, Smaller
  <1>5. CASE program.method = "neg_sawtooth"
    BY <1>1, <1>5 DEF NewIntervals, Periodically, Larger
  <1>6. CASE program.method = "auto_time"
    BY <1>1, <1>6 DEF NewIntervals, Periodically, Smaller, Larger, Lower
  <1> QED
    BY <1>1, <1>2, <1>3, <1>4, <1>5, <1>6 DEF Method

-----------------------------------------------------------------------------
(* Packets.                                                                  *)

NewPacket(op, weights, number) == [op |-> op, weights |-> weights, number |-> number]

LEMMA SentPackets ==
    ASSUME TypeOK, NEW op \in {"weights", "interval", "stop"},
           NEW weights \in [Rank -> Nat], NEW number \in Nat,
           Broadcast(op, weights, number)
    PROVE  /\ chan' \in [Rank -> Seq(Packet)]
           /\ \A r \in Rank : \A i \in DOMAIN chan'[r] :
                  \/ i \in DOMAIN chan[r] /\ chan'[r][i] = chan[r][i]
                  \/ chan'[r][i] = NewPacket(op, weights, number)
  <1> DEFINE new == NewPacket(op, weights, number)
  <1>1. new \in Packet
    BY DEF NewPacket, Packet
  <1>2. chan' = [r \in Rank |-> IF r = 0 THEN chan[r] ELSE Append(chan[r], new)]
    BY DEF Broadcast, NewPacket
  <1>3. chan \in [Rank -> Seq(Packet)]
    BY DEF TypeOK
  <1> HIDE DEF new
  <1>4. ASSUME NEW r \in Rank
        PROVE  /\ chan'[r] \in Seq(Packet)
               /\ \A i \in DOMAIN chan'[r] :
                      \/ i \in DOMAIN chan[r] /\ chan'[r][i] = chan[r][i]
                      \/ chan'[r][i] = new
    <2>1. CASE r = 0
      BY <1>2, <1>3, <2>1
    <2>2. CASE r # 0
      <3>1. chan'[r] = Append(chan[r], new)
        BY <1>2, <2>2
      <3>2. chan[r] \in Seq(Packet)
        BY <1>3
      <3> QED
        BY <1>1, <3>1, <3>2
    <2> QED
      BY <2>1, <2>2
  <1>5. chan' \in [Rank -> Seq(Packet)]
    <2>1. DOMAIN chan' = Rank /\ chan' = [r \in Rank |-> chan'[r]]
      BY <1>2
    <2> QED
      BY <2>1, <1>4
  <1> QED
    BY <1>4, <1>5 DEF new

LEMMA ReceivedPackets ==
    ASSUME TypeOK, NEW r \in Rank, NEW op, Receive(r, op)
    PROVE  /\ Head(chan[r]) \in Packet /\ Head(chan[r]).op = op
           /\ 1 \in DOMAIN chan[r] /\ Head(chan[r]) = chan[r][1]
           /\ chan' \in [Rank -> Seq(Packet)]
           /\ \A s \in Rank : \A i \in DOMAIN chan'[s] :
                  \E j \in DOMAIN chan[s] : chan'[s][i] = chan[s][j]
  <1>1. chan[r] \in Seq(Packet) /\ chan[r] # <<>> /\ chan \in [Rank -> Seq(Packet)]
    BY DEF TypeOK, Receive
  <1>2. chan' = [chan EXCEPT ![r] = Tail(chan[r])]
    BY DEF Receive
  <1>3. Tail(chan[r]) \in Seq(Packet) /\ Head(chan[r]) \in Packet
        /\ Head(chan[r]) = chan[r][1] /\ 1 \in DOMAIN chan[r]
    BY <1>1
  <1>4. \A i \in DOMAIN Tail(chan[r]) :
            i + 1 \in DOMAIN chan[r] /\ Tail(chan[r])[i] = chan[r][i + 1]
    BY <1>1
  <1>5. chan' \in [Rank -> Seq(Packet)]
    BY <1>1, <1>2, <1>3
  <1>6. ASSUME NEW s \in Rank, NEW i \in DOMAIN chan'[s]
        PROVE  \E j \in DOMAIN chan[s] : chan'[s][i] = chan[s][j]
    <2>1. CASE s = r
      BY <1>1, <1>2, <1>4, <2>1
    <2>2. CASE s # r
      BY <1>1, <1>2, <2>2
    <2> QED
      BY <2>1, <2>2
  <1> QED
    BY <1>3, <1>5, <1>6 DEF Receive

-----------------------------------------------------------------------------
(* Types.  A maximum of what the ranks have exists because nobody has more   *)
(* than was trained.                                                         *)

KnowBound ==
    /\ \A r, s \in Rank, p \in Param : know[r][p][s] <= trained[s]
    /\ \A r, s \in Rank : \A i \in DOMAIN chan[r] : chan[r][i].weights[s] <= trained[s]

TypeInv == TypeOK /\ KnowBound

LEMMA AveragedIsGreatest ==
    ASSUME TypeInv, NEW p \in Param, NEW s \in Rank
    PROVE  /\ Averaged(p, s) \in Nat /\ Averaged(p, s) <= trained[s]
           /\ \A r \in Rank : know[r][p][s] <= Averaged(p, s)
  <1> DEFINE has(r) == know[r][p][s]
             S == {has(r) : r \in Rank}
             U == {n \in Nat : \A r \in Rank : has(r) <= n}
  <1>1. \A r \in Rank : has(r) \in Nat /\ has(r) <= trained[s]
    BY DEF TypeInv, TypeOK, KnowBound
  <1>2. trained[s] \in U
    BY <1>1 DEF TypeInv, TypeOK
  <1>3. PICK u \in U : \A n \in U : u <= n
    <2>1. U \in SUBSET Nat
      OBVIOUS
    <2> HIDE DEF U
    <2> QED
      BY <1>2, <2>1, LeastOfNaturals
  <1>4. u \in S
    <2>1. SUFFICES ASSUME u \notin S PROVE FALSE
      OBVIOUS
    <2>2. has(0) \in Nat /\ has(0) \in S
      BY <1>1, RankFacts
    <2>3. u \in Nat /\ \A r \in Rank : has(r) <= u /\ has(r) # u
      BY <2>1
    <2>4. u - 1 \in Nat /\ \A r \in Rank : has(r) <= u - 1
      BY <1>1, <2>2, <2>3, RankFacts
    <2>5. u - 1 \in U
      BY <2>4
    <2> QED
      BY <1>3, <2>3, <2>5
  <1>5. \E n \in S : \A r \in Rank : has(r) <= n
    BY <1>4
  <1>6. Averaged(p, s) \in S /\ \A r \in Rank : has(r) <= Averaged(p, s)
    BY <1>5 DEF Averaged
  <1> QED
    BY <1>1, <1>6

PcType == Waiting \cup DOMAIN Receiving \cup Running \cup Ended

LEMMA PcValues ==
    PcType = {"methodSet", "batchSet", "nbppSet", "reduce", "metrics", "bcast",
              "interval", "early", "method", "fit", "nbpp", "train", "avg", "done",
              "crashed"}
  BY DEF PcType, Waiting, Receiving, Running, Ended

LEMMA GotoType ==
    ASSUME pc \in [Rank -> PcType], NEW r \in Rank, NEW at \in PcType, Goto(r, at)
    PROVE  pc' \in [Rank -> PcType]
  BY DEF Goto

\* The loop variables when a rank goes on to the next call or epoch.
LoopType ==
    /\ pc \in [Rank -> PcType] /\ fit \in [Rank -> DOMAIN program.fits]
    /\ epoch \in [Rank -> Nat] /\ batch \in [Rank -> Nat] /\ param \in [Rank -> Param]

LEMMA AfterFitType ==
    ASSUME program \in Programs, program' = program, LoopType, NEW r \in Rank,
           AfterFit(r)
    PROVE  pc' \in [Rank -> PcType] /\ fit' \in [Rank -> DOMAIN program'.fits]
  <1>1. DOMAIN program.fits = 1 .. Len(program.fits) /\ Len(program.fits) \in Nat
    BY ProgramFacts
  <1>2. fit[r] \in DOMAIN program.fits
    BY DEF LoopType
  <1>3. CASE fit[r] = Len(program.fits)
    BY <1>3, GotoType, PcValues DEF AfterFit, LoopType
  <1>4. CASE fit[r] # Len(program.fits)
    <2>1. fit[r] + 1 \in DOMAIN program.fits
      BY <1>1, <1>2, <1>4
    <2>2. fit' = [fit EXCEPT ![r] = fit[r] + 1] /\ Goto(r, "fit")
      BY <1>4 DEF AfterFit
    <2> QED
      BY <2>1, <2>2, GotoType, PcValues DEF LoopType
  <1> QED
    BY <1>3, <1>4

LEMMA NextEpochType ==
    ASSUME program \in Programs, program' = program, LoopType, NEW r \in Rank,
           NextEpoch(r), param' = param
    PROVE  LoopType'
  <1>1. CASE epoch[r] + 1 < program.fits[fit[r]].epochs
    <2>1. pc' \in [Rank -> PcType]
      BY <1>1, GotoType, PcValues DEF NextEpoch, LoopType
    <2>2. /\ epoch' = [epoch EXCEPT ![r] = epoch[r] + 1]
          /\ batch' = [batch EXCEPT ![r] = 0] /\ fit' = fit
      BY <1>1 DEF NextEpoch
    <2> QED
      BY <2>1, <2>2 DEF LoopType
  <1>2. CASE ~ (epoch[r] + 1 < program.fits[fit[r]].epochs)
    <2>1. epoch' = epoch /\ batch' = batch
      BY <1>2 DEF NextEpoch
    <2>2. CASE program.early
      <3>1. Goto(r, "early") /\ fit' = fit
        BY <1>2, <2>2 DEF NextEpoch
      <3> QED
        BY <2>1, <3>1, GotoType, PcValues DEF LoopType
    <2>3. CASE ~ program.early
      <3>1. AfterFit(r)
        BY <1>2, <2>3 DEF NextEpoch
      <3> QED
        BY <2>1, <3>1, AfterFitType DEF LoopType
    <2> QED
      BY <2>2, <2>3
  <1> QED
    BY <1>1, <1>2

LEMMA NextParamType ==
    ASSUME LoopType, NEW r \in Rank, NEW after \in PcType, NextParam(r, after)
    PROVE  pc' \in [Rank -> PcType] /\ param' \in [Rank -> Param]
  <1>1. param[r] \in 1 .. P /\ P \in Nat /\ param \in [Rank -> 1 .. P]
    BY AveragingAssumption DEF LoopType, Param
  <1>2. CASE param[r] = P
    <2>1. Goto(r, after) /\ param' = [param EXCEPT ![r] = 1]
      BY <1>2 DEF NextParam
    <2> QED
      BY <1>1, <2>1, GotoType DEF LoopType, Param
  <1>3. CASE param[r] # P
    <2>1. pc' = pc /\ param' = [param EXCEPT ![r] = param[r] + 1]
      BY <1>3 DEF NextParam
    <2> QED
      BY <1>1, <1>3, <2>1 DEF LoopType, Param
  <1> QED
    BY <1>2, <1>3

\* The parts of the type invariant, which most actions leave alone.
RateType == program \in Programs /\ nbpp \in [Rank -> Nat] /\ batchesAvg \in [Rank -> Nat]
WeightType == /\ trained \in [Rank -> Nat]
              /\ know \in [Rank -> [Param -> [Rank -> Nat]]]
              /\ \A r, s \in Rank, p \in Param : know[r][p][s] <= trained[s]
ChanType == /\ chan \in [Rank -> Seq(Packet)]
            /\ \A r, s \in Rank : \A i \in DOMAIN chan[r] :
                   chan[r][i].weights[s] <= trained[s]

LEMMA TypeParts == TypeInv <=> RateType /\ LoopType /\ WeightType /\ ChanType
  BY DEF TypeInv, TypeOK, KnowBound, RateType, LoopType, WeightType, ChanType, PcType

LEMMA TypePartsNext == TypeInv' <=> RateType' /\ LoopType' /\ WeightType' /\ ChanType'
  BY DEF TypeInv, TypeOK, KnowBound, RateType, LoopType, WeightType, ChanType, PcType

LEMMA SameChan == ASSUME ChanType, chan' = chan, trained' = trained PROVE ChanType'
  BY DEF ChanType

LEMMA SameWeights ==
    ASSUME WeightType, UNCHANGED weightVars PROVE WeightType'
  BY DEF WeightType, weightVars

\* Nothing broadcast holds more than was trained.
LEMMA SentChan ==
    ASSUME TypeInv, NEW op \in {"weights", "interval", "stop"},
           NEW weights \in [Rank -> Nat], NEW number \in Nat,
           Broadcast(op, weights, number), trained' = trained,
           \A s \in Rank : weights[s] <= trained[s]
    PROVE  ChanType'
  <1>1. /\ chan' \in [Rank -> Seq(Packet)]
        /\ \A r \in Rank : \A i \in DOMAIN chan'[r] :
               \/ i \in DOMAIN chan[r] /\ chan'[r][i] = chan[r][i]
               \/ chan'[r][i] = NewPacket(op, weights, number)
    BY SentPackets DEF TypeInv
  <1>2. NewPacket(op, weights, number).weights = weights
    BY DEF NewPacket
  <1> QED
    BY <1>1, <1>2 DEF ChanType, TypeInv, KnowBound

LEMMA ReceivedChan ==
    ASSUME TypeInv, NEW r \in Rank, NEW op, Receive(r, op), trained' = trained
    PROVE  ChanType'
  <1>1. /\ chan' \in [Rank -> Seq(Packet)]
        /\ \A s \in Rank : \A i \in DOMAIN chan'[s] :
               \E j \in DOMAIN chan[s] : chan'[s][i] = chan[s][j]
    BY ReceivedPackets DEF TypeInv
  <1> QED
    BY <1>1 DEF ChanType, TypeInv, KnowBound

LEMMA InitTypeInv == Init => TypeInv
  <1> SUFFICES ASSUME Init PROVE TypeInv
    OBVIOUS
  <1>1. program \in Programs /\ 1 \in DOMAIN program.fits
    BY ProgramFacts DEF Init
  <1>2. RateType
    BY <1>1 DEF Init, RateType
  <1>3. LoopType
    BY <1>1, RankFacts, PcValues DEF Init, LoopType
  <1>4. WeightType
    BY DEF Init, WeightType
  <1>5. ChanType
    <2>1. <<>> \in Seq(Packet) /\ DOMAIN <<>> = {}
      OBVIOUS
    <2> QED
      BY <2>1 DEF Init, ChanType
  <1> QED
    BY <1>2, <1>3, <1>4, <1>5, TypeParts

\* Actions that only move ranks on.
LEMMA MovingTypeInv ==
    ASSUME TypeInv, pc' \in [Rank -> PcType],
           UNCHANGED <<program, loopVars, nbpp, batchesAvg, chan, weightVars>>
    PROVE  TypeInv'
  <1>1. RateType' /\ LoopType' /\ WeightType' /\ ChanType'
    BY TypeParts DEF RateType, LoopType, WeightType, ChanType, loopVars, weightVars
  <1> QED
    BY <1>1, TypePartsNext

LEMMA JointTypeInv == ASSUME TypeInv, Joint PROVE TypeInv'
  <1> USE TypeParts
  <1>1. CASE Barrier
    <2>1. PICK at \in DOMAIN AfterBarrier :
              /\ pc' = [r \in Rank |-> AfterBarrier[at]]
              /\ UNCHANGED <<program, loopVars, nbpp, batchesAvg, chan, weightVars>>
      BY <1>1 DEF Barrier
    <2>2. AfterBarrier[at] \in PcType
      BY PcValues DEF AfterBarrier
    <2> QED
      BY <2>1, <2>2, MovingTypeInv
  <1>2. CASE AvgMetrics
    BY <1>2, PcValues, MovingTypeInv DEF AvgMetrics
  <1>3. CASE Reduce
    <2>1. PICK p \in Param :
              /\ know' = [r \in Rank |-> [know[r] EXCEPT ![p] =
                                             [s \in Rank |-> Averaged(p, s)]]]
              /\ param' = [r \in Rank |-> IF p = P THEN 1 ELSE p + 1]
              /\ pc' = [r \in Rank |-> IF p = P THEN "train" ELSE "reduce"]
              /\ UNCHANGED <<program, fit, epoch, batch, nbpp, batchesAvg, chan, trained>>
      BY <1>3 DEF Reduce
    <2>2. RateType' /\ ChanType'
      BY <2>1 DEF RateType, ChanType
    <2>3. LoopType'
      <3>1. (IF p = P THEN 1 ELSE p + 1) \in Param
        BY AveragingAssumption DEF Param
      <3> QED
        BY <2>1, <3>1, PcValues DEF LoopType
    <2>4. WeightType'
      <3> DEFINE avg == [s \in Rank |-> Averaged(p, s)]
      <3>1. avg \in [Rank -> Nat] /\ \A s \in Rank : avg[s] <= trained[s]
        BY AveragedIsGreatest
      <3> HIDE DEF avg
      <3>2. know' = [r \in Rank |-> [know[r] EXCEPT ![p] = avg]] /\ trained' = trained
        BY <2>1 DEF avg
      <3> QED
        BY <3>1, <3>2 DEF WeightType
    <2> QED
      BY <2>2, <2>3, <2>4, TypePartsNext
  <1> QED
    BY <1>1, <1>2, <1>3 DEF Joint

LEMMA RootTypeInv == ASSUME TypeInv, RootStep PROVE TypeInv'
  <1> USE TypeParts
  <1>0. 0 \in Rank /\ program \in Programs
    BY RankFacts DEF RateType
  <1>1. CASE SendWeights
    <2>1. LoopType'
      BY <1>0, <1>1, NextParamType, PcValues DEF SendWeights, LoopType
    <2>2. know[0][param[0]] \in [Rank -> Nat] /\ param[0] \in Nat
          /\ \A s \in Rank : know[0][param[0]][s] <= trained[s]
      <3>1. param[0] \in Param /\ Param \subseteq Nat
        BY <1>0, AveragingAssumption DEF LoopType, Param
      <3> QED
        BY <1>0, <3>1 DEF WeightType
    <2>3. ChanType'
      BY <1>1, <2>2, SentChan DEF SendWeights, weightVars
    <2>4. RateType' /\ WeightType'
      BY <1>1, SameWeights DEF SendWeights, RateType
    <2> QED
      BY <2>1, <2>3, <2>4, TypePartsNext
  <1>2. CASE UpdateInterval
    <2>1. PICK ba \in NewIntervals(batchesAvg[0], epoch[0], nbpp[0]) :
              /\ batchesAvg' = [batchesAvg EXCEPT ![0] = ba]
              /\ Broadcast("interval", Nothing, ba)
      BY <1>2 DEF UpdateInterval
    <2>2. ba \in Nat
      BY <1>0, <1>2, IntervalBounds DEF UpdateInterval, RateType, LoopType
    <2>3. ChanType'
      <3>1. Nothing \in [Rank -> Nat] /\ \A s \in Rank : Nothing[s] <= trained[s]
        BY DEF Nothing, WeightType
      <3> QED
        BY <1>2, <2>1, <2>2, <3>1, SentChan DEF UpdateInterval, weightVars
    <2>4. LoopType'
      BY <1>0, <1>2, NextEpochType DEF UpdateInterval
    <2>5. RateType' /\ WeightType'
      BY <1>2, <2>1, <2>2, SameWeights DEF UpdateInterval, RateType
    <2> QED
      BY <2>3, <2>4, <2>5, TypePartsNext
  <1>3. CASE UpdateFails
    BY <1>0, <1>3, PcValues, GotoType, MovingTypeInv DEF UpdateFails, LoopType
  <1>4. CASE DecideStop
    <2>1. PICK stop \in {0, 1} : Broadcast("stop", Nothing, stop) /\ Stopping(0, stop)
      BY <1>4 DEF DecideStop
    <2>2. ChanType'
      <3>1. Nothing \in [Rank -> Nat] /\ \A s \in Rank : Nothing[s] <= trained[s]
        BY DEF Nothing, WeightType
      <3> QED
        BY <1>4, <2>1, <3>1, SentChan DEF DecideStop, weightVars
    <2>3. pc' \in [Rank -> PcType] /\ fit' \in [Rank -> DOMAIN program'.fits]
      BY <1>0, <1>4, <2>1, AfterFitType, GotoType, PcValues DEF DecideStop, Stopping, LoopType
    <2>4. RateType' /\ WeightType' /\ LoopType'
      BY <1>4, <2>3, SameWeights DEF DecideStop, RateType, LoopType
    <2> QED
      BY <2>2, <2>4, TypePartsNext
  <1> QED
    BY <1>1, <1>2, <1>3, <1>4 DEF RootStep

LEMMA RankTypeInv == ASSUME TypeInv, NEW r \in Rank, RankStep(r) PROVE TypeInv'
  <1> USE TypeParts
  <1>0. program \in Programs
    BY DEF RateType
  <1>1. CASE SetAvgMethod(r)
    <2>1. program.avg \in Nat
      BY <1>0, ProgramFacts
    <2>2. RateType' /\ WeightType' /\ ChanType'
      BY <1>1, <2>1, SameWeights, SameChan DEF SetAvgMethod, RateType, weightVars
    <2>3. LoopType'
      BY <1>1, GotoType, PcValues DEF SetAvgMethod, LoopType, loopVars
    <2> QED
      BY <2>2, <2>3, TypePartsNext
  <1>2. CASE SetBatch(r)
    BY <1>2, PcValues, GotoType, MovingTypeInv DEF SetBatch, LoopType
  <1>3. CASE SetNBPP(r)
    <2>1. pc' \in [Rank -> PcType] /\ nbpp' \in [Rank -> Nat]
      <3> DEFINE f == program.fits[fit[r]]
      <3>1. f \in Fit
        BY <1>0, ProgramFacts DEF LoopType
      <3> HIDE DEF f
      <3>2. CASE LocalBatch(f) = 0
        BY <1>3, <3>2, GotoType, PcValues DEF SetNBPP, LoopType, RateType, f
      <3>3. CASE LocalBatch(f) # 0
        <4>1. nbpp' = [nbpp EXCEPT ![r] = BatchesPerProc(f)] /\ Goto(r, "nbppSet")
          BY <1>3, <3>3 DEF SetNBPP, f
        <4> QED
          BY <3>1, <3>3, <4>1, BatchTypes, GotoType, PcValues DEF LoopType, RateType
      <3> QED
        BY <3>2, <3>3
    <2>2. RateType' /\ WeightType' /\ ChanType'
      BY <1>3, <2>1, SameWeights, SameChan DEF SetNBPP, RateType, weightVars
    <2>3. LoopType'
      BY <1>3, <2>1, RankFacts DEF SetNBPP, LoopType
    <2> QED
      BY <2>2, <2>3, TypePartsNext
  <1>4. CASE ReceiveWeights(r)
    <2>1. LoopType'
      BY <1>4, NextParamType, PcValues DEF ReceiveWeights, LoopType
    <2>2. RateType' /\ ChanType'
      BY <1>4, ReceivedChan DEF ReceiveWeights, RateType
    <2>3. WeightType'
      <3> DEFINE got == Head(chan[r]).weights
      <3>1. got \in [Rank -> Nat] /\ \A s \in Rank : got[s] <= trained[s]
        BY <1>4, ReceivedPackets DEF ReceiveWeights, TypeInv, Packet, ChanType
      <3> HIDE DEF got
      <3>2. know' = [know EXCEPT ![r][param[r]] = got] /\ trained' = trained
            /\ param[r] \in Param
        BY <1>4 DEF ReceiveWeights, got, LoopType
      <3>3. know' = [know EXCEPT ![r] = [know[r] EXCEPT ![param[r]] = got]]
        BY <3>2
      <3> QED
        BY <3>1, <3>2, <3>3 DEF WeightType
    <2> QED
      BY <2>1, <2>2, <2>3, TypePartsNext
  <1>5. CASE ReceiveInterval(r)
    <2>1. Head(chan[r]).number \in Nat
      BY <1>5, ReceivedPackets DEF ReceiveInterval, TypeInv, Packet
    <2>2. RateType' /\ WeightType' /\ ChanType'
      BY <1>5, <2>1, SameWeights, ReceivedChan DEF ReceiveInterval, RateType, weightVars
    <2>3. LoopType'
      BY <1>0, <1>5, NextEpochType DEF ReceiveInterval
    <2> QED
      BY <2>2, <2>3, TypePartsNext
  <1>6. CASE ReceiveStop(r)
    <2>1. RateType' /\ WeightType' /\ ChanType'
      BY <1>6, SameWeights, ReceivedChan DEF ReceiveStop, RateType, weightVars
    <2>2. pc' \in [Rank -> PcType] /\ fit' \in [Rank -> DOMAIN program'.fits]
      BY <1>0, <1>6, AfterFitType, GotoType, PcValues DEF ReceiveStop, Stopping, LoopType
    <2>3. LoopType'
      BY <1>6, <2>2 DEF ReceiveStop, LoopType
    <2> QED
      BY <2>1, <2>3, TypePartsNext
  <1>7. CASE TrainBatch(r)
    <2>1. RateType' /\ LoopType'
      BY <1>7, GotoType, PcValues DEF TrainBatch, RateType, LoopType
    <2>2. /\ trained' = [trained EXCEPT ![r] = trained[r] + 1]
          /\ know' = [know EXCEPT ![r] = [p \in Param |->
                         [know[r][p] EXCEPT ![r] = trained[r] + 1]]]
          /\ chan' = chan
      BY <1>7 DEF TrainBatch
    <2>3. \A s \in Rank : trained'[s] \in Nat /\ trained[s] \in Nat
                          /\ trained[s] <= trained'[s]
      BY <2>2 DEF WeightType
    <2>4. ChanType'
      <3> SUFFICES ASSUME NEW q \in Rank, NEW s \in Rank, NEW i \in DOMAIN chan[q]
                   PROVE  chan[q][i].weights[s] <= trained'[s]
        BY <2>2 DEF ChanType
      <3>1. chan[q][i] \in Packet
        BY DEF ChanType
      <3>2. chan[q][i].weights[s] \in Nat /\ chan[q][i].weights[s] <= trained[s]
        BY <3>1 DEF ChanType, Packet
      <3> QED
        BY <2>3, <3>2
    <2>5. WeightType'
      <3>1. \A p \in Param : [know[r][p] EXCEPT ![r] = trained[r] + 1] \in [Rank -> Nat]
        BY DEF WeightType
      <3>2. know' \in [Rank -> [Param -> [Rank -> Nat]]] /\ trained' \in [Rank -> Nat]
        BY <2>2, <3>1 DEF WeightType
      <3>3. ASSUME NEW q \in Rank, NEW s \in Rank, NEW p \in Param
            PROVE  know'[q][p][s] <= trained'[s]
        <4>1. know[q][p][s] \in Nat /\ know[q][p][s] <= trained[s]
          BY DEF WeightType
        <4>2. CASE q = r /\ s = r
          BY <2>2, <4>2 DEF WeightType
        <4>3. CASE ~ (q = r /\ s = r)
          <5>1. know'[q][p][s] = know[q][p][s]
            BY <2>2, <4>3 DEF WeightType
          <5> QED
            BY <2>3, <4>1, <5>1
        <4> QED
          BY <4>2, <4>3
      <3> QED
        BY <3>2, <3>3 DEF WeightType
    <2> QED
      BY <2>1, <2>4, <2>5, TypePartsNext
  <1>8. CASE AvgWeights(r)
    <2>1. PICK at \in {"crashed", "reduce", "train"} : Goto(r, at)
      BY <1>8 DEF AvgWeights
    <2> QED
      BY <1>8, <2>1, PcValues, GotoType, MovingTypeInv DEF AvgWeights, LoopType
  <1>9. CASE EndEpoch(r)
    BY <1>9, PcValues, GotoType, MovingTypeInv DEF EndEpoch, LoopType
  <1> QED
    BY <1>1, <1>2, <1>3, <1>4, <1>5, <1>6, <1>7, <1>8, <1>9 DEF RankStep

LEMMA NextTypeInv == TypeInv /\ [Next]_vars => TypeInv'
  <1> SUFFICES ASSUME TypeInv, [Next]_vars PROVE TypeInv'
    OBVIOUS
  <1>1. CASE UNCHANGED vars
    BY <1>1, MovingTypeInv, TypeParts DEF vars, LoopType
  <1> QED
    BY <1>1, JointTypeInv, RootTypeInv, RankTypeInv DEF Next

LEMMA SpecTypeInv == Spec => []TypeInv
  BY InitTypeInv, NextTypeInv, PTL DEF Spec

\* Every variable keeps its type, however many ranks and parameters there are;
\* in particular an average exists whenever one is taken.
THEOREM TypeCorrect == Spec => []TypeOK
  <1>1. TypeInv => TypeOK
    BY DEF TypeInv
  <1> QED
    BY <1>1, SpecTypeInv, PTL

\* No weight, and nothing that is being broadcast, holds more batches of a rank
\* than that rank has trained.
THEOREM NothingIsMadeUp == Spec => []KnowBound
  <1>1. TypeInv => KnowBound
    BY DEF TypeInv
  <1> QED
    BY <1>1, SpecTypeInv, PTL

-----------------------------------------------------------------------------
(* Divisions by zero.                                                        *)

\* Where rank 0 has counted the batches of its call of fit().
Counted == {"nbppSet", "bcast", "train", "avg", "reduce", "metrics", "interval"}

RootCounts ==
    pc[0] \in Counted =>
        /\ LocalBatch(program.fits[fit[0]]) # 0
        /\ nbpp[0] = BatchesPerProc(program.fits[fit[0]])

\* Where an interval of 0 may come from: the program, or an empty fit().
ZeroSource == program.avg = 0 \/ \E k \in 1 .. fit[0] : IsEmpty(program.fits[k])

\* An interval of 0, at a rank or on its way to one, has such a source.
ZeroHasCause ==
    \A r \in Rank :
        /\ batchesAvg[r] = 0 => pc[r] = "method" \/ ZeroSource
        /\ \A i \in DOMAIN chan[r] :
               chan[r][i].op = "interval" /\ chan[r][i].number = 0 => ZeroSource

CauseInv == TypeInv /\ RootCounts /\ ZeroHasCause /\ CrashHasCause

LEMMA FitIsNat ==
    ASSUME TypeInv, NEW r \in Rank
    PROVE  fit[r] \in Nat /\ fit[0] \in Nat /\ fit[r] >= 1 /\ fit[0] >= 1
  <1>1. program \in Programs /\ fit \in [Rank -> DOMAIN program.fits] /\ 0 \in Rank
    BY TypeParts, RankFacts DEF RateType, LoopType
  <1>2. DOMAIN program.fits = 1 .. Len(program.fits) /\ Len(program.fits) \in Nat
    BY <1>1, ProgramFacts
  <1>3. fit[r] \in 1 .. Len(program.fits) /\ fit[0] \in 1 .. Len(program.fits)
    BY <1>1, <1>2
  <1> QED
    BY <1>2, <1>3

\* What a step has to keep for each of the parts.
LEMMA ZeroSourceStays ==
    ASSUME TypeInv, program' = program, fit'[0] \in Nat, fit[0] <= fit'[0], ZeroSource
    PROVE  ZeroSource'
  <1>1. CASE program.avg = 0
    BY <1>1 DEF ZeroSource
  <1>2. CASE \E k \in 1 .. fit[0] : IsEmpty(program.fits[k])
    <2>1. PICK k \in 1 .. fit[0] : IsEmpty(program.fits[k])
      BY <1>2
    <2>2. k \in 1 .. fit'[0] /\ IsEmpty(program'.fits[k])
      BY <2>1, RankFacts, FitIsNat
    <2>3. IsEmpty(program.fits[k])'
      BY <2>2 DEF IsEmpty
    <2> QED
      BY <2>2, <2>3 DEF ZeroSource
  <1> QED
    BY <1>1, <1>2 DEF ZeroSource

LEMMA ZeroStep ==
    ASSUME TypeInv, ZeroHasCause, program' = program,
           fit'[0] \in Nat, fit[0] <= fit'[0],
           \A s \in Rank : batchesAvg'[s] = 0 =>
               \/ batchesAvg[s] = 0 /\ (pc[s] = "method" => pc'[s] = "method")
               \/ ZeroSource,
           \A s \in Rank : \A i \in DOMAIN chan'[s] :
               chan'[s][i].op = "interval" /\ chan'[s][i].number = 0 =>
                   ZeroSource \/ \E j \in DOMAIN chan[s] : chan'[s][i] = chan[s][j]
    PROVE  ZeroHasCause'
  <1>1. ZeroSource => ZeroSource'
    BY ZeroSourceStays
  <1> SUFFICES ASSUME NEW s \in Rank
               PROVE  /\ batchesAvg'[s] = 0 => pc'[s] = "method" \/ ZeroSource'
                      /\ \A i \in DOMAIN chan'[s] :
                             chan'[s][i].op = "interval" /\ chan'[s][i].number = 0
                                 => ZeroSource'
    BY DEF ZeroHasCause
  <1>2. ASSUME batchesAvg'[s] = 0 PROVE pc'[s] = "method" \/ ZeroSource'
    BY <1>1, <1>2 DEF ZeroHasCause
  <1>3. ASSUME NEW i \in DOMAIN chan'[s],
               chan'[s][i].op = "interval", chan'[s][i].number = 0
        PROVE  ZeroSource'
    BY <1>1, <1>3 DEF ZeroHasCause
  <1> QED
    BY <1>2, <1>3

LEMMA CrashStep ==
    ASSUME TypeInv, CrashHasCause, program' = program,
           fit'[0] \in Nat, fit[0] <= fit'[0],
           \A s \in Rank : pc'[s] = "crashed" =>
               \/ pc[s] = "crashed" /\ fit'[s] = fit[s]
               \/ LocalBatch(program.fits[fit'[s]]) = 0
               \/ program.method \in Periodic /\ program.every = 0
               \/ ZeroSource
    PROVE  CrashHasCause'
  <1>1. ZeroSource => ZeroSource'
    BY ZeroSourceStays
  <1> SUFFICES ASSUME NEW s \in Rank, pc'[s] = "crashed"
               PROVE  \/ LocalBatch(program.fits[fit'[s]]) = 0
                      \/ program.method \in Periodic /\ program.every = 0
                      \/ ZeroSource'
    BY DEF CrashHasCause, ZeroSource, IsEmpty, LocalBatch, BatchesPerProc
  <1>2. CASE pc[s] = "crashed" /\ fit'[s] = fit[s]
    <2>1. \/ LocalBatch(program.fits[fit[s]]) = 0
          \/ program.method \in Periodic /\ program.every = 0
          \/ ZeroSource
      BY <1>2 DEF CrashHasCause, ZeroSource
    <2> QED
      BY <1>1, <1>2, <2>1
  <1> QED
    BY <1>1, <1>2

LEMMA CountStep ==
    ASSUME RootCounts, program' = program,
           pc'[0] \in Counted => pc[0] \in Counted /\ fit'[0] = fit[0] /\ nbpp'[0] = nbpp[0]
    PROVE  RootCounts'
  BY DEF RootCounts, LocalBatch, BatchesPerProc

\* A rank that goes on, and does not start, count its batches or crash.
LEMMA MoveCauses ==
    ASSUME CauseInv, NEW r \in Rank, NEW at \in PcType \ {"crashed"},
           pc' = [pc EXCEPT ![r] = at], pc[r] # "method",
           r = 0 /\ at \in Counted => pc[0] \in Counted,
           UNCHANGED <<program, fit, nbpp, batchesAvg>>,
           \A s \in Rank : \A i \in DOMAIN chan'[s] :
               chan'[s][i].op = "interval" =>
                   \E j \in DOMAIN chan[s] : chan'[s][i] = chan[s][j]
    PROVE  RootCounts' /\ ZeroHasCause' /\ CrashHasCause'
  <1>1. pc \in [Rank -> PcType] /\ 0 \in Rank /\ fit[0] \in Nat
    BY TypeParts, RankFacts, FitIsNat DEF CauseInv, LoopType
  <1>2. RootCounts'
    BY <1>1, CountStep DEF CauseInv
  <1>3. ZeroHasCause'
    BY <1>1, ZeroStep DEF CauseInv
  <1>4. CrashHasCause'
    <2>1. \A s \in Rank : pc'[s] = "crashed" => pc[s] = "crashed" /\ fit'[s] = fit[s]
      BY <1>1
    <2> QED
      BY <1>1, <2>1, CrashStep DEF CauseInv
  <1> QED
    BY <1>2, <1>3, <1>4

LEMMA AfterFitEffect ==
    ASSUME TypeInv, program' = program, NEW r \in Rank, AfterFit(r)
    PROVE  /\ pc' = [pc EXCEPT ![r] = pc'[r]] /\ pc'[r] \in {"done", "fit"}
           /\ fit[0] <= fit'[0] /\ fit'[0] \in Nat
           /\ \A s \in Rank : s # r => fit'[s] = fit[s]
  <1>1. pc \in [Rank -> PcType] /\ fit \in [Rank -> DOMAIN program.fits]
        /\ fit[r] \in Nat /\ fit[0] \in Nat /\ 0 \in Rank
    BY TypeParts, FitIsNat, RankFacts DEF LoopType
  <1>2. CASE fit[r] = Len(program.fits)
    BY <1>1, <1>2 DEF AfterFit, Goto
  <1>3. CASE fit[r] # Len(program.fits)
    BY <1>1, <1>3 DEF AfterFit, Goto
  <1> QED
    BY <1>2, <1>3

LEMMA NextEpochEffect ==
    ASSUME TypeInv, program' = program, NEW r \in Rank, NextEpoch(r)
    PROVE  /\ pc' = [pc EXCEPT ![r] = pc'[r]] /\ pc'[r] \in {"train", "early", "done", "fit"}
           /\ pc'[r] = "train" => fit' = fit
           /\ fit[0] <= fit'[0] /\ fit'[0] \in Nat
           /\ \A s \in Rank : s # r => fit'[s] = fit[s]
  <1>1. pc \in [Rank -> PcType] /\ fit \in [Rank -> DOMAIN program.fits]
        /\ fit[r] \in Nat /\ fit[0] \in Nat /\ 0 \in Rank
    BY TypeParts, FitIsNat, RankFacts DEF LoopType
  <1>2. CASE epoch[r] + 1 < program.fits[fit[r]].epochs
    BY <1>1, <1>2 DEF NextEpoch, Goto
  <1>3. CASE ~ (epoch[r] + 1 < program.fits[fit[r]].epochs) /\ program.early
    BY <1>1, <1>3 DEF NextEpoch, Goto
  <1>4. CASE ~ (epoch[r] + 1 < program.fits[fit[r]].epochs) /\ ~ program.early
    BY <1>1, <1>4, AfterFitEffect DEF NextEpoch
  <1> QED
    BY <1>2, <1>3, <1>4

LEMMA InitCauseInv == Init => CauseInv
  <1> SUFFICES ASSUME Init PROVE CauseInv
    OBVIOUS
  <1>1. \A r \in Rank : pc[r] = "method" /\ chan[r] = <<>>
    BY DEF Init
  <1>2. RootCounts
    BY <1>1, RankFacts DEF RootCounts, Counted
  <1>3. ZeroHasCause
    <2>1. DOMAIN <<>> = {}
      OBVIOUS
    <2> QED
      BY <1>1, <2>1 DEF ZeroHasCause
  <1>4. CrashHasCause
    BY <1>1 DEF CrashHasCause
  <1> QED
    BY <1>2, <1>3, <1>4, InitTypeInv DEF CauseInv

\* A collective of all ranks: nobody crashes, and what rank 0 counted is kept.
LEMMA JointCauses == ASSUME CauseInv, Joint PROVE RootCounts' /\ ZeroHasCause' /\ CrashHasCause'
  <1>0. TypeInv /\ 0 \in Rank /\ fit[0] \in Nat
    BY RankFacts, FitIsNat DEF CauseInv
  <1>1. /\ UNCHANGED <<program, fit, nbpp, batchesAvg, chan>>
        /\ \A s \in Rank : pc[s] # "method" /\ pc'[s] # "crashed"
        /\ pc'[0] \in Counted => pc[0] \in Counted
    <2>1. CASE Barrier
      <3>1. PICK at \in DOMAIN AfterBarrier :
                /\ Everybody(at) /\ pc' = [r \in Rank |-> AfterBarrier[at]]
                /\ UNCHANGED <<program, loopVars, nbpp, batchesAvg, chan, weightVars>>
        BY <2>1 DEF Barrier
      <3>2. at \in {"methodSet", "batchSet", "nbppSet"}
        BY DEF AfterBarrier
      <3>3. AfterBarrier[at] \in {"fit", "nbpp", "bcast"}
            /\ (AfterBarrier[at] = "bcast" => at = "nbppSet")
        BY <3>2 DEF AfterBarrier
      <3>4. \A s \in Rank : pc[s] = at /\ pc'[s] = AfterBarrier[at]
        BY <3>1 DEF Everybody
      <3> QED
        BY <1>0, <3>1, <3>2, <3>3, <3>4 DEF Counted, loopVars
    <2>2. CASE AvgMetrics
      BY <1>0, <2>2 DEF AvgMetrics, Everybody, Counted, loopVars
    <2>3. CASE Reduce
      BY <1>0, <2>3 DEF Reduce, Everybody, Counted
    <2> QED
      BY <2>1, <2>2, <2>3 DEF Joint
  <1>2. RootCounts'
    BY <1>1, CountStep DEF CauseInv
  <1>3. ZeroHasCause'
    BY <1>0, <1>1, ZeroStep DEF CauseInv
  <1>4. CrashHasCause'
    BY <1>0, <1>1, CrashStep DEF CauseInv
  <1> QED
    BY <1>2, <1>3, <1>4

LEMMA RootCauses == ASSUME CauseInv, RootStep PROVE RootCounts' /\ ZeroHasCause' /\ CrashHasCause'
  <1>0. /\ TypeInv /\ TypeOK /\ 0 \in Rank /\ fit[0] \in Nat /\ program \in Programs
        /\ pc \in [Rank -> PcType] /\ Nothing \in [Rank -> Nat]
    BY RankFacts, FitIsNat, TypeParts DEF CauseInv, TypeInv, RateType, LoopType, Nothing
  <1>1. CASE SendWeights
    <2>1. PICK at \in {"bcast", "train"} : pc' = [pc EXCEPT ![0] = at]
      <3>1. CASE param[0] = P
        BY <1>1, <3>1 DEF SendWeights, NextParam, Goto
      <3>2. CASE param[0] # P
        BY <1>0, <1>1, <3>2 DEF SendWeights, NextParam
      <3> QED
        BY <3>1, <3>2
    <2>2. know[0][param[0]] \in [Rank -> Nat] /\ param[0] \in Nat
      <3>1. param[0] \in Param /\ Param \subseteq Nat
        BY <1>0, AveragingAssumption DEF TypeOK, Param
      <3>2. know \in [Rank -> [Param -> [Rank -> Nat]]]
        BY <1>0 DEF TypeOK
      <3> QED
        BY <1>0, <3>1, <3>2
    <2>3. \A s \in Rank : \A i \in DOMAIN chan'[s] :
              chan'[s][i].op = "interval" =>
                  \E j \in DOMAIN chan[s] : chan'[s][i] = chan[s][j]
      <3> DEFINE new == NewPacket("weights", know[0][param[0]], param[0])
      <3>1. \A r \in Rank : \A i \in DOMAIN chan'[r] :
                \/ i \in DOMAIN chan[r] /\ chan'[r][i] = chan[r][i]
                \/ chan'[r][i] = new
        BY <1>0, <1>1, <2>2, SentPackets DEF SendWeights
      <3>2. new.op = "weights"
        BY DEF NewPacket
      <3> QED
        BY <3>1, <3>2
    <2> QED
      BY <1>0, <1>1, <2>1, <2>3, MoveCauses, PcValues DEF SendWeights, Counted
  <1>2. CASE UpdateInterval
    <2>1. PICK ba \in NewIntervals(batchesAvg[0], epoch[0], nbpp[0]) :
              /\ batchesAvg' = [batchesAvg EXCEPT ![0] = ba]
              /\ Broadcast("interval", Nothing, ba)
      BY <1>2 DEF UpdateInterval
    <2>2. ba \in Nat /\ (ba = 0 => batchesAvg[0] = 0 \/ nbpp[0] = 0 \/ program.avg = 0)
      BY <1>0, <1>2, IntervalBounds DEF UpdateInterval, TypeOK
    <2>3. ASSUME ba = 0 PROVE ZeroSource
      <3>1. CASE batchesAvg[0] = 0
        BY <1>0, <1>2, <3>1 DEF UpdateInterval, CauseInv, ZeroHasCause
      <3>2. CASE nbpp[0] = 0
        <4>1. IsEmpty(program.fits[fit[0]])
          BY <1>2, <3>2 DEF UpdateInterval, CauseInv, RootCounts, Counted, IsEmpty
        <4> QED
          BY <1>0, <4>1, FitIsNat DEF ZeroSource
      <3>3. CASE program.avg = 0
        BY <3>3 DEF ZeroSource
      <3> QED
        BY <2>2, <2>3, <3>1, <3>2, <3>3
    <2>4. /\ program' = program /\ nbpp' = nbpp /\ pc[0] = "interval"
          /\ pc' = [pc EXCEPT ![0] = pc'[0]]
          /\ pc'[0] \in {"train", "early", "done", "fit"}
          /\ pc'[0] = "train" => fit' = fit
          /\ fit[0] <= fit'[0] /\ fit'[0] \in Nat
          /\ \A s \in Rank : s # 0 => fit'[s] = fit[s]
      BY <1>0, <1>2, NextEpochEffect DEF UpdateInterval
    <2>5. RootCounts'
      BY <2>4, CountStep DEF CauseInv, Counted
    <2>6. ZeroHasCause'
      <3>1. \A s \in Rank : batchesAvg'[s] = 0 =>
                \/ batchesAvg[s] = 0 /\ (pc[s] = "method" => pc'[s] = "method")
                \/ ZeroSource
        BY <1>0, <2>1, <2>3, <2>4 DEF TypeOK
      <3>2. \A s \in Rank : \A i \in DOMAIN chan'[s] :
                chan'[s][i].op = "interval" /\ chan'[s][i].number = 0 =>
                    ZeroSource \/ \E j \in DOMAIN chan[s] : chan'[s][i] = chan[s][j]
        <4>1. \A r \in Rank : \A i \in DOMAIN chan'[r] :
                  \/ i \in DOMAIN chan[r] /\ chan'[r][i] = chan[r][i]
                  \/ chan'[r][i] = NewPacket("interval", Nothing, ba)
          BY <1>0, <2>1, <2>2, SentPackets
        <4>2. NewPacket("interval", Nothing, ba).number = ba
          BY DEF NewPacket
        <4> QED
          BY <2>3, <4>1, <4>2
      <3> QED
        BY <1>0, <2>4, <3>1, <3>2, ZeroStep DEF CauseInv
    <2>7. CrashHasCause'
      <3>1. \A s \in Rank : pc'[s] = "crashed" => pc[s] = "crashed" /\ fit'[s] = fit[s]
        BY <1>0, <2>4
      <3> QED
        BY <1>0, <2>4, <3>1, CrashStep DEF CauseInv
    <2> QED
      BY <2>5, <2>6, <2>7
  <1>3. CASE UpdateFails
    <2>1. /\ pc' = [pc EXCEPT ![0] = "crashed"] /\ pc[0] = "interval"
          /\ program.method \in Periodic /\ program.every = 0
          /\ UNCHANGED <<program, fit, nbpp, batchesAvg, chan>>
      BY <1>3 DEF UpdateFails, Goto, loopVars
    <2>2. RootCounts'
      BY <1>0, <2>1, CountStep DEF CauseInv, Counted
    <2>3. ZeroHasCause'
      BY <1>0, <2>1, ZeroStep DEF CauseInv
    <2>4. CrashHasCause'
      BY <1>0, <2>1, CrashStep DEF CauseInv
    <2> QED
      BY <2>2, <2>3, <2>4
  <1>4. CASE DecideStop
    <2>1. PICK stop \in {0, 1} : Broadcast("stop", Nothing, stop) /\ Stopping(0, stop)
      BY <1>4 DEF DecideStop
    <2>2. /\ UNCHANGED <<program, nbpp, batchesAvg>> /\ pc[0] = "early"
          /\ pc' = [pc EXCEPT ![0] = pc'[0]] /\ pc'[0] \in {"done", "fit"}
          /\ fit[0] <= fit'[0] /\ fit'[0] \in Nat
          /\ \A s \in Rank : s # 0 => fit'[s] = fit[s]
      <3>1. program' = program /\ UNCHANGED <<nbpp, batchesAvg>> /\ pc[0] = "early"
        BY <1>4 DEF DecideStop
      <3>2. CASE stop = 1
        BY <1>0, <2>1, <3>1, <3>2 DEF Stopping, Goto
      <3>3. CASE stop # 1
        <4>1. AfterFit(0)
          BY <2>1, <3>3 DEF Stopping
        <4> QED
          BY <1>0, <3>1, <4>1, AfterFitEffect
      <3> QED
        BY <3>2, <3>3
    <2>3. RootCounts'
      BY <2>2, CountStep DEF CauseInv, Counted
    <2>4. ZeroHasCause'
      <3>1. \A r \in Rank : \A i \in DOMAIN chan'[r] :
                chan'[r][i].op = "interval" =>
                    \E j \in DOMAIN chan[r] : chan'[r][i] = chan[r][j]
        <4> DEFINE new == NewPacket("stop", Nothing, stop)
        <4>1. \A r \in Rank : \A i \in DOMAIN chan'[r] :
                  \/ i \in DOMAIN chan[r] /\ chan'[r][i] = chan[r][i]
                  \/ chan'[r][i] = new
          BY <1>0, <2>1, SentPackets
        <4>2. new.op = "stop"
          BY DEF NewPacket
        <4> QED
          BY <4>1, <4>2
      <3>2. \A s \in Rank : pc[s] = "method" => pc'[s] = "method"
        BY <1>0, <2>2
      <3> QED
        BY <1>0, <2>2, <3>1, <3>2, ZeroStep DEF CauseInv
    <2>5. CrashHasCause'
      <3>1. \A s \in Rank : pc'[s] = "crashed" => pc[s] = "crashed" /\ fit'[s] = fit[s]
        BY <1>0, <2>2
      <3> QED
        BY <1>0, <2>2, <3>1, CrashStep DEF CauseInv
    <2> QED
      BY <2>3, <2>4, <2>5
  <1> QED
    BY <1>1, <1>2, <1>3, <1>4 DEF RootStep

LEMMA RankCauses ==
    ASSUME CauseInv, NEW r \in Rank, RankStep(r)
    PROVE  RootCounts' /\ ZeroHasCause' /\ CrashHasCause'
  <1>0. /\ TypeInv /\ TypeOK /\ 0 \in Rank /\ fit[0] \in Nat /\ program \in Programs
        /\ pc \in [Rank -> PcType]
    BY RankFacts, FitIsNat, TypeParts DEF CauseInv, TypeInv, RateType, LoopType
  <1>1. CASE SetAvgMethod(r)
    <2>1. /\ batchesAvg' = [batchesAvg EXCEPT ![r] = program.avg] /\ program.avg \in Nat
          /\ pc' = [pc EXCEPT ![r] = "methodSet"]
          /\ UNCHANGED <<program, fit, nbpp, chan>>
      BY <1>0, <1>1, ProgramFacts DEF SetAvgMethod, Goto, loopVars
    <2>2. RootCounts'
      BY <1>0, <2>1, CountStep DEF CauseInv, Counted
    <2>3. ZeroHasCause'
      <3>1. \A s \in Rank : batchesAvg'[s] = 0 =>
                \/ batchesAvg[s] = 0 /\ (pc[s] = "method" => pc'[s] = "method")
                \/ ZeroSource
        BY <1>0, <2>1 DEF TypeOK, ZeroSource
      <3> QED
        BY <1>0, <2>1, <3>1, ZeroStep DEF CauseInv
    <2>4. CrashHasCause'
      <3>1. \A s \in Rank : pc'[s] = "crashed" => pc[s] = "crashed" /\ fit'[s] = fit[s]
        BY <1>0, <2>1
      <3> QED
        BY <1>0, <2>1, <3>1, CrashStep DEF CauseInv
    <2> QED
      BY <2>2, <2>3, <2>4
  <1>2. CASE SetBatch(r)
    BY <1>0, <1>2, MoveCauses, PcValues DEF SetBatch, Goto, Counted, loopVars
  <1>3. CASE SetNBPP(r)
    <2> DEFINE f == program.fits[fit[r]]
    <2>1. UNCHANGED <<program, fit, batchesAvg, chan>> /\ pc[r] = "nbpp"
      BY <1>3 DEF SetNBPP
    <2>2. CASE LocalBatch(f) = 0
      <3>1. pc' = [pc EXCEPT ![r] = "crashed"] /\ nbpp' = nbpp
        BY <1>3, <2>2 DEF SetNBPP, Goto
      <3>2. RootCounts'
        BY <1>0, <2>1, <3>1, CountStep DEF CauseInv, Counted
      <3>3. ZeroHasCause'
        BY <1>0, <2>1, <3>1, ZeroStep DEF CauseInv
      <3>4. CrashHasCause'
        BY <1>0, <2>1, <2>2, <3>1, CrashStep DEF CauseInv
      <3> QED
        BY <3>2, <3>3, <3>4
    <2>3. CASE LocalBatch(f) # 0
      <3>1. /\ pc' = [pc EXCEPT ![r] = "nbppSet"]
            /\ nbpp' = [nbpp EXCEPT ![r] = BatchesPerProc(f)]
        BY <1>3, <2>3 DEF SetNBPP, Goto
      <3>2. RootCounts'
        <4>1. CASE r = 0
          BY <1>0, <2>1, <2>3, <3>1, <4>1
          DEF RootCounts, TypeOK, LocalBatch, BatchesPerProc
        <4>2. CASE r # 0
          BY <1>0, <2>1, <3>1, <4>2, CountStep DEF CauseInv, TypeOK
        <4> QED
          BY <4>1, <4>2
      <3>3. ZeroHasCause'
        <4>1. \A s \in Rank : pc[s] = "method" => pc'[s] = "method"
          BY <1>0, <2>1, <3>1
        <4> QED
          BY <1>0, <2>1, <4>1, ZeroStep DEF CauseInv
      <3>4. CrashHasCause'
        <4>1. \A s \in Rank : pc'[s] = "crashed" => pc[s] = "crashed" /\ fit'[s] = fit[s]
          BY <1>0, <2>1, <3>1
        <4> QED
          BY <1>0, <2>1, <4>1, CrashStep DEF CauseInv
      <3> QED
        BY <3>2, <3>3, <3>4
    <2> QED
      BY <2>2, <2>3
  <1>4. CASE ReceiveWeights(r)
    <2>1. PICK at \in {"bcast", "train"} : pc' = [pc EXCEPT ![r] = at]
      <3>1. CASE param[r] = P
        BY <1>4, <3>1 DEF ReceiveWeights, NextParam, Goto
      <3>2. CASE param[r] # P
        BY <1>0, <1>4, <3>2 DEF ReceiveWeights, NextParam
      <3> QED
        BY <3>1, <3>2
    <2>2. \A s \in Rank : \A i \in DOMAIN chan'[s] :
              \E j \in DOMAIN chan[s] : chan'[s][i] = chan[s][j]
      BY <1>0, <1>4, ReceivedPackets DEF ReceiveWeights
    <2> QED
      BY <1>0, <1>4, <2>1, <2>2, MoveCauses, PcValues DEF ReceiveWeights, Counted
  <1>5. CASE ReceiveInterval(r)
    <2>1. /\ r # 0 /\ pc[r] = "interval" /\ program' = program /\ nbpp' = nbpp
          /\ batchesAvg' = [batchesAvg EXCEPT ![r] = Head(chan[r]).number]
      BY <1>5 DEF ReceiveInterval, Receive
    <2>2. /\ Head(chan[r]).number = 0 => ZeroSource
          /\ \A s \in Rank : \A i \in DOMAIN chan'[s] :
                 \E j \in DOMAIN chan[s] : chan'[s][i] = chan[s][j]
      BY <1>0, <1>5, ReceivedPackets DEF ReceiveInterval, CauseInv, ZeroHasCause
    <2>3. /\ pc' = [pc EXCEPT ![r] = pc'[r]]
          /\ pc'[r] \in {"train", "early", "done", "fit"}
          /\ fit[0] <= fit'[0] /\ fit'[0] \in Nat
          /\ \A s \in Rank : s # r => fit'[s] = fit[s]
      BY <1>0, <1>5, <2>1, NextEpochEffect DEF ReceiveInterval
    <2>4. RootCounts'
      BY <1>0, <2>1, <2>3, CountStep DEF CauseInv
    <2>5. ZeroHasCause'
      <3>1. \A s \in Rank : batchesAvg'[s] = 0 =>
                \/ batchesAvg[s] = 0 /\ (pc[s] = "method" => pc'[s] = "method")
                \/ ZeroSource
        BY <1>0, <2>1, <2>2, <2>3 DEF TypeOK
      <3> QED
        BY <1>0, <2>1, <2>2, <2>3, <3>1, ZeroStep DEF CauseInv
    <2>6. CrashHasCause'
      <3>1. \A s \in Rank : pc'[s] = "crashed" => pc[s] = "crashed" /\ fit'[s] = fit[s]
        BY <1>0, <2>3
      <3> QED
        BY <1>0, <2>1, <2>3, <3>1, CrashStep DEF CauseInv
    <2> QED
      BY <2>4, <2>5, <2>6
  <1>6. CASE ReceiveStop(r)
    <2>1. /\ r # 0 /\ pc[r] = "early" /\ UNCHANGED <<program, nbpp, batchesAvg>>
          /\ Stopping(r, Head(chan[r]).number)
      BY <1>6 DEF ReceiveStop, Receive
    <2>2. \A s \in Rank : \A i \in DOMAIN chan'[s] :
              \E j \in DOMAIN chan[s] : chan'[s][i] = chan[s][j]
      BY <1>0, <1>6, ReceivedPackets DEF ReceiveStop
    <2>3. /\ pc' = [pc EXCEPT ![r] = pc'[r]] /\ pc'[r] \in {"done", "fit"}
          /\ fit[0] <= fit'[0] /\ fit'[0] \in Nat
          /\ \A s \in Rank : s # r => fit'[s] = fit[s]
      <3>1. CASE Head(chan[r]).number = 1
        BY <1>0, <2>1, <3>1 DEF Stopping, Goto
      <3>2. CASE Head(chan[r]).number # 1
        <4>1. AfterFit(r)
          BY <2>1, <3>2 DEF Stopping
        <4> QED
          BY <1>0, <2>1, <4>1, AfterFitEffect
      <3> QED
        BY <3>1, <3>2
    <2>4. RootCounts'
      BY <1>0, <2>1, <2>3, CountStep DEF CauseInv
    <2>5. ZeroHasCause'
      <3>1. \A s \in Rank : pc[s] = "method" => pc'[s] = "method"
        BY <1>0, <2>1, <2>3
      <3> QED
        BY <1>0, <2>1, <2>2, <2>3, <3>1, ZeroStep DEF CauseInv
    <2>6. CrashHasCause'
      <3>1. \A s \in Rank : pc'[s] = "crashed" => pc[s] = "crashed" /\ fit'[s] = fit[s]
        BY <1>0, <2>3
      <3> QED
        BY <1>0, <2>1, <2>3, <3>1, CrashStep DEF CauseInv
    <2> QED
      BY <2>4, <2>5, <2>6
  <1>7. CASE TrainBatch(r)
    BY <1>0, <1>7, MoveCauses, PcValues DEF TrainBatch, Goto, Counted
  <1>8. CASE AvgWeights(r)
    <2>1. pc[r] = "avg" /\ UNCHANGED <<program, fit, nbpp, batchesAvg, chan>>
      BY <1>8 DEF AvgWeights, loopVars
    <2>2. CASE batchesAvg[r] = 0
      <3>1. ZeroSource /\ pc' = [pc EXCEPT ![r] = "crashed"]
        BY <1>8, <2>1, <2>2 DEF AvgWeights, Goto, CauseInv, ZeroHasCause
      <3>2. RootCounts'
        BY <1>0, <2>1, <3>1, CountStep DEF CauseInv, Counted
      <3>3. ZeroHasCause'
        BY <1>0, <2>1, <3>1, ZeroStep DEF CauseInv
      <3>4. CrashHasCause'
        BY <1>0, <2>1, <3>1, CrashStep DEF CauseInv
      <3> QED
        BY <3>2, <3>3, <3>4
    <2>3. CASE batchesAvg[r] # 0
      <3>1. PICK at \in {"reduce", "train"} : pc' = [pc EXCEPT ![r] = at]
        BY <1>8, <2>3 DEF AvgWeights, Goto
      <3> QED
        BY <1>0, <2>1, <3>1, MoveCauses, PcValues DEF Counted
    <2> QED
      BY <2>2, <2>3
  <1>9. CASE EndEpoch(r)
    BY <1>0, <1>9, MoveCauses, PcValues DEF EndEpoch, Goto, Counted, loopVars
  <1> QED
    BY <1>1, <1>2, <1>3, <1>4, <1>5, <1>6, <1>7, <1>8, <1>9 DEF RankStep

LEMMA NextCauseInv == CauseInv /\ [Next]_vars => CauseInv'
  <1> SUFFICES ASSUME CauseInv, [Next]_vars PROVE CauseInv'
    OBVIOUS
  <1>1. TypeInv'
    BY NextTypeInv DEF CauseInv
  <1>2. CASE UNCHANGED vars
    <2>1. UNCHANGED <<program, pc, fit, nbpp, batchesAvg, chan>>
      BY <1>2 DEF vars, loopVars
    <2>2. RootCounts' /\ ZeroHasCause' /\ CrashHasCause'
      BY <2>1 DEF CauseInv, RootCounts, ZeroHasCause, CrashHasCause, ZeroSource, IsEmpty,
                  LocalBatch, BatchesPerProc
    <2> QED
      BY <1>1, <2>2 DEF CauseInv
  <1>3. CASE Next
    <2>1. RootCounts' /\ ZeroHasCause' /\ CrashHasCause'
      BY <1>3, JointCauses, RootCauses, RankCauses DEF Next
    <2> QED
      BY <1>1, <2>1 DEF CauseInv
  <1> QED
    BY <1>2, <1>3

\* Nobody divides by zero but for a batch smaller than the number of processes,
\* an epoch_avg or a batch_avg of 0, or an interval left over from an empty
\* fit(): in particular no rule for the next interval rounds a positive one down
\* to 0 by itself.
THEOREM CrashesHaveCauses == Spec => []CrashHasCause
  <1>1. CauseInv => CrashHasCause
    BY DEF CauseInv
  <1> QED
    BY <1>1, InitCauseInv, NextCauseInv, PTL DEF Spec

-----------------------------------------------------------------------------
(* Lockstep.  What all ranks agree on: how far rank 0's broadcasts take every *)
(* rank that receives them.                                                  *)

Stages == {"method", "fit", "nbpp", "bcast", "train", "interval", "early", "done"}

\* from: the batches of this epoch at the last average.
Agreement == [at : Stages, fit : Nat, epoch : Nat, from : Nat, param : Nat, ba : Nat]

Batches(k) == BatchesPerProc(program.fits[k])
Most(g)    == Batches(g.fit)

\* A rank averages, or divides by zero, after its k-th batch.
Ends(g, k) == g.ba = 0 \/ IsDue(k, g.ba, Most(g))

\* Training between two averages.
Between(g, r) ==
    /\ nbpp[r] = Most(g) /\ epoch[r] = g.epoch
    /\ g.from <= batch[r] /\ batch[r] <= Most(g)
    /\ \A k \in g.from + 1 .. batch[r] - 1 : ~Ends(g, k)
    /\ pc[r] \in {"train", "avg", "reduce", "metrics", "crashed"}
    /\ pc[r] = "train" => batch[r] = g.from \/ ~Ends(g, batch[r])
    /\ pc[r] = "avg" => g.from < batch[r]
    /\ pc[r] = "reduce" => g.from < batch[r] /\ Ends(g, batch[r]) /\ g.ba # 0
    /\ pc[r] = "metrics" => batch[r] = g.from /\ g.from = Most(g)
    /\ pc[r] = "crashed" => g.from < batch[r] /\ g.ba = 0
    /\ g.param # 1 => pc[r] = "reduce"

\* A rank that has received all there is.
Here(g, r) ==
    /\ chan[r] = <<>> /\ fit[r] = g.fit /\ param[r] = g.param
    /\ g.at # "method" => batchesAvg[r] = g.ba
    /\ g.at \notin {"bcast", "train"} => g.param = 1
    /\ g.at = "method" => /\ pc[r] \in {"method", "methodSet"}
                          /\ pc[r] = "methodSet" => batchesAvg[r] = program.avg
    /\ g.at = "fit" => pc[r] \in {"fit", "batchSet"}
    /\ g.at = "nbpp" => /\ pc[r] \in {"nbpp", "nbppSet", "crashed"}
                        /\ pc[r] = "nbppSet" => /\ nbpp[r] = Most(g)
                                                /\ epoch[r] = 0 /\ batch[r] = 0
    /\ g.at = "bcast" => /\ pc[r] = "bcast" /\ nbpp[r] = Most(g)
                         /\ epoch[r] = 0 /\ batch[r] = 0
    /\ g.at = "train" => Between(g, r)
    /\ g.at = "interval" => /\ pc[r] = "interval" \/ (r = 0 /\ pc[r] = "crashed")
                            /\ nbpp[r] = Most(g) /\ epoch[r] = g.epoch
    /\ g.at = "early" => pc[r] = "early"
    /\ g.at = "done" => pc[r] = "done"

\* Where a rank goes after a call of fit(), and after an epoch.
FitOver(g, f, stop) ==
    IF stop \/ f = Len(program.fits) THEN g.at = "done" /\ g.fit = f
    ELSE g.at = "fit" /\ g.fit = f + 1

EpochOver(g, f, e) ==
    IF e + 1 < program.fits[f].epochs
    THEN g.at = "train" /\ g.fit = f /\ g.epoch = e + 1 /\ g.from = 0
    ELSE IF program.early THEN g.at = "early" /\ g.fit = f
    ELSE FitOver(g, f, FALSE)

\* Ranks with something to receive.
TakesWeights(g, r) ==
    /\ r # 0 /\ chan[r] # <<>> /\ pc[r] = "bcast" /\ fit[r] = g.fit
    /\ batchesAvg[r] = g.ba /\ nbpp[r] = Most(g) /\ epoch[r] = 0 /\ batch[r] = 0
    /\ \A i \in DOMAIN chan[r] : /\ chan[r][i].op = "weights"
                                 /\ chan[r][i].number = param[r] + i - 1
    /\ \/ g.at = "bcast" /\ g.param = param[r] + Len(chan[r])
       \/ /\ g.at = "train" /\ g.epoch = 0 /\ g.from = 0 /\ g.param = 1
          /\ param[r] + Len(chan[r]) = P + 1

TakesInterval(g, r) ==
    /\ r # 0 /\ pc[r] = "interval" /\ param[r] = 1 /\ g.param = 1
    /\ nbpp[r] = Batches(fit[r]) /\ Len(chan[r]) \in {1, 2}
    /\ chan[r][1].op = "interval" /\ chan[r][1].number = g.ba
    /\ Len(chan[r]) = 1 => EpochOver(g, fit[r], epoch[r])
    /\ Len(chan[r]) = 2 => /\ ~ (epoch[r] + 1 < program.fits[fit[r]].epochs)
                           /\ program.early /\ chan[r][2].op = "stop"
                           /\ FitOver(g, fit[r], chan[r][2].number = 1)

TakesStop(g, r) ==
    /\ r # 0 /\ pc[r] = "early" /\ param[r] = 1 /\ g.param = 1
    /\ batchesAvg[r] = g.ba /\ Len(chan[r]) = 1 /\ chan[r][1].op = "stop"
    /\ FitOver(g, fit[r], chan[r][1].number = 1)

Follows(g, r) == Here(g, r) \/ TakesWeights(g, r) \/ TakesInterval(g, r) \/ TakesStop(g, r)

\* Batches since the last average.
Ahead(g, r) ==
    IF g.at = "train" /\ pc[r] \in {"train", "avg", "reduce", "metrics", "crashed"}
    THEN batch[r] - g.from ELSE 0

\* Whose batches a weight has.
HasMost(g, weights) == \A r \in Rank : trained[r] - Ahead(g, r) <= weights[r]

Shared(g) ==
    /\ \A r \in Rank, p \in Param : HasMost(g, know[r][p]) /\ trained[r] <= know[r][p][r]
    /\ \A r, s \in Rank, p \in Param : g.at = "train" /\ p < g.param => trained[s] <= know[r][p][s]
    /\ \A r \in Rank : \A i \in DOMAIN chan[r] :
           chan[r][i].op = "weights" => HasMost(g, chan[r][i].weights)

Agreed(g) == /\ g.at = "train" => g.from = 0 \/ Ends(g, g.from)
             /\ g.param \in Param
             /\ chan[0] = <<>>
             /\ \A r \in Rank : Follows(g, r)

Lockstep == \E g \in Agreement : Agreed(g) /\ Shared(g)

Position(at, f, e, from, p, n) ==
    [at |-> at, fit |-> f, epoch |-> e, from |-> from, param |-> p, ba |-> n]

LEMMA NewAgreement ==
    ASSUME NEW a \in Stages, NEW f \in Nat, NEW e \in Nat, NEW b \in Nat, NEW p \in Nat,
           NEW n \in Nat
    PROVE  /\ Position(a, f, e, b, p, n) \in Agreement
           /\ Position(a, f, e, b, p, n).at = a /\ Position(a, f, e, b, p, n).fit = f
           /\ Position(a, f, e, b, p, n).epoch = e /\ Position(a, f, e, b, p, n).from = b
           /\ Position(a, f, e, b, p, n).param = p /\ Position(a, f, e, b, p, n).ba = n
  BY DEF Position, Agreement

LEMMA AgreementFacts ==
    ASSUME NEW g \in Agreement
    PROVE  /\ g.at \in Stages /\ g.fit \in Nat /\ g.epoch \in Nat /\ g.from \in Nat
           /\ g.param \in Nat /\ g.ba \in Nat
  BY DEF Agreement

\* What the variables of a rank are.
LEMMA RankTypes ==
    ASSUME TypeInv, NEW r \in Rank
    PROVE  /\ pc[r] \in PcType /\ epoch[r] \in Nat /\ batch[r] \in Nat /\ nbpp[r] \in Nat
           /\ batchesAvg[r] \in Nat /\ param[r] \in Param /\ param[r] \in Nat
           /\ chan[r] \in Seq(Packet) /\ Len(chan[r]) \in Nat
           /\ fit[r] \in DOMAIN program.fits /\ trained[r] \in Nat
           /\ fit[r] \in Nat /\ DOMAIN program.fits = 1 .. Len(program.fits)
           /\ Len(program.fits) \in Nat
  <1>1. /\ pc[r] \in PcType /\ epoch[r] \in Nat /\ batch[r] \in Nat /\ nbpp[r] \in Nat
        /\ batchesAvg[r] \in Nat /\ param[r] \in Param
        /\ chan[r] \in Seq(Packet)
        /\ fit[r] \in DOMAIN program.fits /\ trained[r] \in Nat
    BY DEF TypeInv, TypeOK, PcType
  <1>2. param[r] \in Nat
    BY <1>1, AveragingAssumption DEF Param
  <1>3. Len(chan[r]) \in Nat
    BY <1>1
  <1> QED
    BY <1>1, <1>2, <1>3, FitIsNat, ProgramFacts DEF TypeInv, TypeOK

\* What its position tells about a rank.
LEMMA Whereabouts ==
    ASSUME NEW g \in Agreement, NEW r \in Rank, Follows(g, r)
    PROVE  /\ chan[r] = <<>> => Here(g, r)
           /\ chan[r] # <<>> => TakesWeights(g, r) \/ TakesInterval(g, r) \/ TakesStop(g, r)
           /\ r = 0 => Here(g, r)
           /\ pc[r] \in {"method", "methodSet"} => Here(g, r) /\ g.at = "method"
           /\ pc[r] \in {"fit", "batchSet"} => Here(g, r) /\ g.at = "fit"
           /\ pc[r] \in {"nbpp", "nbppSet"} => Here(g, r) /\ g.at = "nbpp"
           /\ pc[r] \in {"train", "avg", "reduce", "metrics"} => Here(g, r) /\ g.at = "train"
           /\ pc[r] = "crashed" => Here(g, r) /\ g.at \in {"nbpp", "train", "interval"}
           /\ pc[r] = "done" => Here(g, r) /\ g.at = "done"
           /\ pc[r] = "bcast" => (Here(g, r) /\ g.at = "bcast") \/ TakesWeights(g, r)
           /\ pc[r] = "interval" => (Here(g, r) /\ g.at = "interval") \/ TakesInterval(g, r)
           /\ pc[r] = "early" => (Here(g, r) /\ g.at = "early") \/ TakesStop(g, r)
  <1>1. g.at \in Stages
    BY AgreementFacts
  <1>2. TakesWeights(g, r) => chan[r] # <<>> /\ pc[r] = "bcast" /\ r # 0
    BY DEF TakesWeights
  <1>3. TakesInterval(g, r) => chan[r] # <<>> /\ pc[r] = "interval" /\ r # 0
    BY DEF TakesInterval
  <1>4. TakesStop(g, r) => chan[r] # <<>> /\ pc[r] = "early" /\ r # 0
    BY DEF TakesStop
  <1>5. Here(g, r) =>
          /\ chan[r] = <<>>
          /\ g.at = "method" => pc[r] \in {"method", "methodSet"}
          /\ g.at = "fit" => pc[r] \in {"fit", "batchSet"}
          /\ g.at = "nbpp" => pc[r] \in {"nbpp", "nbppSet", "crashed"}
          /\ g.at = "bcast" => pc[r] = "bcast"
          /\ g.at = "train" => pc[r] \in {"train", "avg", "reduce", "metrics", "crashed"}
          /\ g.at = "interval" => pc[r] \in {"interval", "crashed"}
          /\ g.at = "early" => pc[r] = "early"
          /\ g.at = "done" => pc[r] = "done"
    BY DEF Here, Between
  <1> QED
    BY <1>1, <1>2, <1>3, <1>4, <1>5 DEF Follows, Stages

\* A step of one rank does not concern the others.
LEMMA SameFollows ==
    ASSUME NEW g \in Agreement, NEW r \in Rank, Follows(g, r), program' = program,
           pc'[r] = pc[r], fit'[r] = fit[r], epoch'[r] = epoch[r], batch'[r] = batch[r],
           param'[r] = param[r], nbpp'[r] = nbpp[r], batchesAvg'[r] = batchesAvg[r],
           chan'[r] = chan[r]
    PROVE  Follows(g, r)'
  <1>1. \A k : Batches(k)' = Batches(k)
    BY DEF Batches, BatchesPerProc, LocalBatch
  <1>2. Most(g)' = Most(g) /\ \A k : Ends(g, k)' = Ends(g, k)
    BY <1>1 DEF Most, Ends
  <1>3. Between(g, r) => Between(g, r)'
    BY <1>2 DEF Between
  <1>4. Here(g, r) => Here(g, r)'
    BY <1>2, <1>3 DEF Here
  <1>5. TakesWeights(g, r) => TakesWeights(g, r)'
    BY <1>2 DEF TakesWeights
  <1>6. \A f, stop : FitOver(g, f, stop)' = FitOver(g, f, stop)
    BY DEF FitOver
  <1>7. \A f, e : EpochOver(g, f, e)' = EpochOver(g, f, e)
    BY <1>6 DEF EpochOver
  <1>8. TakesInterval(g, r) => TakesInterval(g, r)'
    BY <1>1, <1>6, <1>7 DEF TakesInterval
  <1>9. TakesStop(g, r) => TakesStop(g, r)'
    BY <1>6 DEF TakesStop
  <1> QED
    BY <1>4, <1>5, <1>8, <1>9 DEF Follows

LEMMA LocalAgreed ==
    ASSUME NEW g \in Agreement, NEW r \in Rank, Agreed(g), program' = program,
           \A s \in Rank : s # r =>
               /\ pc'[s] = pc[s] /\ fit'[s] = fit[s] /\ epoch'[s] = epoch[s]
               /\ batch'[s] = batch[s] /\ param'[s] = param[s] /\ nbpp'[s] = nbpp[s]
               /\ batchesAvg'[s] = batchesAvg[s] /\ chan'[s] = chan[s],
           chan'[0] = chan[0], Follows(g, r)'
    PROVE  Agreed(g)'
  <1>1. \A s \in Rank : Follows(g, s)'
    BY SameFollows DEF Agreed
  <1>2. Ends(g, g.from)' = Ends(g, g.from)
    BY DEF Ends, Most, Batches, BatchesPerProc, LocalBatch
  <1> QED
    BY <1>1, <1>2 DEF Agreed

LEMMA AheadType ==
    ASSUME TypeInv, NEW g \in Agreement, NEW r \in Rank
    PROVE  Ahead(g, r) \in Int
  BY RankTypes, AgreementFacts DEF Ahead

LEMMA AheadTypeNext ==
    ASSUME TypeInv', NEW g \in Agreement, NEW r \in Rank
    PROVE  Ahead(g, r)' \in Int
  <1>1. batch'[r] \in Nat
    BY DEF TypeInv, TypeOK
  <1> QED
    BY <1>1, AgreementFacts DEF Ahead

\* Nobody is less ahead than before; no weights are under way but old ones and
\* rank 0's.
NoneBehind(g, h) == \A s \in Rank : Ahead(g, s) <= Ahead(h, s)'

OldPackets ==
    \A s \in Rank : \A i \in DOMAIN chan'[s] :
        chan'[s][i].op = "weights" =>
            \/ \E j \in DOMAIN chan[s] : chan'[s][i] = chan[s][j]
            \/ \E p \in Param : chan'[s][i].weights = know[0][p]

\* Steps that neither train nor average.
LEMMA KeepsShared ==
    ASSUME TypeInv, TypeInv', NEW g \in Agreement, NEW h \in Agreement, Shared(g),
           trained' = trained, know' = know,
           h.at = "train" => h.param = 1 \/ (g.at = "train" /\ h.param = g.param),
           NoneBehind(g, h), OldPackets
    PROVE  Shared(h)'
  <1>1. \A s \in Rank : trained[s] \in Nat /\ Ahead(g, s) \in Int /\ Ahead(h, s)' \in Int
    BY RankTypes, AheadType, AheadTypeNext
  <1>2. ASSUME NEW w \in [Rank -> Nat], HasMost(g, w)
        PROVE  \A s \in Rank : trained[s] - Ahead(h, s)' <= w[s]
    BY <1>1, <1>2 DEF HasMost, NoneBehind
  <1>3. know \in [Rank -> [Param -> [Rank -> Nat]]] /\ 0 \in Rank
    BY RankFacts DEF TypeInv, TypeOK
  <1>4. ASSUME NEW r \in Rank, NEW p \in Param
        PROVE  HasMost(h, know[r][p])' /\ trained'[r] <= know'[r][p][r]
    <2>1. know[r][p] \in [Rank -> Nat] /\ HasMost(g, know[r][p])
          /\ trained[r] <= know[r][p][r]
      BY <1>3 DEF Shared
    <2>2. \A s \in Rank : trained[s] - Ahead(h, s)' <= know[r][p][s]
      BY <1>2, <2>1
    <2> QED
      BY <2>1, <2>2 DEF HasMost
  <1>5. \A r, s \in Rank, p \in Param :
            h.at = "train" /\ p < h.param => trained'[s] <= know'[r][p][s]
    BY AveragingAssumption DEF Shared, Param
  <1>6. ASSUME NEW s \in Rank, NEW i \in DOMAIN chan'[s], chan'[s][i].op = "weights"
        PROVE  HasMost(h, chan[s][i].weights)'
    <2>1. CASE \E p \in Param : chan'[s][i].weights = know[0][p]
      <3>1. PICK p \in Param : chan'[s][i].weights = know[0][p]
        BY <2>1
      <3>2. know[0][p] \in [Rank -> Nat] /\ HasMost(g, know[0][p])
        BY <1>3 DEF Shared
      <3>3. \A q \in Rank : trained[q] - Ahead(h, q)' <= know[0][p][q]
        BY <1>2, <3>2
      <3> QED
        BY <3>1, <3>3 DEF HasMost
    <2>2. CASE \E j \in DOMAIN chan[s] : chan'[s][i] = chan[s][j]
      <3>1. PICK j \in DOMAIN chan[s] : chan'[s][i] = chan[s][j]
        BY <2>2
      <3>2. chan[s][j] \in Packet
        BY DEF TypeInv, TypeOK
      <3>3. chan[s][j].weights \in [Rank -> Nat]
        BY <3>2 DEF Packet
      <3>4. HasMost(g, chan[s][j].weights)
        BY <1>6, <3>1 DEF Shared
      <3> QED
        BY <1>2, <3>1, <3>3, <3>4 DEF HasMost
    <2> QED
      BY <1>6, <2>1, <2>2 DEF OldPackets
  <1> QED
    BY <1>4, <1>5, <1>6 DEF Shared

LEMMA InitLockstep == Init => Lockstep
  <1> SUFFICES ASSUME Init PROVE Lockstep
    OBVIOUS
  <1>0. 0 \in Rank /\ 1 \in Param
    BY RankFacts
  <1>1. PICK g \in Agreement : /\ g.at = "method" /\ g.fit = 1 /\ g.epoch = 0
                               /\ g.from = 0 /\ g.param = 1 /\ g.ba = 0
    <2> DEFINE g == Position("method", 1, 0, 0, 1, 0)
    <2>1. "method" \in Stages
      BY DEF Stages
    <2> QED
      BY <2>1, NewAgreement
  <1>2. \A r \in Rank : Here(g, r)
    BY <1>1 DEF Init, Here
  <1>3. Agreed(g)
    BY <1>0, <1>1, <1>2 DEF Agreed, Follows, Init
  <1>4. \A r \in Rank, p \in Param : HasMost(g, know[r][p]) /\ trained[r] <= know[r][p][r]
    BY <1>1 DEF Init, HasMost, Ahead
  <1>5. \A r \in Rank : DOMAIN chan[r] = {}
    BY DEF Init
  <1>6. Shared(g)
    BY <1>1, <1>4, <1>5 DEF Shared
  <1> QED
    BY <1>3, <1>6 DEF Lockstep

\* A step that is one rank's own and changes no weights.
LEMMA LocalLockstep ==
    ASSUME TypeInv, TypeInv', NEW g \in Agreement, NEW r \in Rank, Agreed(g), Shared(g),
           UNCHANGED <<program, trained, know>>,
           \A s \in Rank : s # r =>
               /\ pc'[s] = pc[s] /\ fit'[s] = fit[s] /\ epoch'[s] = epoch[s]
               /\ batch'[s] = batch[s] /\ param'[s] = param[s] /\ nbpp'[s] = nbpp[s]
               /\ batchesAvg'[s] = batchesAvg[s] /\ chan'[s] = chan[s],
           chan'[0] = chan[0], Follows(g, r)', Ahead(g, r) <= Ahead(g, r)',
           \A i \in DOMAIN chan'[r] : \E j \in DOMAIN chan[r] : chan'[r][i] = chan[r][j]
    PROVE  Lockstep'
  <1>1. Agreed(g)'
    BY LocalAgreed
  <1>2. \A s \in Rank : Ahead(g, s) <= Ahead(g, s)'
    <2>1. \A s \in Rank : s # r => Ahead(g, s)' = Ahead(g, s)
      BY DEF Ahead
    <2> QED
      BY <2>1, AheadType
  <1>3. \A s \in Rank : \A i \in DOMAIN chan'[s] :
            \E j \in DOMAIN chan[s] : chan'[s][i] = chan[s][j]
    OBVIOUS
  <1>4. Shared(g)'
    BY <1>2, <1>3, KeepsShared DEF NoneBehind, OldPackets
  <1> QED
    BY <1>1, <1>4 DEF Lockstep

\* The functions of ranks.
LEMMA RankMaps ==
    ASSUME TypeInv
    PROVE  /\ pc \in [Rank -> PcType] /\ DOMAIN fit = Rank /\ DOMAIN epoch = Rank
           /\ DOMAIN batch = Rank /\ DOMAIN param = Rank /\ DOMAIN nbpp = Rank
           /\ DOMAIN batchesAvg = Rank /\ DOMAIN chan = Rank /\ DOMAIN trained = Rank
           /\ DOMAIN pc = Rank
  BY DEF TypeInv, TypeOK, PcType

\* Steps before training, and the decisions a rank takes by itself.
LEMMA SetLockstep ==
    ASSUME TypeInv, TypeInv', Lockstep, NEW r \in Rank,
           SetAvgMethod(r) \/ SetBatch(r) \/ SetNBPP(r)
    PROVE  Lockstep'
  <1>0. PICK g \in Agreement : Agreed(g) /\ Shared(g)
    BY DEF Lockstep
  <1>1. Follows(g, r)
    BY <1>0 DEF Agreed
  <1>2. CASE SetAvgMethod(r)
    <2>1. /\ pc[r] = "method" /\ pc' = [pc EXCEPT ![r] = "methodSet"]
          /\ batchesAvg' = [batchesAvg EXCEPT ![r] = program.avg]
          /\ UNCHANGED <<program, fit, epoch, batch, param, nbpp, chan, trained, know>>
      BY <1>2 DEF SetAvgMethod, Goto, loopVars, weightVars
    <2>2. Here(g, r) /\ g.at = "method"
      BY <1>1, <2>1, Whereabouts
    <2>3. Here(g, r)'
      BY <2>1, <2>2, RankMaps DEF Here
    <2>4. Ahead(g, r) <= Ahead(g, r)'
      BY <2>2 DEF Ahead
    <2> QED
      BY <1>0, <2>1, <2>3, <2>4, LocalLockstep, RankMaps DEF Follows
  <1>3. CASE SetBatch(r)
    <2>1. /\ pc[r] = "fit" /\ pc' = [pc EXCEPT ![r] = "batchSet"]
          /\ UNCHANGED <<program, fit, epoch, batch, param, nbpp, batchesAvg, chan,
                         trained, know>>
      BY <1>3 DEF SetBatch, Goto, loopVars, weightVars
    <2>2. Here(g, r) /\ g.at = "fit"
      BY <1>1, <2>1, Whereabouts
    <2>3. Here(g, r)'
      BY <2>1, <2>2, RankMaps DEF Here
    <2>4. Ahead(g, r) <= Ahead(g, r)'
      BY <2>2 DEF Ahead
    <2> QED
      BY <1>0, <2>1, <2>3, <2>4, LocalLockstep, RankMaps DEF Follows
  <1>4. CASE SetNBPP(r)
    <2>1. /\ pc[r] = "nbpp" /\ param' = [param EXCEPT ![r] = 1]
          /\ epoch' = [epoch EXCEPT ![r] = 0] /\ batch' = [batch EXCEPT ![r] = 0]
          /\ UNCHANGED <<program, fit, batchesAvg, chan, trained, know>>
      BY <1>4 DEF SetNBPP, weightVars
    <2>2. Here(g, r) /\ g.at = "nbpp"
      BY <1>1, <2>1, Whereabouts
    <2>3. \/ pc' = [pc EXCEPT ![r] = "crashed"] /\ nbpp' = nbpp
          \/ /\ pc' = [pc EXCEPT ![r] = "nbppSet"]
             /\ nbpp' = [nbpp EXCEPT ![r] = Batches(fit[r])]
      BY <1>4 DEF SetNBPP, Goto, Batches
    <2>4. Most(g)' = Batches(fit[r]) /\ Most(g)' = Most(g)
      BY <2>1, <2>2 DEF Most, Batches, BatchesPerProc, LocalBatch, Here
    <2>5. Here(g, r)'
      BY <2>1, <2>2, <2>3, <2>4, RankMaps DEF Here
    <2>6. Ahead(g, r) <= Ahead(g, r)'
      BY <2>2 DEF Ahead
    <2> QED
      BY <1>0, <2>1, <2>3, <2>5, <2>6, LocalLockstep, RankMaps DEF Follows
  <1> QED
    BY <1>2, <1>3, <1>4

\* Everybody knows when the next average is due.
LEMMA DueLockstep ==
    ASSUME TypeInv, TypeInv', Lockstep, NEW r \in Rank, AvgWeights(r) \/ EndEpoch(r)
    PROVE  Lockstep'
  <1>0. PICK g \in Agreement : Agreed(g) /\ Shared(g)
    BY DEF Lockstep
  <1>1. Follows(g, r)
    BY <1>0 DEF Agreed
  <1>2. /\ pc[r] \in {"avg", "train"}
        /\ UNCHANGED <<program, fit, epoch, batch, param, nbpp, batchesAvg, chan,
                       trained, know>>
    BY DEF AvgWeights, EndEpoch, loopVars, weightVars
  <1>3. Here(g, r) /\ g.at = "train" /\ Between(g, r) /\ batchesAvg[r] = g.ba
    BY <1>1, <1>2, Whereabouts DEF Here
  <1>4. g.from \in Nat /\ g.ba \in Nat /\ batch[r] \in Nat /\ nbpp[r] \in Nat
        /\ nbpp[r] = Most(g)
    BY <1>3, AgreementFacts, RankTypes DEF Between
  <1>5. PICK at \in {"crashed", "reduce", "train", "metrics"} :
            /\ pc' = [pc EXCEPT ![r] = at]
            /\ at = "crashed" => pc[r] = "avg" /\ g.ba = 0
            /\ at = "reduce" => pc[r] = "avg" /\ g.ba # 0 /\ Ends(g, batch[r])
            /\ at = "train" => pc[r] = "avg" /\ ~Ends(g, batch[r])
            /\ at = "metrics" => pc[r] = "train" /\ batch[r] = Most(g)
    <2>1. CASE AvgWeights(r)
      <3>1. pc[r] = "avg"
        BY <2>1 DEF AvgWeights
      <3>2. CASE g.ba = 0
        BY <1>3, <2>1, <3>1, <3>2 DEF AvgWeights, Goto
      <3>3. CASE g.ba # 0 /\ IsDue(batch[r], g.ba, Most(g))
        BY <1>3, <1>4, <2>1, <3>1, <3>3 DEF AvgWeights, Goto, Ends
      <3>4. CASE g.ba # 0 /\ ~IsDue(batch[r], g.ba, Most(g))
        BY <1>3, <1>4, <2>1, <3>1, <3>4 DEF AvgWeights, Goto, Ends
      <3> QED
        BY <3>2, <3>3, <3>4
    <2>2. CASE EndEpoch(r)
      BY <1>4, <2>2 DEF EndEpoch, Goto
    <2> QED
      BY <2>1, <2>2
  <1>6. at = "metrics" => batch[r] = g.from
    <2>1. Ends(g, Most(g))
      BY DEF Ends, IsDue
    <2> QED
      BY <1>3, <1>5, <2>1 DEF Between
  <1>7. Most(g)' = Most(g) /\ \A k : Ends(g, k)' = Ends(g, k)
    BY <1>2 DEF Most, Batches, BatchesPerProc, LocalBatch, Ends
  <1>8. g.param = 1
    BY <1>2, <1>3 DEF Between
  <1>9. Between(g, r)'
    <2>1. pc'[r] = at
      BY <1>5, RankMaps
    <2> QED
      BY <1>2, <1>3, <1>5, <1>6, <1>7, <1>8, <2>1 DEF Between
  <1>10. Here(g, r)'
    BY <1>2, <1>3, <1>9 DEF Here
  <1>11. Ahead(g, r) <= Ahead(g, r)'
    <2>1. pc'[r] = at
      BY <1>5, RankMaps
    <2> QED
      BY <1>2, <1>4, <2>1 DEF Ahead
  <1> QED
    BY <1>0, <1>2, <1>5, <1>10, <1>11, LocalLockstep, RankMaps DEF Follows

LEMMA TrainLockstep ==
    ASSUME TypeInv, TypeInv', Lockstep, NEW r \in Rank, TrainBatch(r)
    PROVE  Lockstep'
  <1>0. PICK g \in Agreement : Agreed(g) /\ Shared(g)
    BY DEF Lockstep
  <1>1. Follows(g, r)
    BY <1>0 DEF Agreed
  <1>2. /\ pc[r] = "train" /\ batch[r] < nbpp[r]
        /\ pc' = [pc EXCEPT ![r] = "avg"]
        /\ batch' = [batch EXCEPT ![r] = batch[r] + 1]
        /\ trained' = [trained EXCEPT ![r] = trained[r] + 1]
        /\ know' = [know EXCEPT ![r] = [p \in Param |->
                       [know[r][p] EXCEPT ![r] = trained[r] + 1]]]
        /\ UNCHANGED <<program, fit, epoch, param, nbpp, batchesAvg, chan>>
    BY DEF TrainBatch, Goto
  <1>3. Here(g, r) /\ g.at = "train" /\ Between(g, r) /\ g.param = 1
    <2>1. Here(g, r) /\ g.at = "train" /\ Between(g, r)
      BY <1>1, <1>2, Whereabouts DEF Here
    <2> QED
      BY <1>2, <2>1 DEF Between
  <1>4. g.from \in Nat /\ batch[r] \in Nat /\ nbpp[r] \in Nat /\ nbpp[r] = Most(g)
    BY <1>3, AgreementFacts, RankTypes DEF Between
  <1>5. pc'[r] = "avg" /\ batch'[r] = batch[r] + 1
    BY <1>2, RankMaps
  <1>6. Most(g)' = Most(g) /\ \A k : Ends(g, k)' = Ends(g, k)
    BY <1>2 DEF Most, Batches, BatchesPerProc, LocalBatch, Ends
  <1>7. Between(g, r)'
    <2>1. \A k \in g.from + 1 .. batch'[r] - 1 : ~Ends(g, k)
      <3> SUFFICES ASSUME NEW k \in g.from + 1 .. batch'[r] - 1 PROVE ~Ends(g, k)
        OBVIOUS
      <3>1. CASE k = batch[r]
        BY <1>2, <1>3, <1>4, <1>5, <3>1 DEF Between
      <3>2. CASE k # batch[r]
        <4>1. k \in g.from + 1 .. batch[r] - 1
          BY <1>4, <1>5, <3>2
        <4> QED
          BY <1>3, <4>1 DEF Between
      <3> QED
        BY <3>1, <3>2
    <2> QED
      BY <1>2, <1>3, <1>4, <1>5, <1>6, <2>1 DEF Between
  <1>8. Here(g, r)'
    BY <1>2, <1>3, <1>7 DEF Here
  <1>9. Agreed(g)'
    BY <1>0, <1>2, <1>8, LocalAgreed, RankMaps DEF Follows
  <1>10. \A s \in Rank :
             /\ trained[s] \in Nat /\ trained'[s] \in Nat /\ trained[s] <= trained'[s]
             /\ Ahead(g, s) \in Int /\ Ahead(g, s)' \in Int
             /\ s # r => trained'[s] = trained[s]
             /\ trained'[s] - Ahead(g, s)' = trained[s] - Ahead(g, s)
    <2> SUFFICES ASSUME NEW s \in Rank
                 PROVE  /\ trained[s] \in Nat /\ trained'[s] \in Nat
                        /\ trained[s] <= trained'[s]
                        /\ Ahead(g, s) \in Int /\ Ahead(g, s)' \in Int
                        /\ s # r => trained'[s] = trained[s]
                        /\ trained'[s] - Ahead(g, s)' = trained[s] - Ahead(g, s)
      OBVIOUS
    <2>1. trained[s] \in Nat /\ Ahead(g, s) \in Int /\ Ahead(g, s)' \in Int
      BY AheadType, AheadTypeNext, RankTypes
    <2>2. CASE s = r
      <3>1. Ahead(g, r) = batch[r] - g.from /\ Ahead(g, r)' = (batch[r] + 1) - g.from
        BY <1>2, <1>3, <1>4, <1>5 DEF Ahead
      <3>2. trained'[r] = trained[r] + 1
        BY <1>2, RankMaps
      <3> QED
        BY <1>4, <2>1, <2>2, <3>1, <3>2
    <2>3. CASE s # r
      <3>1. Ahead(g, s)' = Ahead(g, s) /\ trained'[s] = trained[s]
        BY <1>2, <2>3 DEF Ahead
      <3> QED
        BY <2>1, <2>3, <3>1
    <2> QED
      BY <2>2, <2>3
  <1>11. ASSUME NEW q \in Rank, NEW p \in Param
         PROVE  HasMost(g, know[q][p])' /\ trained'[q] <= know'[q][p][q]
    <2>1. know[q][p] \in [Rank -> Nat] /\ HasMost(g, know[q][p])
          /\ trained[q] <= know[q][p][q]
      BY <1>0 DEF Shared, TypeInv, TypeOK
    <2>2. CASE q = r
      <3>1. know'[q][p] = [know[q][p] EXCEPT ![r] = trained[r] + 1]
        BY <1>2, <2>2 DEF TypeInv, TypeOK
      <3>2. trained'[r] = trained[r] + 1
        BY <1>2, RankMaps
      <3>3. know'[q][p][r] = trained'[r]
        BY <2>1, <3>1, <3>2
      <3>4. Ahead(g, r)' >= 0
        BY <1>2, <1>3, <1>4, <1>5 DEF Ahead, Between
      <3>5. \A s \in Rank : trained'[s] - Ahead(g, s)' <= know'[q][p][s]
        <4> SUFFICES ASSUME NEW s \in Rank
                     PROVE  trained'[s] - Ahead(g, s)' <= know'[q][p][s]
          OBVIOUS
        <4>1. CASE s = r
          BY <1>10, <3>3, <3>4, <4>1
        <4>2. CASE s # r
          <5>1. know'[q][p][s] = know[q][p][s]
            BY <2>1, <3>1, <4>2
          <5> QED
            BY <1>10, <2>1, <5>1 DEF HasMost
        <4> QED
          BY <4>1, <4>2
      <3> QED
        BY <1>10, <2>2, <3>3, <3>5 DEF HasMost
    <2>3. CASE q # r
      <3>1. know'[q] = know[q] /\ trained'[q] = trained[q]
        BY <1>2, <2>3 DEF TypeInv, TypeOK
      <3> QED
        BY <1>10, <2>1, <3>1 DEF HasMost
    <2> QED
      BY <2>2, <2>3
  <1>12. ASSUME NEW q \in Rank, NEW i \in DOMAIN chan'[q], chan'[q][i].op = "weights"
         PROVE  HasMost(g, chan[q][i].weights)'
    <2>1. HasMost(g, chan[q][i].weights)
      BY <1>0, <1>2, <1>12 DEF Shared
    <2> QED
      BY <1>2, <1>10, <2>1 DEF HasMost
  <1>13. Shared(g)'
    BY <1>3, <1>11, <1>12, AveragingAssumption DEF Shared, Param
  <1> QED
    BY <1>9, <1>13 DEF Lockstep

-----------------------------------------------------------------------------
(* Receiving.                                                                *)

LEMMA TailOf ==
    ASSUME NEW S, NEW q \in Seq(S), q # <<>>
    PROVE  /\ Tail(q) \in Seq(S) /\ Len(q) \in Nat /\ Len(q) >= 1
           /\ Len(Tail(q)) = Len(q) - 1
           /\ Len(q) = 1 <=> Tail(q) = <<>>
           /\ DOMAIN Tail(q) = 1 .. Len(q) - 1 /\ DOMAIN q = 1 .. Len(q)
           /\ \A i \in 1 .. Len(q) - 1 : Tail(q)[i] = q[i + 1]
           /\ Head(q) = q[1]
  <1>1. Len(q) \in Nat /\ Len(q) >= 1 /\ DOMAIN q = 1 .. Len(q) /\ Head(q) = q[1]
    OBVIOUS
  <1>2. Tail(q) \in Seq(S) /\ Len(Tail(q)) = Len(q) - 1
    OBVIOUS
  <1>3. \A i \in 1 .. Len(q) - 1 : Tail(q)[i] = q[i + 1]
    OBVIOUS
  <1>4. DOMAIN Tail(q) = 1 .. Len(q) - 1
    BY <1>2
  <1>5. Len(q) = 1 <=> Tail(q) = <<>>
    <2>1. \A t \in Seq(S) : Len(t) = 0 <=> t = <<>>
      OBVIOUS
    <2> DEFINE t == Tail(q)
    <2>2. t \in Seq(S) /\ Len(t) = Len(q) - 1
      BY <1>2
    <2> HIDE DEF t
    <2>3. Len(t) = 0 <=> t = <<>>
      BY <2>1, <2>2
    <2>4. Len(q) = 1 <=> t = <<>>
      BY <1>1, <2>2, <2>3
    <2> QED
      BY <2>4 DEF t
  <1> QED
    BY <1>1, <1>2, <1>3, <1>4, <1>5

LEMMA TailFacts ==
    ASSUME TypeInv, NEW r \in Rank, NEW op, Receive(r, op)
    PROVE  /\ r # 0 /\ chan' = [chan EXCEPT ![r] = Tail(chan[r])]
           /\ chan'[r] \in Seq(Packet) /\ Len(chan[r]) \in Nat /\ Len(chan[r]) >= 1
           /\ Len(chan'[r]) = Len(chan[r]) - 1
           /\ Len(chan[r]) = 1 <=> chan'[r] = <<>>
           /\ DOMAIN chan'[r] = 1 .. Len(chan[r]) - 1
           /\ DOMAIN chan[r] = 1 .. Len(chan[r])
           /\ \A i \in 1 .. Len(chan[r]) - 1 : chan'[r][i] = chan[r][i + 1]
           /\ Head(chan[r]) = chan[r][1]
  <1>1. chan[r] \in Seq(Packet) /\ chan[r] # <<>>
        /\ chan' = [chan EXCEPT ![r] = Tail(chan[r])] /\ r # 0
    BY RankTypes DEF Receive
  <1>2. chan'[r] = Tail(chan[r])
    BY <1>1, RankMaps
  <1> QED
    BY <1>1, <1>2, TailOf

LEMMA WeightsLockstep ==
    ASSUME TypeInv, TypeInv', Lockstep, NEW r \in Rank, ReceiveWeights(r)
    PROVE  Lockstep'
  <1>0. PICK g \in Agreement : Agreed(g) /\ Shared(g)
    BY DEF Lockstep
  <1>1. Follows(g, r)
    BY <1>0 DEF Agreed
  <1> DEFINE w == chan[r][1].weights
             p == param[r]
  <1>2. /\ pc[r] = "bcast" /\ Receive(r, "weights")
        /\ know' = [know EXCEPT ![r][p] = w]
        /\ NextParam(r, "train")
        /\ UNCHANGED <<program, fit, epoch, batch, nbpp, batchesAvg, trained>>
    BY TailFacts DEF ReceiveWeights
  <1>3. TakesWeights(g, r)
    BY <1>1, <1>2, Whereabouts DEF Here, Receive
  <1>4. p \in Param /\ p \in Nat /\ P \in Nat /\ p <= P /\ g.param \in Param
        /\ g.param <= P /\ g.param \in Nat
    BY <1>0, RankTypes, AveragingAssumption DEF Param, Agreed
  <1>5. /\ \A s \in Rank : s # r => chan'[s] = chan[s]
        /\ r # 0 /\ chan'[0] = chan[0]
    <2>1. chan' = [chan EXCEPT ![r] = Tail(chan[r])] /\ r # 0
      BY <1>2, TailFacts
    <2> QED
      BY <2>1, RankMaps, RankFacts
  <1>6. Most(g)' = Most(g) /\ \A k : Ends(g, k)' = Ends(g, k)
    BY <1>2 DEF Most, Batches, BatchesPerProc, LocalBatch, Ends
  <1>7. Follows(g, r)'
    <2>1. CASE Len(chan[r]) = 1
      <3>1. chan'[r] = <<>>
        BY <1>2, <2>1, TailFacts
      <3>2. CASE g.at = "bcast"
        <4>1. g.param = p + 1 /\ p # P
          BY <1>3, <1>4, <2>1, <3>2 DEF TakesWeights
        <4>2. pc' = pc /\ param' = [param EXCEPT ![r] = p + 1]
          BY <1>2, <4>1 DEF NextParam
        <4> QED
          BY <1>2, <1>3, <1>6, <3>1, <3>2, <4>1, <4>2, RankMaps
          DEF Follows, Here, TakesWeights
      <3>3. CASE g.at = "train"
        <4>1. p = P /\ g.epoch = 0 /\ g.from = 0 /\ g.param = 1
          BY <1>3, <1>4, <2>1, <3>3 DEF TakesWeights
        <4>2. pc' = [pc EXCEPT ![r] = "train"] /\ param' = [param EXCEPT ![r] = 1]
          BY <1>2, <4>1 DEF NextParam, Goto
        <4>3. nbpp[r] = Most(g) /\ nbpp[r] \in Nat /\ batch[r] = 0 /\ epoch[r] = 0
          BY <1>3, RankTypes DEF TakesWeights
        <4>4. Between(g, r)'
          BY <1>2, <1>6, <4>1, <4>2, <4>3, RankMaps DEF Between
        <4> QED
          BY <1>2, <1>3, <3>1, <3>3, <4>1, <4>2, <4>4, RankMaps
          DEF Follows, Here, TakesWeights
      <3> QED
        BY <1>3, <3>2, <3>3 DEF TakesWeights
    <2>2. CASE Len(chan[r]) # 1
      <3>1. /\ chan'[r] # <<>> /\ Len(chan'[r]) = Len(chan[r]) - 1 /\ Len(chan[r]) \in Nat
            /\ DOMAIN chan'[r] = 1 .. Len(chan[r]) - 1
            /\ DOMAIN chan[r] = 1 .. Len(chan[r]) /\ Len(chan[r]) >= 2
            /\ \A i \in 1 .. Len(chan[r]) - 1 : chan'[r][i] = chan[r][i + 1]
        BY <1>2, <2>2, TailFacts
      <3>2. p # P
        BY <1>3, <1>4, <3>1 DEF TakesWeights
      <3>3. pc' = pc /\ param' = [param EXCEPT ![r] = p + 1]
        BY <1>2, <3>2 DEF NextParam
      <3>4. param'[r] = p + 1
        BY <3>3, RankMaps
      <3>5. \A i \in DOMAIN chan'[r] : /\ chan'[r][i].op = "weights"
                                       /\ chan'[r][i].number = param'[r] + i - 1
        <4> SUFFICES ASSUME NEW i \in DOMAIN chan'[r]
                     PROVE  /\ chan'[r][i].op = "weights"
                            /\ chan'[r][i].number = param'[r] + i - 1
          OBVIOUS
        <4>1. i \in Nat /\ i + 1 \in DOMAIN chan[r] /\ chan'[r][i] = chan[r][i + 1]
          BY <3>1
        <4>2. chan[r][i + 1].op = "weights" /\ chan[r][i + 1].number = p + (i + 1) - 1
          BY <1>3, <4>1 DEF TakesWeights
        <4> QED
          BY <1>4, <3>4, <4>1, <4>2
      <3>6. param'[r] + Len(chan'[r]) = p + Len(chan[r])
        <4>1. p \in Nat /\ Len(chan[r]) \in Nat
          BY <1>4, <3>1
        <4>2. Len(chan'[r]) = Len(chan[r]) - 1
          BY <3>1
        <4>3. \A a, b \in Nat : (a + 1) + (b - 1) = a + b
          OBVIOUS
        <4>4. param'[r] + Len(chan'[r]) = (p + 1) + (Len(chan[r]) - 1)
          BY <3>4, <4>2
        <4> QED
          BY <4>1, <4>3, <4>4
      <3> QED
        BY <1>2, <1>3, <1>6, <3>1, <3>3, <3>5, <3>6 DEF Follows, TakesWeights
    <2> QED
      BY <2>1, <2>2
  <1>8. \A s \in Rank : s # r => pc'[s] = pc[s] /\ param'[s] = param[s]
    BY <1>2, RankMaps DEF NextParam, Goto
  <1>9. Agreed(g)'
    BY <1>0, <1>2, <1>5, <1>7, <1>8, LocalAgreed
  <1>10. \A s \in Rank : Ahead(g, s)' = Ahead(g, s)
    <2>1. pc'[r] \in {"bcast", "train"}
      BY <1>2, RankMaps DEF NextParam, Goto
    <2>2. g.at = "train" => batch[r] = g.from /\ g.from = 0
      BY <1>3 DEF TakesWeights
    <2>3. Ahead(g, r) = 0 /\ Ahead(g, r)' = 0
      BY <1>2, <2>1, <2>2 DEF Ahead
    <2> QED
      BY <1>2, <1>8, <2>3 DEF Ahead
  <1>11. w \in [Rank -> Nat] /\ HasMost(g, w) /\ trained[r] <= w[r]
    <2>1. 1 \in DOMAIN chan[r] /\ chan[r][1] \in Packet /\ chan[r][1].op = "weights"
      BY <1>2, ReceivedPackets DEF TypeInv
    <2>2. w \in [Rank -> Nat] /\ HasMost(g, w)
      BY <1>0, <2>1 DEF Shared, Packet
    <2>3. Ahead(g, r) = 0 /\ trained[r] \in Nat
      BY <1>2, RankTypes DEF Ahead
    <2> QED
      BY <2>2, <2>3 DEF HasMost
  <1> HIDE DEF w, p
  <1>12. ASSUME NEW q \in Rank, NEW o \in Param
         PROVE  HasMost(g, know[q][o])' /\ trained'[q] <= know'[q][o][q]
    <2>1. know[q][o] \in [Rank -> Nat] /\ HasMost(g, know[q][o])
          /\ trained[q] <= know[q][o][q]
      BY <1>0 DEF Shared, TypeInv, TypeOK
    <2>2. \/ q = r /\ know'[q][o] = w
          \/ know'[q][o] = know[q][o]
      BY <1>2, <1>4 DEF TypeInv, TypeOK
    <2> QED
      BY <1>2, <1>10, <1>11, <2>1, <2>2 DEF HasMost
  <1>13. ASSUME NEW q \in Rank, NEW i \in DOMAIN chan'[q], chan'[q][i].op = "weights"
         PROVE  HasMost(g, chan[q][i].weights)'
    <2>1. PICK j \in DOMAIN chan[q] : chan'[q][i] = chan[q][j]
      BY <1>2, ReceivedPackets DEF TypeInv
    <2>2. HasMost(g, chan[q][j].weights)
      BY <1>0, <1>13, <2>1 DEF Shared
    <2> QED
      BY <1>2, <1>10, <2>1, <2>2 DEF HasMost
  <1>14. g.at = "train" => g.param = 1
    BY <1>3 DEF TakesWeights
  <1>15. Shared(g)'
    BY <1>12, <1>13, <1>14, AveragingAssumption DEF Shared, Param
  <1> QED
    BY <1>9, <1>15 DEF Lockstep

\* After a call of fit() a rank is where the others are, or will be.
LEMMA FitMeets ==
    ASSUME TypeInv, NEW g \in Agreement, NEW r \in Rank, program' = program,
           AfterFit(r), FitOver(g, fit[r], FALSE), g.param = 1,
           param'[r] = 1, chan'[r] = <<>>, batchesAvg'[r] = g.ba
    PROVE  Here(g, r)' /\ Ahead(g, r)' = 0
  <1>1. CASE fit[r] = Len(program.fits)
    <2>1. g.at = "done" /\ g.fit = fit[r]
      BY <1>1 DEF FitOver
    <2>2. pc'[r] = "done" /\ fit'[r] = fit[r]
      BY <1>1, RankMaps DEF AfterFit, Goto
    <2> QED
      BY <2>1, <2>2 DEF Here, Ahead
  <1>2. CASE fit[r] # Len(program.fits)
    <2>1. g.at = "fit" /\ g.fit = fit[r] + 1
      BY <1>2 DEF FitOver
    <2>2. pc'[r] = "fit" /\ fit'[r] = fit[r] + 1
      BY <1>2, RankMaps DEF AfterFit, Goto
    <2> QED
      BY <2>1, <2>2 DEF Here, Ahead
  <1> QED
    BY <1>1, <1>2

LEMMA StopMeets ==
    ASSUME TypeInv, NEW g \in Agreement, NEW r \in Rank, program' = program,
           NEW stop, Stopping(r, stop), FitOver(g, fit[r], stop = 1), g.param = 1,
           param'[r] = 1, chan'[r] = <<>>, batchesAvg'[r] = g.ba
    PROVE  Here(g, r)' /\ Ahead(g, r)' = 0
  <1>1. CASE stop = 1
    <2>1. g.at = "done" /\ g.fit = fit[r]
      BY <1>1 DEF FitOver
    <2>2. pc'[r] = "done" /\ fit'[r] = fit[r]
      BY <1>1, RankMaps DEF Stopping, Goto
    <2> QED
      BY <2>1, <2>2 DEF Here, Ahead
  <1>2. CASE stop # 1
    <2>1. AfterFit(r) /\ FitOver(g, fit[r], FALSE)
      BY <1>2 DEF Stopping, FitOver
    <2> QED
      BY <2>1, FitMeets
  <1> QED
    BY <1>1, <1>2

LEMMA EpochMeets ==
    ASSUME TypeInv, NEW g \in Agreement, NEW r \in Rank, program' = program,
           NextEpoch(r), EpochOver(g, fit[r], epoch[r]), g.param = 1,
           param'[r] = 1, chan'[r] = <<>>, batchesAvg'[r] = g.ba,
           nbpp'[r] = nbpp[r], nbpp[r] = Batches(fit[r])
    PROVE  Here(g, r)' /\ Ahead(g, r)' = 0
  <1>1. CASE epoch[r] + 1 < program.fits[fit[r]].epochs
    <2>1. g.at = "train" /\ g.fit = fit[r] /\ g.epoch = epoch[r] + 1 /\ g.from = 0
      BY <1>1 DEF EpochOver
    <2>2. pc'[r] = "train" /\ epoch'[r] = epoch[r] + 1 /\ batch'[r] = 0 /\ fit'[r] = fit[r]
      BY <1>1, RankMaps, RankTypes DEF NextEpoch, Goto
    <2>3. Most(g)' = nbpp[r] /\ nbpp[r] \in Nat
      BY <2>1, RankTypes DEF Most, Batches, BatchesPerProc, LocalBatch
    <2>4. Between(g, r)'
      BY <2>1, <2>2, <2>3 DEF Between
    <2> QED
      BY <2>1, <2>2, <2>4 DEF Here, Ahead
  <1>2. CASE ~ (epoch[r] + 1 < program.fits[fit[r]].epochs) /\ program.early
    <2>1. g.at = "early" /\ g.fit = fit[r]
      BY <1>2 DEF EpochOver
    <2>2. pc'[r] = "early" /\ fit'[r] = fit[r]
      BY <1>2, RankMaps DEF NextEpoch, Goto
    <2> QED
      BY <2>1, <2>2 DEF Here, Ahead
  <1>3. CASE ~ (epoch[r] + 1 < program.fits[fit[r]].epochs) /\ ~ program.early
    <2>1. AfterFit(r) /\ FitOver(g, fit[r], FALSE)
      BY <1>3 DEF NextEpoch, EpochOver
    <2> QED
      BY <2>1, FitMeets
  <1> QED
    BY <1>1, <1>2, <1>3

\* NextEpoch() concerns one rank only.
LEMMA OnlyHere ==
    ASSUME TypeInv, NEW r \in Rank, NEW s \in Rank, s # r, AfterFit(r) \/ NextEpoch(r)
                                                         \/ \E stop : Stopping(r, stop)
    PROVE  /\ pc'[s] = pc[s] /\ fit'[s] = fit[s]
           /\ NextEpoch(r) => epoch'[s] = epoch[s] /\ batch'[s] = batch[s]
  <1>1. AfterFit(r) => pc'[s] = pc[s] /\ fit'[s] = fit[s]
    BY RankMaps DEF AfterFit, Goto
  <1>2. NextEpoch(r) => /\ pc'[s] = pc[s] /\ fit'[s] = fit[s]
                        /\ epoch'[s] = epoch[s] /\ batch'[s] = batch[s]
    BY <1>1, RankMaps DEF NextEpoch, Goto
  <1>3. (\E stop : Stopping(r, stop)) => pc'[s] = pc[s] /\ fit'[s] = fit[s]
    BY <1>1, RankMaps DEF Stopping, Goto
  <1> QED
    BY <1>1, <1>2, <1>3

LEMMA IntervalLockstep ==
    ASSUME TypeInv, TypeInv', Lockstep, NEW r \in Rank, ReceiveInterval(r)
    PROVE  Lockstep'
  <1>0. PICK g \in Agreement : Agreed(g) /\ Shared(g)
    BY DEF Lockstep
  <1>1. Follows(g, r)
    BY <1>0 DEF Agreed
  <1>2. /\ pc[r] = "interval" /\ Receive(r, "interval")
        /\ batchesAvg' = [batchesAvg EXCEPT ![r] = chan[r][1].number]
        /\ NextEpoch(r)
        /\ UNCHANGED <<program, param, nbpp, trained, know>>
    BY TailFacts DEF ReceiveInterval, weightVars
  <1>3. TakesInterval(g, r)
    BY <1>1, <1>2, Whereabouts DEF Here, Receive
  <1>4. /\ chan' = [chan EXCEPT ![r] = Tail(chan[r])] /\ r # 0
        /\ Len(chan[r]) = 1 => chan'[r] = <<>>
        /\ Len(chan[r]) = 2 => Len(chan'[r]) = 1 /\ chan'[r][1] = chan[r][2]
    <2>1. /\ chan' = [chan EXCEPT ![r] = Tail(chan[r])] /\ r # 0
          /\ Len(chan[r]) = 1 => chan'[r] = <<>>
          /\ Len(chan[r]) \in Nat /\ Len(chan'[r]) = Len(chan[r]) - 1
          /\ \A i \in 1 .. Len(chan[r]) - 1 : chan'[r][i] = chan[r][i + 1]
      BY <1>2, TailFacts
    <2>2. ASSUME Len(chan[r]) = 2 PROVE Len(chan'[r]) = 1 /\ chan'[r][1] = chan[r][2]
      <3>1. 1 \in 1 .. Len(chan[r]) - 1 /\ 1 + 1 = 2
        BY <2>2
      <3>2. Len(chan'[r]) = 1
        BY <2>1, <2>2
      <3> QED
        BY <2>1, <3>1, <3>2
    <2> QED
      BY <2>1, <2>2
  <1>5. param'[r] = 1 /\ g.param = 1 /\ batchesAvg'[r] = g.ba /\ nbpp'[r] = nbpp[r]
        /\ nbpp[r] = Batches(fit[r]) /\ Ahead(g, r) = 0
    BY <1>2, <1>3, RankMaps DEF TakesInterval, Ahead
  <1>6. Follows(g, r)' /\ Ahead(g, r)' = 0
    <2>1. CASE Len(chan[r]) = 1
      <3>1. EpochOver(g, fit[r], epoch[r])
        BY <1>3, <2>1 DEF TakesInterval
      <3>2. Here(g, r)' /\ Ahead(g, r)' = 0
        BY <1>2, <1>4, <1>5, <2>1, <3>1, EpochMeets
      <3> QED
        BY <3>2 DEF Follows
    <2>2. CASE Len(chan[r]) = 2
      <3>1. /\ ~ (epoch[r] + 1 < program.fits[fit[r]].epochs) /\ program.early
            /\ chan[r][2].op = "stop" /\ FitOver(g, fit[r], chan[r][2].number = 1)
        BY <1>3, <2>2 DEF TakesInterval
      <3>2. pc'[r] = "early" /\ fit'[r] = fit[r]
        BY <1>2, <3>1, RankMaps DEF NextEpoch, Goto
      <3>3. FitOver(g, fit[r], chan[r][1].number = 1)'
        BY <1>2, <1>4, <2>2, <3>1, <3>2 DEF FitOver
      <3>4. TakesStop(g, r)'
        BY <1>4, <1>5, <2>2, <3>1, <3>2, <3>3 DEF TakesStop
      <3> QED
        BY <3>2, <3>4 DEF Follows, Ahead
    <2> QED
      BY <1>3, <2>1, <2>2 DEF TakesInterval
  <1>7. \A s \in Rank : s # r =>
            /\ pc'[s] = pc[s] /\ fit'[s] = fit[s] /\ epoch'[s] = epoch[s]
            /\ batch'[s] = batch[s] /\ param'[s] = param[s] /\ nbpp'[s] = nbpp[s]
            /\ batchesAvg'[s] = batchesAvg[s] /\ chan'[s] = chan[s]
    BY <1>2, <1>4, OnlyHere, RankMaps
  <1>8. \A i \in DOMAIN chan'[r] : \E j \in DOMAIN chan[r] : chan'[r][i] = chan[r][j]
    BY <1>2, ReceivedPackets DEF TypeInv
  <1> QED
    BY <1>0, <1>2, <1>4, <1>5, <1>6, <1>7, <1>8, LocalLockstep, RankFacts

LEMMA StopLockstep ==
    ASSUME TypeInv, TypeInv', Lockstep, NEW r \in Rank, ReceiveStop(r)
    PROVE  Lockstep'
  <1>0. PICK g \in Agreement : Agreed(g) /\ Shared(g)
    BY DEF Lockstep
  <1>1. Follows(g, r)
    BY <1>0 DEF Agreed
  <1>2. /\ pc[r] = "early" /\ Receive(r, "stop")
        /\ Stopping(r, chan[r][1].number)
        /\ UNCHANGED <<program, epoch, batch, param, nbpp, batchesAvg, trained, know>>
    BY TailFacts DEF ReceiveStop, weightVars
  <1>3. TakesStop(g, r)
    BY <1>1, <1>2, Whereabouts DEF Here, Receive
  <1>4. /\ chan' = [chan EXCEPT ![r] = Tail(chan[r])] /\ r # 0 /\ chan'[r] = <<>>
    BY <1>2, <1>3, TailFacts DEF TakesStop
  <1>5. Here(g, r)' /\ Ahead(g, r)' = 0 /\ Ahead(g, r) = 0
    BY <1>2, <1>3, <1>4, StopMeets DEF TakesStop, Ahead
  <1>6. \A s \in Rank : s # r =>
            /\ pc'[s] = pc[s] /\ fit'[s] = fit[s] /\ epoch'[s] = epoch[s]
            /\ batch'[s] = batch[s] /\ param'[s] = param[s] /\ nbpp'[s] = nbpp[s]
            /\ batchesAvg'[s] = batchesAvg[s] /\ chan'[s] = chan[s]
    BY <1>2, <1>4, OnlyHere, RankMaps
  <1>7. \A i \in DOMAIN chan'[r] : \E j \in DOMAIN chan[r] : chan'[r][i] = chan[r][j]
    BY <1>2, ReceivedPackets DEF TypeInv
  <1> QED
    BY <1>0, <1>2, <1>4, <1>5, <1>6, <1>7, LocalLockstep, RankFacts DEF Follows

-----------------------------------------------------------------------------
(* Broadcasting.                                                             *)

LEMMA AppendOf ==
    ASSUME NEW S, NEW q \in Seq(S), NEW x \in S
    PROVE  /\ Append(q, x) # <<>> /\ Len(q) \in Nat /\ Len(Append(q, x)) = Len(q) + 1
           /\ DOMAIN Append(q, x) = 1 .. Len(q) + 1 /\ DOMAIN q = 1 .. Len(q)
           /\ \A i \in 1 .. Len(q) : Append(q, x)[i] = q[i]
           /\ Append(q, x)[Len(q) + 1] = x
  OBVIOUS

LEMMA BroadcastFacts ==
    ASSUME TypeInv, NEW op \in {"weights", "interval", "stop"},
           NEW weights \in [Rank -> Nat], NEW number \in Nat,
           Broadcast(op, weights, number), NEW s \in Rank, s # 0
    PROVE  /\ chan'[s] # <<>> /\ Len(chan[s]) \in Nat /\ Len(chan'[s]) = Len(chan[s]) + 1
           /\ DOMAIN chan'[s] = 1 .. Len(chan[s]) + 1 /\ DOMAIN chan[s] = 1 .. Len(chan[s])
           /\ \A i \in 1 .. Len(chan[s]) : chan'[s][i] = chan[s][i]
           /\ chan'[s][Len(chan[s]) + 1].op = op
           /\ chan'[s][Len(chan[s]) + 1].number = number
           /\ chan'[s][Len(chan[s]) + 1].weights = weights
           /\ chan[s] = <<>> => Len(chan[s]) = 0
  <1> DEFINE new == [op |-> op, weights |-> weights, number |-> number]
  <1>1. new \in Packet /\ new.op = op /\ new.number = number /\ new.weights = weights
    BY DEF Packet
  <1>2. chan'[s] = Append(chan[s], new) /\ chan[s] \in Seq(Packet)
    BY RankTypes DEF Broadcast
  <1>3. chan[s] = <<>> => Len(chan[s]) = 0
    OBVIOUS
  <1> HIDE DEF new
  <1> QED
    BY <1>1, <1>2, <1>3, AppendOf

\* Where those are for whom something is under way.
LEMMA TakersAt ==
    ASSUME NEW g \in Agreement, NEW r \in Rank
    PROVE  /\ TakesWeights(g, r) => g.at \in {"bcast", "train"}
           /\ TakesInterval(g, r) => g.at \in {"train", "early", "fit", "done"}
           /\ TakesStop(g, r) => g.at \in {"fit", "done"}
           /\ TakesInterval(g, r) /\ g.at = "early" => Len(chan[r]) = 1
  <1>1. TakesWeights(g, r) => g.at \in {"bcast", "train"}
    BY DEF TakesWeights
  <1>2. \A f, stop : FitOver(g, f, stop) => g.at \in {"fit", "done"}
    BY DEF FitOver
  <1>3. \A f, e : EpochOver(g, f, e) => g.at \in {"train", "early", "fit", "done"}
    BY <1>2 DEF EpochOver
  <1>4. TakesInterval(g, r) => g.at \in {"train", "early", "fit", "done"}
    BY <1>2, <1>3 DEF TakesInterval
  <1>5. TakesInterval(g, r) /\ g.at = "early" => Len(chan[r]) = 1
    BY <1>2 DEF TakesInterval
  <1>6. TakesStop(g, r) => g.at \in {"fit", "done"}
    BY <1>2 DEF TakesStop
  <1> QED
    BY <1>1, <1>4, <1>5, <1>6

LEMMA FitLeads ==
    ASSUME NEW f \in Nat, NEW n \in Nat
    PROVE  \E h \in Agreement : FitOver(h, f, FALSE) /\ h.param = 1 /\ h.ba = n /\ h.from = 0
  <1>1. \E h \in Agreement : /\ h.at = "done" /\ h.fit = f
                             /\ h.param = 1 /\ h.ba = n /\ h.from = 0
    <2>1. \E h \in Agreement : /\ h.at = "done" /\ h.fit = f /\ h.epoch = 0
                               /\ h.from = 0 /\ h.param = 1 /\ h.ba = n
      <3> DEFINE h == Position("done", f, 0, 0, 1, n)
      <3>1. "done" \in Stages
        BY DEF Stages
      <3>2. /\ h \in Agreement
            /\ h.at = "done" /\ h.fit = f
            /\ h.epoch = 0 /\ h.from = 0 /\ h.param = 1 /\ h.ba = n
        BY <3>1 DEF Position, Agreement
      <3> HIDE DEF h
      <3> QED
        BY <3>2
    <2> QED
      BY <2>1
  <1>2. \E h \in Agreement : /\ h.at = "fit" /\ h.fit = f + 1
                             /\ h.param = 1 /\ h.ba = n /\ h.from = 0
    <2>0. f + 1 \in Nat
      OBVIOUS
    <2>1. \E h \in Agreement : /\ h.at = "fit" /\ h.fit = f + 1 /\ h.epoch = 0
                               /\ h.from = 0 /\ h.param = 1 /\ h.ba = n
      <3> DEFINE h == Position("fit", f + 1, 0, 0, 1, n)
      <3>1. "fit" \in Stages
        BY DEF Stages
      <3>2. /\ h \in Agreement
            /\ h.at = "fit" /\ h.fit = f + 1
            /\ h.epoch = 0 /\ h.from = 0 /\ h.param = 1 /\ h.ba = n
        BY <2>0, <3>1 DEF Position, Agreement
      <3> HIDE DEF h
      <3> QED
        BY <3>2
    <2> QED
      BY <2>1
  <1> QED
    BY <1>1, <1>2 DEF FitOver

LEMMA EpochLeads ==
    ASSUME NEW f \in Nat, NEW e \in Nat, NEW n \in Nat
    PROVE  \E h \in Agreement : EpochOver(h, f, e) /\ h.param = 1 /\ h.ba = n /\ h.from = 0
  <1>1. CASE e + 1 < program.fits[f].epochs
    <2>0. e + 1 \in Nat
      OBVIOUS
    <2>1. \E h \in Agreement : /\ h.at = "train" /\ h.fit = f /\ h.epoch = e + 1
                               /\ h.from = 0 /\ h.param = 1 /\ h.ba = n
      <3> DEFINE h == Position("train", f, e + 1, 0, 1, n)
      <3>1. "train" \in Stages
        BY DEF Stages
      <3>2. /\ h \in Agreement
            /\ h.at = "train" /\ h.fit = f
            /\ h.epoch = e + 1 /\ h.from = 0 /\ h.param = 1 /\ h.ba = n
        BY <2>0, <3>1 DEF Position, Agreement
      <3> HIDE DEF h
      <3> QED
        BY <3>2
    <2> QED
      BY <1>1, <2>1 DEF EpochOver
  <1>2. CASE ~ (e + 1 < program.fits[f].epochs) /\ program.early
    <2>1. \E h \in Agreement : /\ h.at = "early" /\ h.fit = f /\ h.epoch = 0
                               /\ h.from = 0 /\ h.param = 1 /\ h.ba = n
      <3> DEFINE h == Position("early", f, 0, 0, 1, n)
      <3>1. "early" \in Stages
        BY DEF Stages
      <3>2. /\ h \in Agreement
            /\ h.at = "early" /\ h.fit = f
            /\ h.epoch = 0 /\ h.from = 0 /\ h.param = 1 /\ h.ba = n
        BY <3>1 DEF Position, Agreement
      <3> HIDE DEF h
      <3> QED
        BY <3>2
    <2> QED
      BY <1>2, <2>1 DEF EpochOver
  <1>3. CASE ~ (e + 1 < program.fits[f].epochs) /\ ~program.early
    <2>1. PICK h \in Agreement : FitOver(h, f, FALSE) /\ h.param = 1 /\ h.ba = n /\ h.from = 0
      BY FitLeads
    <2> QED
      BY <1>3, <2>1 DEF EpochOver
  <1> QED
    BY <1>1, <1>2, <1>3

LEMMA SendLockstep ==
    ASSUME TypeInv, TypeInv', Lockstep, SendWeights PROVE Lockstep'
  <1>0. PICK g \in Agreement : Agreed(g) /\ Shared(g)
    BY DEF Lockstep
  <1>a. PICK p \in Param : p = param[0]
    BY RankFacts, RankTypes
  <1>b. 0 \in Rank /\ p \in Nat /\ P \in Nat /\ p <= P
    BY RankFacts, AveragingAssumption DEF Param
  <1>c. PICK w \in [Rank -> Nat] : w = know[0][p]
    BY ZenonT(40), <1>b DEF TypeInv, TypeOK
  <1>1. /\ pc[0] = "bcast" /\ Broadcast("weights", w, p)
        /\ NextParam(0, "train")
        /\ UNCHANGED <<program, fit, epoch, batch, nbpp, batchesAvg, trained, know>>
    BY <1>a, <1>c DEF SendWeights, weightVars
  <1>2. 0 \in Rank /\ p \in Param /\ p = param[0] /\ p \in Nat /\ P \in Nat /\ p <= P
    BY <1>a, <1>b
  <1>3. Here(g, 0) /\ g.at = "bcast" /\ g.param = p
    <2>1. Here(g, 0)
      BY <1>0, <1>2, Whereabouts DEF Agreed
    <2>2. (Here(g, 0) /\ g.at = "bcast") \/ TakesWeights(g, 0)
      BY <1>0, <1>1, <1>2, Whereabouts DEF Agreed
    <2> QED
      BY <1>2, <2>1, <2>2 DEF Here, TakesWeights
  <1>4. PICK h \in Agreement :
            /\ h.fit = g.fit /\ h.ba = g.ba /\ h.epoch = 0 /\ h.from = 0
            /\ p = P => h.at = "train" /\ h.param = 1
            /\ p # P => h.at = "bcast" /\ h.param = p + 1
    <2>1. CASE p = P
      <3>1. \E h \in Agreement : /\ h.at = "train" /\ h.fit = g.fit /\ h.epoch = 0
                                 /\ h.from = 0 /\ h.param = 1 /\ h.ba = g.ba
        <4> DEFINE h == Position("train", g.fit, 0, 0, 1, g.ba)
        <4>1. "train" \in Stages
          BY DEF Stages
        <4>2. /\ h \in Agreement
              /\ h.at = "train" /\ h.fit = g.fit
              /\ h.epoch = 0 /\ h.from = 0 /\ h.param = 1 /\ h.ba = g.ba
          BY AgreementFacts, <4>1 DEF Position, Agreement
        <4> HIDE DEF h
        <4> QED
          BY <4>2
      <3> QED
        BY <2>1, <3>1
    <2>2. CASE p # P
      <3>0. p + 1 \in Nat
        BY <1>2
      <3>1. \E h \in Agreement : /\ h.at = "bcast" /\ h.fit = g.fit /\ h.epoch = 0
                                 /\ h.from = 0 /\ h.param = p + 1 /\ h.ba = g.ba
        <4> DEFINE h == Position("bcast", g.fit, 0, 0, p + 1, g.ba)
        <4>1. "bcast" \in Stages
          BY DEF Stages
        <4>2. /\ h \in Agreement
              /\ h.at = "bcast" /\ h.fit = g.fit
              /\ h.epoch = 0 /\ h.from = 0 /\ h.param = p + 1 /\ h.ba = g.ba
          BY <3>0, AgreementFacts, <4>1 DEF Position, Agreement
        <4> HIDE DEF h
        <4> QED
          BY <4>2
      <3> QED
        BY <2>2, <3>1
    <2> QED
      BY <2>1, <2>2
  <1>5. Most(h)' = Most(g) /\ chan'[0] = <<>>
    BY <1>0, <1>1, <1>2, <1>4 DEF Most, Batches, BatchesPerProc, LocalBatch, Broadcast, Agreed
  <1>6. Here(h, 0)' /\ Ahead(h, 0)' = 0
    <2>1. nbpp[0] = Most(g) /\ nbpp[0] \in Nat /\ batch[0] = 0 /\ epoch[0] = 0
          /\ fit[0] = g.fit /\ batchesAvg[0] = g.ba
      BY <1>2, <1>3, RankTypes DEF Here
    <2>2. CASE p = P
      <3>1. pc'[0] = "train" /\ param'[0] = 1
        BY <1>1, <1>2, <2>2, RankMaps DEF NextParam, Goto
      <3>2. Between(h, 0)'
        BY <1>1, <1>4, <1>5, <2>1, <2>2, <3>1 DEF Between
      <3> QED
        BY <1>1, <1>4, <1>5, <2>1, <2>2, <3>1, <3>2 DEF Here, Ahead
    <2>3. CASE p # P
      <3>1. pc'[0] = "bcast" /\ param'[0] = p + 1
        BY <1>1, <1>2, <2>3, RankMaps DEF NextParam
      <3> QED
        BY <1>1, <1>4, <1>5, <2>1, <2>3, <3>1 DEF Here, Ahead
    <2> QED
      BY <2>2, <2>3
  <1>7. ASSUME NEW s \in Rank, s # 0
        PROVE  TakesWeights(h, s)' /\ pc'[s] = "bcast"
    <2>1. /\ pc[s] = "bcast" /\ fit[s] = g.fit /\ batchesAvg[s] = g.ba /\ nbpp[s] = Most(g)
          /\ epoch[s] = 0 /\ batch[s] = 0 /\ p = param[s] + Len(chan[s])
          /\ \A i \in DOMAIN chan[s] : /\ chan[s][i].op = "weights"
                                       /\ chan[s][i].number = param[s] + i - 1
      <3>1. Here(g, s) \/ TakesWeights(g, s)
        BY <1>0, <1>3, TakersAt DEF Agreed, Follows
      <3>2. ASSUME Here(g, s) PROVE Len(chan[s]) = 0 /\ DOMAIN chan[s] = {} /\ param[s] = p
        BY <1>3, <3>2 DEF Here
      <3>3. param[s] \in Nat
        BY RankTypes
      <3> QED
        BY <1>3, <3>1, <3>2, <3>3 DEF Here, TakesWeights
    <2>2. /\ chan'[s] # <<>> /\ Len(chan[s]) \in Nat /\ Len(chan'[s]) = Len(chan[s]) + 1
          /\ DOMAIN chan'[s] = 1 .. Len(chan[s]) + 1 /\ DOMAIN chan[s] = 1 .. Len(chan[s])
          /\ \A i \in 1 .. Len(chan[s]) : chan'[s][i] = chan[s][i]
          /\ chan'[s][Len(chan[s]) + 1].op = "weights"
          /\ chan'[s][Len(chan[s]) + 1].number = p
      BY SMTT(30), <1>1, <1>2, <1>7, BroadcastFacts
    <2>3. pc'[s] = pc[s] /\ param'[s] = param[s] /\ param[s] \in Nat
      BY <1>1, <1>7, RankMaps, RankTypes DEF NextParam, Goto
    <2>4. \A i \in DOMAIN chan'[s] : /\ chan'[s][i].op = "weights"
                                     /\ chan'[s][i].number = param'[s] + i - 1
      <3> SUFFICES ASSUME NEW i \in DOMAIN chan'[s]
                   PROVE  /\ chan'[s][i].op = "weights"
                          /\ chan'[s][i].number = param'[s] + i - 1
        OBVIOUS
      <3>1. CASE i = Len(chan[s]) + 1
        BY <2>1, <2>2, <2>3, <3>1
      <3>2. CASE i # Len(chan[s]) + 1
        <4>1. i \in 1 .. Len(chan[s])
          BY <2>2, <3>2
        <4> QED
          BY <2>1, <2>2, <2>3, <4>1
      <3> QED
        BY <3>1, <3>2
    <2>5. param'[s] + Len(chan'[s]) = p + 1
      BY <1>2, <2>1, <2>2, <2>3
    <2> QED
      BY <1>1, <1>4, <1>5, <1>7, <2>1, <2>2, <2>3, <2>4, <2>5 DEF TakesWeights
  <1>8. Agreed(h)'
    <2>1. h.param \in Param
      BY <1>2, <1>4, AveragingAssumption DEF Param
    <2> QED
      BY <1>4, <1>5, <1>6, <1>7, <2>1 DEF Agreed, Follows
  <1>9. NoneBehind(g, h)
    <2>1. \A s \in Rank : Ahead(g, s) = 0
      BY <1>3 DEF Ahead
    <2>2. \A s \in Rank : Ahead(h, s)' = 0
      BY <1>6, <1>7 DEF Ahead
    <2> QED
      BY <2>1, <2>2 DEF NoneBehind
  <1>10. ASSUME NEW s \in Rank, NEW i \in DOMAIN chan'[s]
         PROVE  \/ \E j \in DOMAIN chan[s] : chan'[s][i] = chan[s][j]
                \/ \E o \in Param : chan'[s][i].weights = know[0][o]
    <2>1. NewPacket("weights", w, p).weights = w
      BY DEF NewPacket
    <2>2. \/ i \in DOMAIN chan[s] /\ chan'[s][i] = chan[s][i]
          \/ chan'[s][i] = NewPacket("weights", w, p)
      BY <1>1, <1>2, SentPackets DEF TypeInv
    <2> QED
      BY <1>2, <1>c, <2>1, <2>2
  <1>11. Shared(h)'
    <2>1. h.at = "train" => h.param = 1
      BY <1>4
    <2>2. trained' = trained /\ know' = know
      BY <1>1
    <2>3. OldPackets
      BY <1>10 DEF OldPackets
    <2> QED
      BY <1>0, <1>9, <2>1, <2>2, <2>3, KeepsShared
  <1> QED
    BY <1>8, <1>11 DEF Lockstep

LEMMA UpdateLockstep ==
    ASSUME TypeInv, TypeInv', Lockstep, UpdateInterval PROVE Lockstep'
  <1>0. PICK g \in Agreement : Agreed(g) /\ Shared(g)
    BY DEF Lockstep
  <1>1. PICK ba \in NewIntervals(batchesAvg[0], epoch[0], nbpp[0]) :
            /\ batchesAvg' = [batchesAvg EXCEPT ![0] = ba]
            /\ Broadcast("interval", Nothing, ba)
    BY DEF UpdateInterval
  <1>2. /\ pc[0] = "interval" /\ NextEpoch(0)
        /\ UNCHANGED <<program, param, nbpp, trained, know>>
    BY DEF UpdateInterval, weightVars
  <1>3. 0 \in Rank /\ fit[0] \in Nat /\ epoch[0] \in Nat /\ Nothing \in [Rank -> Nat]
    BY RankFacts, RankTypes DEF Nothing
  <1>4. ba \in Nat
    <2>1. program \in Programs /\ batchesAvg[0] \in Nat /\ nbpp[0] \in Nat
      BY <1>3, RankTypes DEF TypeInv, TypeOK
    <2> QED
      BY <1>3, <2>1, IntervalBounds DEF UpdateInterval
  <1>5. Here(g, 0) /\ g.at = "interval" /\ g.param = 1
    <2>1. Here(g, 0) /\ ((Here(g, 0) /\ g.at = "interval") \/ TakesInterval(g, 0))
      BY <1>0, <1>2, <1>3, Whereabouts DEF Agreed
    <2> QED
      BY <2>1 DEF Here, TakesInterval
  <1>6. PICK h \in Agreement : /\ EpochOver(h, fit[0], epoch[0])
                               /\ h.param = 1 /\ h.ba = ba /\ h.from = 0
    BY <1>3, <1>4, EpochLeads
  <1>7. chan'[0] = <<>> /\ param'[0] = 1 /\ batchesAvg'[0] = h.ba /\ nbpp'[0] = nbpp[0]
        /\ nbpp[0] = Batches(fit[0])
    BY <1>1, <1>2, <1>3, <1>5, <1>6, RankMaps DEF Here, Broadcast, Most
  <1>8. Here(h, 0)' /\ Ahead(h, 0)' = 0
    BY <1>2, <1>3, <1>6, <1>7, EpochMeets
  <1>9. ASSUME NEW s \in Rank, s # 0
        PROVE  TakesInterval(h, s)' /\ pc'[s] = "interval"
    <2>1. Here(g, s)
      BY <1>0, <1>5, TakersAt DEF Agreed, Follows
    <2>2. /\ chan[s] = <<>> /\ pc[s] = "interval" /\ param[s] = 1
          /\ nbpp[s] = Batches(fit[s]) /\ fit[s] = fit[0] /\ epoch[s] = epoch[0]
      BY <1>5, <1>9, <2>1 DEF Here, Most
    <2>3. Len(chan'[s]) = 1 /\ chan'[s][1].op = "interval" /\ chan'[s][1].number = ba
      <3>1. /\ chan'[s][Len(chan[s]) + 1].op = "interval"
            /\ chan'[s][Len(chan[s]) + 1].number = ba
            /\ Len(chan'[s]) = Len(chan[s]) + 1
            /\ chan[s] = <<>> => Len(chan[s]) = 0
        BY <1>1, <1>3, <1>4, <1>9, BroadcastFacts
      <3> QED
        BY <2>2, <3>1
    <2>4. /\ pc'[s] = pc[s] /\ fit'[s] = fit[s] /\ epoch'[s] = epoch[s]
          /\ param'[s] = param[s] /\ nbpp'[s] = nbpp[s]
      BY <1>2, <1>3, <1>9, OnlyHere
    <2>5. EpochOver(h, fit[s], epoch[s])'
      BY <1>2, <1>6, <2>2, <2>4 DEF EpochOver, FitOver
    <2>6. Batches(fit[s])' = nbpp[s]
      BY <1>2, <2>2, <2>4 DEF Batches, BatchesPerProc, LocalBatch
    <2> QED
      BY <1>6, <1>9, <2>2, <2>3, <2>4, <2>5, <2>6 DEF TakesInterval
  <1>10. Agreed(h)'
    BY <1>6, <1>7, <1>8, <1>9, RankFacts DEF Agreed, Follows
  <1>11. NoneBehind(g, h)
    <2>1. \A s \in Rank : Ahead(g, s) = 0
      BY <1>5 DEF Ahead
    <2>2. \A s \in Rank : Ahead(h, s)' = 0
      BY <1>8, <1>9 DEF Ahead
    <2> QED
      BY <2>1, <2>2 DEF NoneBehind
  <1>12. OldPackets
    <2> SUFFICES ASSUME NEW s \in Rank, NEW i \in DOMAIN chan'[s],
                        chan'[s][i].op = "weights"
                 PROVE  \E j \in DOMAIN chan[s] : chan'[s][i] = chan[s][j]
      BY DEF OldPackets
    <2>1. NewPacket("interval", Nothing, ba).op = "interval"
      BY DEF NewPacket
    <2>2. \/ i \in DOMAIN chan[s] /\ chan'[s][i] = chan[s][i]
          \/ chan'[s][i] = NewPacket("interval", Nothing, ba)
      BY <1>1, <1>3, <1>4, SentPackets DEF TypeInv
    <2> QED
      BY <2>1, <2>2
  <1>13. Shared(h)'
    BY <1>0, <1>2, <1>6, <1>11, <1>12, KeepsShared
  <1> QED
    BY <1>10, <1>13 DEF Lockstep

LEMMA DecideLockstep ==
    ASSUME TypeInv, TypeInv', Lockstep, DecideStop PROVE Lockstep'
  <1>0. PICK g \in Agreement : Agreed(g) /\ Shared(g)
    BY DEF Lockstep
  <1>1. PICK stop \in {0, 1} : Broadcast("stop", Nothing, stop) /\ Stopping(0, stop)
    BY DEF DecideStop
  <1>2. /\ pc[0] = "early"
        /\ UNCHANGED <<program, epoch, batch, param, nbpp, batchesAvg, trained, know>>
    BY DEF DecideStop, weightVars
  <1>3. 0 \in Rank /\ fit[0] \in Nat /\ Nothing \in [Rank -> Nat] /\ stop \in Nat
    BY RankFacts, RankTypes DEF Nothing
  <1>4. Here(g, 0) /\ g.at = "early" /\ g.param = 1
    <2>1. Here(g, 0) /\ ((Here(g, 0) /\ g.at = "early") \/ TakesStop(g, 0))
      BY <1>0, <1>2, <1>3, Whereabouts DEF Agreed
    <2> QED
      BY <2>1 DEF Here, TakesStop
  <1>5. PICK h \in Agreement : /\ FitOver(h, fit[0], stop = 1)
                               /\ h.param = 1 /\ h.ba = g.ba /\ h.from = 0
    <2>1. PICK n \in Nat, f \in Nat : n = g.ba /\ f = fit[0]
      BY <1>3, AgreementFacts
    <2>2. CASE stop = 1
      <3>1. PICK h \in Agreement : /\ h.at = "done" /\ h.fit = f
                                   /\ h.param = 1 /\ h.ba = n /\ h.from = 0
        <4> DEFINE d == Position("done", f, 0, 0, 1, n)
        <4>1. /\ d \in Agreement /\ d.at = "done" /\ d.fit = f
              /\ d.param = 1 /\ d.ba = n /\ d.from = 0
          BY DEF Position, Agreement, Stages
        <4> HIDE DEF d
        <4> QED
          BY <4>1
      <3> QED
        BY <2>1, <2>2, <3>1 DEF FitOver
    <2>3. CASE stop # 1
      <3>1. PICK h \in Agreement : FitOver(h, f, FALSE) /\ h.param = 1 /\ h.ba = n /\ h.from = 0
        BY FitLeads
      <3> QED
        BY <2>1, <2>3, <3>1 DEF FitOver
    <2> QED
      BY <2>2, <2>3
  <1>6. chan'[0] = <<>> /\ param'[0] = 1 /\ batchesAvg'[0] = h.ba
    BY <1>1, <1>2, <1>3, <1>4, <1>5 DEF Here, Broadcast
  <1>7. Here(h, 0)' /\ Ahead(h, 0)' = 0
    BY <1>1, <1>2, <1>3, <1>5, <1>6, StopMeets
  <1>8. h.at \in {"fit", "done"}
    BY <1>5 DEF FitOver
  <1>9. ASSUME NEW s \in Rank, s # 0
        PROVE  TakesInterval(h, s)' \/ TakesStop(h, s)'
    <2>1. /\ pc'[s] = pc[s] /\ fit'[s] = fit[s] /\ epoch'[s] = epoch[s]
          /\ param'[s] = param[s] /\ nbpp'[s] = nbpp[s] /\ batchesAvg'[s] = batchesAvg[s]
      BY <1>1, <1>2, <1>3, <1>9, OnlyHere
    <2>2. /\ Len(chan[s]) \in Nat /\ Len(chan'[s]) = Len(chan[s]) + 1
          /\ \A i \in 1 .. Len(chan[s]) : chan'[s][i] = chan[s][i]
          /\ chan'[s][Len(chan[s]) + 1].op = "stop"
          /\ chan'[s][Len(chan[s]) + 1].number = stop
          /\ chan[s] = <<>> => Len(chan[s]) = 0
      BY <1>1, <1>3, <1>9, BroadcastFacts
    <2>3. CASE Here(g, s)
      <3>1. /\ chan[s] = <<>> /\ pc[s] = "early" /\ param[s] = 1 /\ fit[s] = fit[0]
            /\ batchesAvg[s] = g.ba
        BY <1>4, <2>3 DEF Here
      <3>2. Len(chan'[s]) = 1 /\ chan'[s][1].op = "stop" /\ chan'[s][1].number = stop
        BY <2>2, <3>1
      <3>3. FitOver(h, fit[s], chan[s][1].number = 1)'
        BY <1>2, <1>5, <2>1, <3>1, <3>2 DEF FitOver
      <3> QED
        BY <1>5, <1>9, <2>1, <3>1, <3>2, <3>3 DEF TakesStop
    <2>4. CASE TakesInterval(g, s)
      <3>1. /\ pc[s] = "interval" /\ param[s] = 1 /\ nbpp[s] = Batches(fit[s])
            /\ Len(chan[s]) = 1 /\ chan[s][1].op = "interval" /\ chan[s][1].number = g.ba
            /\ EpochOver(g, fit[s], epoch[s])
        BY <1>4, <2>4, TakersAt DEF TakesInterval
      <3>2. /\ ~ (epoch[s] + 1 < program.fits[fit[s]].epochs) /\ program.early
            /\ fit[s] = fit[0]
        BY <1>4, <3>1 DEF EpochOver, FitOver, Here
      <3>3. /\ Len(chan'[s]) = 2 /\ chan'[s][1].op = "interval" /\ chan'[s][1].number = g.ba
            /\ chan'[s][2].op = "stop" /\ chan'[s][2].number = stop
        BY <2>2, <3>1
      <3>4. FitOver(h, fit[s], chan[s][2].number = 1)'
        BY <1>2, <1>5, <2>1, <3>2, <3>3 DEF FitOver
      <3>5. Batches(fit[s])' = nbpp[s]
        BY <1>2, <2>1, <3>1 DEF Batches, BatchesPerProc, LocalBatch
      <3> QED
        BY <1>2, <1>5, <1>9, <2>1, <3>1, <3>2, <3>3, <3>4, <3>5 DEF TakesInterval
    <2> QED
      BY <1>0, <1>4, <2>3, <2>4, TakersAt DEF Agreed, Follows
  <1>10. Agreed(h)'
    BY <1>5, <1>6, <1>7, <1>8, <1>9, RankFacts DEF Agreed, Follows
  <1>11. NoneBehind(g, h)
    BY <1>4, <1>8 DEF NoneBehind, Ahead
  <1>12. OldPackets
    <2> SUFFICES ASSUME NEW s \in Rank, NEW i \in DOMAIN chan'[s],
                        chan'[s][i].op = "weights"
                 PROVE  \E j \in DOMAIN chan[s] : chan'[s][i] = chan[s][j]
      BY DEF OldPackets
    <2>1. NewPacket("stop", Nothing, stop).op = "stop"
      BY DEF NewPacket
    <2>2. \/ i \in DOMAIN chan[s] /\ chan'[s][i] = chan[s][i]
          \/ chan'[s][i] = NewPacket("stop", Nothing, stop)
      BY <1>1, <1>3, SentPackets DEF TypeInv
    <2> QED
      BY <2>1, <2>2
  <1>13. Shared(h)'
    BY <1>0, <1>2, <1>5, <1>11, <1>12, KeepsShared
  <1> QED
    BY <1>10, <1>13 DEF Lockstep

LEMMA FailLockstep ==
    ASSUME TypeInv, TypeInv', Lockstep, UpdateFails PROVE Lockstep'
  <1>0. PICK g \in Agreement : Agreed(g) /\ Shared(g)
    BY DEF Lockstep
  <1>1. /\ pc[0] = "interval" /\ pc' = [pc EXCEPT ![0] = "crashed"]
        /\ UNCHANGED <<program, fit, epoch, batch, param, nbpp, batchesAvg, chan,
                       trained, know>>
    BY DEF UpdateFails, Goto, loopVars, weightVars
  <1>2. 0 \in Rank
    BY RankFacts
  <1>3. Here(g, 0) /\ g.at = "interval"
    <2>1. Here(g, 0) /\ ((Here(g, 0) /\ g.at = "interval") \/ TakesInterval(g, 0))
      BY <1>0, <1>1, <1>2, Whereabouts DEF Agreed
    <2> QED
      BY <2>1 DEF TakesInterval
  <1>4. Most(g)' = Most(g) /\ pc'[0] = "crashed"
    BY <1>1, <1>2, RankMaps DEF Most, Batches, BatchesPerProc, LocalBatch
  <1>5. Here(g, 0)'
    BY <1>1, <1>3, <1>4 DEF Here
  <1>6. Ahead(g, 0) <= Ahead(g, 0)'
    BY <1>3 DEF Ahead
  <1> QED
    BY <1>0, <1>1, <1>2, <1>5, <1>6, LocalLockstep, RankMaps DEF Follows

-----------------------------------------------------------------------------
(* All together.                                                             *)

\* At a collective of all ranks nothing is under way.
LEMMA AllHere ==
    ASSUME NEW g \in Agreement, Agreed(g), NEW at, Everybody(at)
    PROVE  \A r \in Rank : Here(g, r) /\ pc[r] = at
  BY Whereabouts DEF Everybody, Agreed

LEMMA BarrierLockstep ==
    ASSUME TypeInv, TypeInv', Lockstep, Barrier PROVE Lockstep'
  <1>0. PICK g \in Agreement : Agreed(g) /\ Shared(g)
    BY DEF Lockstep
  <1>1. PICK at \in DOMAIN AfterBarrier :
            /\ Everybody(at) /\ pc' = [r \in Rank |-> AfterBarrier[at]]
            /\ UNCHANGED <<program, fit, epoch, batch, param, nbpp, batchesAvg, chan,
                           trained, know>>
    BY DEF Barrier, loopVars, weightVars
  <1>2. at \in {"methodSet", "batchSet", "nbppSet"}
    BY DEF AfterBarrier
  <1>3. 0 \in Rank /\ \A r \in Rank : Here(g, r) /\ pc[r] = at
    BY <1>0, <1>1, AllHere, RankFacts
  <1>4. PICK x \in Rank : x = 0
    BY <1>3
  <1>5. g.param = 1 /\ g.fit \in Nat /\ g.ba \in Nat
        /\ (at = "methodSet" => g.at = "method") /\ (at = "batchSet" => g.at = "fit")
        /\ (at = "nbppSet" => g.at = "nbpp")
    <2>1. Follows(g, x) /\ pc[x] = at /\ Here(g, x)
      BY <1>0, <1>3, <1>4 DEF Agreed
    <2>2. /\ pc[x] = "methodSet" => g.at = "method"
          /\ pc[x] = "batchSet" => g.at = "fit"
          /\ pc[x] = "nbppSet" => g.at = "nbpp"
      BY <2>1, Whereabouts
    <2> QED
      BY <1>2, <2>1, <2>2, AgreementFacts DEF Here
  <1>6. PICK h \in Agreement :
            /\ h.fit = g.fit /\ h.epoch = 0 /\ h.from = 0 /\ h.param = 1
            /\ at = "methodSet" => h.at = "fit" /\ h.ba = program.avg
            /\ at = "batchSet" => h.at = "nbpp" /\ h.ba = g.ba
            /\ at = "nbppSet" => h.at = "bcast" /\ h.ba = g.ba
    <2>1. program.avg \in Nat
      BY ProgramFacts DEF TypeInv, TypeOK
    <2>2. CASE at = "methodSet"
      <3> DEFINE h == Position("fit", g.fit, 0, 0, 1, program.avg)
      <3>1. /\ h \in Agreement /\ h.at = "fit" /\ h.fit = g.fit
            /\ h.epoch = 0 /\ h.from = 0 /\ h.param = 1 /\ h.ba = program.avg
        BY <1>5, <2>1 DEF Position, Agreement, Stages
      <3> HIDE DEF h
      <3> QED
        BY <2>2, <3>1
    <2>3. CASE at = "batchSet"
      <3> DEFINE h == Position("nbpp", g.fit, 0, 0, 1, g.ba)
      <3>1. /\ h \in Agreement /\ h.at = "nbpp" /\ h.fit = g.fit
            /\ h.epoch = 0 /\ h.from = 0 /\ h.param = 1 /\ h.ba = g.ba
        BY <1>5 DEF Position, Agreement, Stages
      <3> HIDE DEF h
      <3> QED
        BY <2>3, <3>1
    <2>4. CASE at = "nbppSet"
      <3> DEFINE h == Position("bcast", g.fit, 0, 0, 1, g.ba)
      <3>1. /\ h \in Agreement /\ h.at = "bcast" /\ h.fit = g.fit
            /\ h.epoch = 0 /\ h.from = 0 /\ h.param = 1 /\ h.ba = g.ba
        BY <1>5 DEF Position, Agreement, Stages
      <3> HIDE DEF h
      <3> QED
        BY <2>4, <3>1
    <2> QED
      BY <1>2, <2>2, <2>3, <2>4
  <1>7. ASSUME NEW r \in Rank PROVE Here(h, r)'
    <2>1. Most(h)' = Most(g)
      BY <1>1, <1>6 DEF Most, Batches, BatchesPerProc, LocalBatch
    <2>2. pc'[r] = AfterBarrier[at] /\ Here(g, r) /\ pc[r] = at
      BY <1>1, <1>3
    <2>3. CASE at = "methodSet"
      <3>1. pc'[r] = "fit" /\ h.at = "fit" /\ g.at = "method"
        BY <1>5, <1>6, <2>2, <2>3 DEF AfterBarrier
      <3> QED
        BY <1>1, <1>5, <1>6, <2>2, <2>3, <3>1 DEF Here
    <2>4. CASE at = "batchSet"
      <3>1. pc'[r] = "nbpp" /\ h.at = "nbpp" /\ g.at = "fit"
        BY <1>5, <1>6, <2>2, <2>4 DEF AfterBarrier
      <3> QED
        BY <1>1, <1>5, <1>6, <2>2, <2>4, <3>1 DEF Here
    <2>5. CASE at = "nbppSet"
      <3>1. pc'[r] = "bcast" /\ h.at = "bcast" /\ g.at = "nbpp"
        BY <1>5, <1>6, <2>2, <2>5 DEF AfterBarrier
      <3> QED
        BY <1>1, <1>5, <1>6, <2>1, <2>2, <2>5, <3>1 DEF Here
    <2> QED
      BY <1>2, <2>3, <2>4, <2>5
  <1>8. h.at \in {"fit", "nbpp", "bcast"} /\ g.at \in {"method", "fit", "nbpp"}
    BY <1>2, <1>5, <1>6
  <1>9. Agreed(h)'
    BY <1>0, <1>1, <1>6, <1>7, <1>8, RankFacts DEF Agreed, Follows
  <1>10. NoneBehind(g, h)
    BY <1>8 DEF NoneBehind, Ahead
  <1>11. OldPackets
    BY <1>1 DEF OldPackets
  <1>12. Shared(h)'
    BY <1>0, <1>1, <1>6, <1>10, <1>11, KeepsShared
  <1> QED
    BY <1>9, <1>12 DEF Lockstep

LEMMA MetricsLockstep ==
    ASSUME TypeInv, TypeInv', Lockstep, AvgMetrics PROVE Lockstep'
  <1>0. PICK g \in Agreement : Agreed(g) /\ Shared(g)
    BY DEF Lockstep
  <1>1. /\ Everybody("metrics") /\ pc' = [r \in Rank |-> "interval"]
        /\ UNCHANGED <<program, fit, epoch, batch, param, nbpp, batchesAvg, chan,
                       trained, know>>
    BY DEF AvgMetrics, loopVars, weightVars
  <1>2. 0 \in Rank /\ \A r \in Rank : Here(g, r) /\ pc[r] = "metrics"
    BY <1>0, <1>1, AllHere, RankFacts
  <1>3. g.at = "train"
    BY <1>0, <1>2, Whereabouts DEF Agreed
  <1>4. \A r \in Rank : Between(g, r) /\ batch[r] = g.from
    BY <1>2, <1>3 DEF Here, Between
  <1>5. g.param = 1
    BY <1>2, <1>4 DEF Between
  <1>6. PICK h \in Agreement : /\ h.at = "interval" /\ h.fit = g.fit /\ h.epoch = g.epoch
                               /\ h.from = 0 /\ h.param = 1 /\ h.ba = g.ba
    <2> DEFINE h == Position("interval", g.fit, g.epoch, 0, 1, g.ba)
    <2>1. /\ h \in Agreement /\ h.at = "interval" /\ h.fit = g.fit /\ h.epoch = g.epoch
          /\ h.from = 0 /\ h.param = 1 /\ h.ba = g.ba
      BY AgreementFacts DEF Position, Agreement, Stages
    <2> HIDE DEF h
    <2> QED
      BY <2>1
  <1>7. ASSUME NEW r \in Rank PROVE Here(h, r)'
    <2>1. Most(h)' = Most(g)
      BY <1>1, <1>6 DEF Most, Batches, BatchesPerProc, LocalBatch
    <2>2. pc'[r] = "interval" /\ Here(g, r) /\ nbpp[r] = Most(g) /\ epoch[r] = g.epoch
      BY <1>1, <1>2, <1>4 DEF Between
    <2> QED
      BY <1>1, <1>3, <1>5, <1>6, <2>1, <2>2 DEF Here
  <1>8. Agreed(h)'
    BY <1>0, <1>1, <1>6, <1>7, RankFacts DEF Agreed, Follows
  <1>9. NoneBehind(g, h)
    <2>1. \A r \in Rank : Ahead(g, r) = 0
      BY <1>4, RankTypes DEF Ahead
    <2>2. \A r \in Rank : Ahead(h, r)' = 0
      BY <1>6 DEF Ahead
    <2> QED
      BY <2>1, <2>2 DEF NoneBehind
  <1>10. OldPackets
    BY <1>1 DEF OldPackets
  <1>11. Shared(h)'
    BY <1>0, <1>1, <1>6, <1>9, <1>10, KeepsShared
  <1> QED
    BY <1>8, <1>11 DEF Lockstep

LEMMA ReduceLockstep ==
    ASSUME TypeInv, TypeInv', Lockstep, Reduce PROVE Lockstep'
  <1>0. PICK g \in Agreement : Agreed(g) /\ Shared(g)
    BY DEF Lockstep
  <1>1. PICK p \in Param :
            /\ Everybody("reduce") /\ \A r \in Rank : param[r] = p
            /\ know' = [r \in Rank |-> [know[r] EXCEPT ![p] =
                                           [s \in Rank |-> Averaged(p, s)]]]
            /\ param' = [r \in Rank |-> IF p = P THEN 1 ELSE p + 1]
            /\ pc' = [r \in Rank |-> IF p = P THEN "train" ELSE "reduce"]
            /\ UNCHANGED <<program, fit, epoch, batch, nbpp, batchesAvg, chan, trained>>
    BY DEF Reduce
  <1>2. 0 \in Rank /\ \A r \in Rank : Here(g, r) /\ pc[r] = "reduce"
    BY <1>0, <1>1, AllHere, RankFacts
  <1>3. g.at = "train" /\ g.param = p
    <2>1. g.at = "train"
      BY <1>0, <1>2, Whereabouts DEF Agreed
    <2> QED
      BY <1>1, <1>2, <2>1 DEF Here
  <1>4. \A r \in Rank : Between(g, r)
    BY <1>2, <1>3 DEF Here
  <1>5. PICK b \in Nat : b = batch[0]
    BY <1>2, RankTypes
  <1>6. \A r \in Rank : batch[r] = b
    <2> SUFFICES ASSUME NEW r \in Rank PROVE batch[r] = b
      OBVIOUS
    <2>1. \A s \in Rank : /\ batch[s] \in Nat /\ g.from < batch[s] /\ Ends(g, batch[s])
                          /\ \A k \in g.from + 1 .. batch[s] - 1 : ~Ends(g, k)
      BY <1>2, <1>4, RankTypes DEF Between
    <2>2. g.from \in Nat
      BY AgreementFacts
    <2>3. ASSUME batch[r] < b PROVE FALSE
      <3>1. batch[r] \in g.from + 1 .. b - 1
        BY <1>5, <2>1, <2>2, <2>3
      <3> QED
        BY <1>2, <1>5, <2>1, <3>1
    <2>4. ASSUME b < batch[r] PROVE FALSE
      <3>1. b \in g.from + 1 .. batch[r] - 1
        BY <1>2, <1>5, <2>1, <2>2, <2>4
      <3> QED
        BY <1>2, <1>5, <2>1, <3>1
    <2>5. batch[r] \in Nat
      BY <2>1
    <2> QED
      BY <2>3, <2>4, <2>5
  <1>7. /\ g.from < b /\ b <= Most(g) /\ Ends(g, b) /\ g.from \in Nat /\ Most(g) \in Nat
        /\ p \in Nat /\ P \in Nat /\ p <= P
    <2>1. Most(g) = nbpp[0] /\ nbpp[0] \in Nat /\ g.from < b /\ b <= Most(g) /\ Ends(g, b)
      BY <1>2, <1>4, <1>5, RankTypes DEF Between
    <2> QED
      BY <2>1, AgreementFacts, AveragingAssumption DEF Param
  <1>8. PICK h \in Agreement :
            /\ h.at = "train" /\ h.fit = g.fit /\ h.epoch = g.epoch /\ h.ba = g.ba
            /\ p = P => h.from = b /\ h.param = 1
            /\ p # P => h.from = g.from /\ h.param = p + 1
    <2>1. CASE p = P
      <3> DEFINE h == Position("train", g.fit, g.epoch, b, 1, g.ba)
      <3>1. /\ h \in Agreement /\ h.at = "train" /\ h.fit = g.fit /\ h.epoch = g.epoch
            /\ h.from = b /\ h.param = 1 /\ h.ba = g.ba
        BY AgreementFacts DEF Position, Agreement, Stages
      <3> HIDE DEF h
      <3> QED
        BY <2>1, <3>1
    <2>2. CASE p # P
      <3> DEFINE h == Position("train", g.fit, g.epoch, g.from, p + 1, g.ba)
      <3>1. /\ h \in Agreement /\ h.at = "train" /\ h.fit = g.fit /\ h.epoch = g.epoch
            /\ h.from = g.from /\ h.param = p + 1 /\ h.ba = g.ba
        BY <1>7, AgreementFacts DEF Position, Agreement, Stages
      <3> HIDE DEF h
      <3> QED
        BY <2>2, <3>1
    <2> QED
      BY <2>1, <2>2
  <1>9. Most(h)' = Most(g) /\ \A k : Ends(h, k)' = Ends(g, k)
    BY <1>1, <1>8 DEF Most, Batches, BatchesPerProc, LocalBatch, Ends
  <1>10. ASSUME NEW r \in Rank PROVE Here(h, r)'
    <2>1. Between(h, r)'
      <3>1. /\ nbpp'[r] = Most(g) /\ epoch'[r] = g.epoch /\ batch'[r] = b
            /\ g.ba # 0 /\ \A k \in g.from + 1 .. b - 1 : ~Ends(g, k)
        BY <1>1, <1>2, <1>4, <1>6 DEF Between
      <3>2. CASE p = P
        <4>1. pc'[r] = "train" /\ h.from = b /\ h.param = 1
          BY <1>1, <1>8, <3>2
        <4>2. b + 1 .. b - 1 = {}
          OBVIOUS
        <4> QED
          BY <1>7, <1>8, <1>9, <3>1, <4>1, <4>2 DEF Between
      <3>3. CASE p # P
        <4>1. pc'[r] = "reduce" /\ h.from = g.from /\ h.param = p + 1
          BY <1>1, <1>8, <3>3
        <4> QED
          BY <1>7, <1>8, <1>9, <3>1, <4>1 DEF Between
      <3> QED
        BY <3>2, <3>3
    <2>2. param'[r] = h.param
      BY <1>1, <1>8
    <2> QED
      BY <1>1, <1>2, <1>3, <1>8, <2>1, <2>2 DEF Here
  <1>11. Agreed(h)'
    <2>1. h.param \in Param
      BY <1>7, <1>8, AveragingAssumption DEF Param
    <2>2. chan'[0] = <<>>
      BY <1>0, <1>1 DEF Agreed
    <2>3. h.from = 0 \/ Ends(g, h.from)
      BY <1>0, <1>3, <1>7, <1>8 DEF Agreed
    <2> QED
      BY <1>9, <1>10, <2>1, <2>2, <2>3 DEF Agreed, Follows
  \* What was trained is in every weight that has been averaged.
  <1>12. \A r \in Rank : trained[r] \in Nat /\ trained'[r] = trained[r]
    BY <1>1, RankTypes
  <1>13. ASSUME NEW r \in Rank, NEW s \in Rank, NEW o \in Param
         PROVE  /\ o # p => know'[r][o][s] = know[r][o][s]
                /\ o = p => trained[s] <= know'[r][o][s]
                /\ know'[r][o][s] \in Nat /\ know[r][o][s] \in Nat
    <2>1. know'[r] = [know[r] EXCEPT ![p] = [q \in Rank |-> Averaged(p, q)]]
      BY <1>1
    <2>2. know[r] \in [Param -> [Rank -> Nat]] /\ know'[r] \in [Param -> [Rank -> Nat]]
      BY DEF TypeInv, TypeOK
    <2>3. ASSUME o = p PROVE trained[s] <= know'[r][o][s]
      <3>1. know'[r][o][s] = Averaged(p, s)
        BY <2>1, <2>2, <2>3
      <3>2. know[s][p][s] <= Averaged(p, s) /\ Averaged(p, s) \in Nat
        BY AveragedIsGreatest, AveragedIsGreatest
      <3>3. trained[s] <= know[s][p][s] /\ know[s][p][s] \in Nat
        BY <1>0 DEF Shared, TypeInv, TypeOK
      <3> QED
        BY <1>12, <3>1, <3>2, <3>3
    <2> QED
      BY <2>1, <2>2, <2>3
  <1>14. ASSUME NEW r \in Rank, NEW s \in Rank, NEW o \in Param, p = P \/ o < p + 1
         PROVE  trained[s] <= know'[r][o][s]
    <2>1. CASE o = p
      BY <1>13, <2>1
    <2>2. CASE o # p
      <3>1. o < p
        BY <1>7, <1>14, <2>2 DEF Param
      <3>2. trained[s] <= know[r][o][s]
        BY <1>0, <1>3, <3>1 DEF Shared
      <3> QED
        BY <1>13, <2>2, <3>2
    <2> QED
      BY <2>1, <2>2
  <1>15. \A r \in Rank : /\ Ahead(g, r) = b - g.from
                         /\ Ahead(h, r)' = (IF p = P THEN 0 ELSE b - g.from)
    BY <1>1, <1>2, <1>3, <1>6, <1>7, <1>8 DEF Ahead
  <1>16. ASSUME NEW r \in Rank, NEW o \in Param
         PROVE  HasMost(h, know[r][o])' /\ trained'[r] <= know'[r][o][r]
    <2>1. ASSUME NEW s \in Rank PROVE trained[s] - Ahead(h, s)' <= know'[r][o][s]
      <3>1. trained[s] - Ahead(g, s) <= know[r][o][s]
        BY <1>0 DEF Shared, HasMost
      <3>2. CASE p = P
        BY <1>12, <1>14, <1>15, <3>2
      <3>3. CASE p # P /\ o = p
        <4>1. trained[s] <= know'[r][o][s] /\ know'[r][o][s] \in Nat
          BY <1>13, <3>3
        <4> QED
          BY <1>7, <1>12, <1>15, <3>3, <4>1
      <3>4. CASE p # P /\ o # p
        BY <1>13, <1>15, <3>1, <3>4
      <3> QED
        BY <3>2, <3>3, <3>4
    <2>2. trained[r] <= know'[r][o][r]
      <3>1. trained[r] <= know[r][o][r]
        BY <1>0 DEF Shared
      <3>2. CASE o = p
        BY <1>13, <3>2
      <3>3. CASE o # p
        BY <1>13, <3>1, <3>3
      <3> QED
        BY <3>2, <3>3
    <2> QED
      BY <1>12, <2>1, <2>2 DEF HasMost
  <1>17. \A r, s \in Rank, o \in Param : o < h.param => trained'[s] <= know'[r][o][s]
    <2> SUFFICES ASSUME NEW r \in Rank, NEW s \in Rank, NEW o \in Param, o < h.param
                 PROVE  trained[s] <= know'[r][o][s]
      BY <1>12
    <2>1. p = P \/ o < p + 1
      BY <1>8
    <2> QED
      BY <1>14, <2>1
  <1>18. \A r \in Rank : DOMAIN chan'[r] = {}
    BY <1>1, <1>2 DEF Here
  <1>19. Shared(h)'
    BY <1>16, <1>17, <1>18 DEF Shared
  <1> QED
    BY <1>11, <1>19 DEF Lockstep

-----------------------------------------------------------------------------
(* Lockstep is inductive.                                                    *)

LockInv == TypeInv /\ Lockstep

LEMMA StillLockstep == ASSUME TypeInv, TypeInv', Lockstep, UNCHANGED vars PROVE Lockstep'
  <1>0. PICK g \in Agreement : Agreed(g) /\ Shared(g)
    BY DEF Lockstep
  <1>1. UNCHANGED <<program, pc, fit, epoch, batch, param, nbpp, batchesAvg, chan,
                    trained, know>>
    BY DEF vars, loopVars, weightVars
  <1>2. 0 \in Rank /\ Follows(g, 0)
    BY <1>0, RankFacts DEF Agreed
  <1>3. Follows(g, 0)'
    BY <1>1, <1>2, SameFollows
  <1>4. Ahead(g, 0) \in Int /\ Ahead(g, 0)' = Ahead(g, 0)
    BY <1>1, <1>2, AheadType DEF Ahead
  <1> QED
    BY <1>0, <1>1, <1>2, <1>3, <1>4, LocalLockstep

LEMMA NextLockInv == LockInv /\ [Next]_vars => LockInv'
  <1> SUFFICES ASSUME LockInv, [Next]_vars PROVE LockInv'
    OBVIOUS
  <1>1. TypeInv /\ Lockstep /\ TypeInv'
    BY NextTypeInv DEF LockInv
  <1>2. CASE UNCHANGED vars
    BY <1>1, <1>2, StillLockstep DEF LockInv
  <1>3. CASE Joint
    BY <1>1, <1>3, BarrierLockstep, ReduceLockstep, MetricsLockstep DEF LockInv, Joint
  <1>4. CASE RootStep
    BY <1>1, <1>4, SendLockstep, UpdateLockstep, FailLockstep, DecideLockstep
    DEF LockInv, RootStep
  <1>5. ASSUME NEW r \in Rank, RankStep(r) PROVE Lockstep'
    <2>1. CASE SetAvgMethod(r) \/ SetBatch(r) \/ SetNBPP(r)
      BY <1>1, <2>1, SetLockstep
    <2>2. CASE ReceiveWeights(r)
      BY <1>1, <2>2, WeightsLockstep
    <2>3. CASE ReceiveInterval(r)
      BY <1>1, <2>3, IntervalLockstep
    <2>4. CASE ReceiveStop(r)
      BY <1>1, <2>4, StopLockstep
    <2>5. CASE TrainBatch(r)
      BY <1>1, <2>5, TrainLockstep
    <2>6. CASE AvgWeights(r) \/ EndEpoch(r)
      BY <1>1, <2>6, DueLockstep
    <2> QED
      BY <1>5, <2>1, <2>2, <2>3, <2>4, <2>5, <2>6 DEF RankStep
  <1> QED
    BY <1>1, <1>2, <1>3, <1>4, <1>5 DEF Next, LockInv

LEMMA SpecLockInv == Spec => []LockInv
  <1>1. Init => LockInv
    BY InitTypeInv, InitLockstep DEF LockInv
  <1> QED
    BY <1>1, NextLockInv, PTL DEF Spec

LEMMA LockstepMatches == LockInv => CollectivesMatch
  <1> SUFFICES ASSUME LockInv, NEW r \in Rank, NEW s \in Rank
               PROVE  /\ {pc[r], pc[s]} \subseteq Waiting =>
                             pc[r] = pc[s] /\ param[r] = param[s]
                      /\ pc[r] \in Waiting /\ pc[s] \in DOMAIN Receiving =>
                             r # 0 \/ chan[s] # <<>>
                      /\ chan[r] # <<>> =>
                             /\ pc[r] \notin Waiting \cup Ended
                             /\ pc[r] \in DOMAIN Receiving =>
                                    Head(chan[r]).op = Receiving[pc[r]]
                             /\ pc[r] = "bcast" => Head(chan[r]).number = param[r]
    BY DEF CollectivesMatch
  <1>0. PICK g \in Agreement : Agreed(g) /\ Shared(g)
    BY DEF LockInv, Lockstep
  <1>1. /\ TypeInv /\ Follows(g, r) /\ Follows(g, s)
        /\ g.from \in Nat /\ batch[r] \in Nat /\ batch[s] \in Nat
    BY <1>0, AgreementFacts, RankTypes DEF LockInv, Agreed
  <1>2. ASSUME pc[r] \in Waiting, pc[s] \in Waiting
        PROVE  pc[r] = pc[s] /\ param[r] = param[s]
    <2>1. Here(g, r) /\ Here(g, s)
      BY <1>1, <1>2, Whereabouts DEF Waiting
    <2>2. \/ g.at = "method" /\ pc[r] = "methodSet" /\ pc[s] = "methodSet"
          \/ g.at = "fit" /\ pc[r] = "batchSet" /\ pc[s] = "batchSet"
          \/ g.at = "nbpp" /\ pc[r] = "nbppSet" /\ pc[s] = "nbppSet"
          \/ g.at = "train" /\ {pc[r], pc[s]} \subseteq {"reduce", "metrics"}
      BY <1>1, <1>2, Whereabouts DEF Waiting
    <2>3. CASE g.at = "train"
      <3>1. Between(g, r) /\ Between(g, s)
        BY <2>1, <2>3 DEF Here
      <3>2. Most(g) = nbpp[r] /\ nbpp[r] \in Nat
        BY <1>1, <3>1, RankTypes DEF Between
      <3>3. ~ (pc[r] = "reduce" /\ pc[s] = "metrics")
        BY <1>1, <3>1, <3>2 DEF Between
      <3>4. ~ (pc[s] = "reduce" /\ pc[r] = "metrics")
        BY <1>1, <3>1, <3>2 DEF Between
      <3> QED
        BY <2>1, <2>2, <2>3, <3>3, <3>4 DEF Here
    <2> QED
      BY <2>1, <2>2, <2>3 DEF Here
  <1>3. ASSUME pc[r] \in Waiting, pc[s] \in DOMAIN Receiving, r = 0, chan[s] = <<>>
        PROVE  FALSE
    <2>1. Here(g, s) /\ g.at \in {"bcast", "interval", "early"}
      <3>1. pc[s] \in {"bcast", "interval", "early"} /\ Here(g, s)
        BY <1>1, <1>3, Whereabouts DEF Receiving
      <3>2. \/ g.at \in {"bcast", "interval", "early"}
            \/ TakesWeights(g, s) \/ TakesInterval(g, s) \/ TakesStop(g, s)
        BY <1>1, <3>1, Whereabouts
      <3> QED
        BY <1>3, <3>1, <3>2 DEF TakesWeights, TakesInterval, TakesStop
    <2> QED
      BY <1>1, <1>3, <2>1, Whereabouts DEF Waiting
  <1>4. ASSUME chan[r] # <<>>
        PROVE  /\ pc[r] \notin Waiting \cup Ended
               /\ pc[r] \in DOMAIN Receiving => Head(chan[r]).op = Receiving[pc[r]]
               /\ pc[r] = "bcast" => Head(chan[r]).number = param[r]
    <2>1. chan[r] \in Seq(Packet) /\ param[r] \in Nat
      BY <1>1, RankTypes
    <2>2. Head(chan[r]) = chan[r][1] /\ 1 \in DOMAIN chan[r]
      BY <1>4, <2>1
    <2>3. \/ pc[r] = "bcast" /\ chan[r][1].op = "weights" /\ chan[r][1].number = param[r]
          \/ pc[r] = "interval" /\ chan[r][1].op = "interval"
          \/ pc[r] = "early" /\ chan[r][1].op = "stop"
      BY <1>1, <1>4, <2>1, <2>2, Whereabouts DEF TakesWeights, TakesInterval, TakesStop
    <2> QED
      BY <2>2, <2>3 DEF Waiting, Ended, Receiving
  <1> QED
    BY <1>2, <1>3, <1>4

LEMMA NextMultiple ==
    ASSUME NEW a \in Nat, NEW b \in Nat \ {0}, a % b = 0
    PROVE  (a + b) % b = 0
  <1>1. a \in Int /\ b \in Int /\ b > 0
    OBVIOUS
  <1>2. PICK q \in Int : a = b * q
    <2>1. \A c, d \in Int : d > 0 => c = d * (c \div d) + (c % d)
      BY Z3
    <2>2. PICK q \in Int : q = a \div b
      BY <1>1
    <2> QED
      BY <1>1, <2>1, <2>2
  <1>3. \A c, d, k \in Int : d > 0 /\ c = d * k => c % d = 0
    OBVIOUS
  <1>4. a + b \in Int /\ q + 1 \in Int /\ a + b = b * (q + 1)
    BY <1>1, <1>2
  <1> QED
    BY <1>1, <1>3, <1>4

LEMMA ZeroMultiple == ASSUME NEW b \in Nat \ {0} PROVE 0 % b = 0
  OBVIOUS

\* No rank is further ahead than an interval, or than an epoch.
LEMMA AheadIsBounded ==
    ASSUME TypeInv, NEW g \in Agreement, Agreed(g), NEW r \in Rank
    PROVE  Ahead(g, r) <= Smaller(Larger(batchesAvg[r], 1), nbpp[r])
  <1>1. /\ g.from \in Nat /\ g.ba \in Nat /\ batch[r] \in Nat /\ nbpp[r] \in Nat
        /\ batchesAvg[r] \in Nat
    BY AgreementFacts, RankTypes
  <1>2. CASE ~ (g.at = "train" /\ pc[r] \in {"train", "avg", "reduce", "metrics", "crashed"})
    <2>1. Ahead(g, r) = 0
      BY <1>2 DEF Ahead
    <2> QED
      BY <1>1, <2>1 DEF Smaller, Larger
  <1>3. CASE g.at = "train" /\ pc[r] \in {"train", "avg", "reduce", "metrics", "crashed"}
    <2>1. Here(g, r)
      BY <1>3, Whereabouts DEF Agreed
    <2>2. Between(g, r) /\ batchesAvg[r] = g.ba
      BY <1>3, <2>1 DEF Here
    <2>3. Ahead(g, r) = batch[r] - g.from /\ nbpp[r] = Most(g)
          /\ g.from <= batch[r] /\ batch[r] <= nbpp[r]
      BY <1>3, <2>2 DEF Ahead, Between
    <2>4. \A k \in g.from + 1 .. batch[r] - 1 : ~Ends(g, k)
      BY <2>2 DEF Between
    <2>5. CASE g.ba = 0
      <3>1. ~ (g.from + 1 \in g.from + 1 .. batch[r] - 1)
        BY <2>4, <2>5 DEF Ends
      <3>2. batch[r] - g.from <= 1
        BY <1>1, <3>1
      <3> QED
        BY <1>1, <2>2, <2>3, <2>5, <3>2 DEF Smaller, Larger
    <2>6. CASE g.ba # 0
      <3>1. ASSUME batch[r] > g.from + g.ba PROVE FALSE
        <4>1. g.from + g.ba \in g.from + 1 .. batch[r] - 1
          BY <1>1, <2>6, <3>1
        <4>2. (g.from + g.ba) % g.ba # 0
          BY <2>4, <4>1 DEF Ends, IsDue
        <4>3. g.from # Most(g)
          BY <1>1, <2>3, <3>1
        <4>4. g.from = 0 \/ g.from % g.ba = 0
          BY <1>3, <2>6, <4>3 DEF Agreed, Ends, IsDue
        <4>5. g.from % g.ba = 0
          BY <1>1, <2>6, <4>4, ZeroMultiple
        <4> QED
          BY <1>1, <2>6, <4>2, <4>5, NextMultiple
      <3> QED
        BY <1>1, <2>2, <2>3, <2>6, <3>1 DEF Smaller, Larger
    <2> QED
      BY <2>5, <2>6
  <1> QED
    BY <1>2, <1>3

LEMMA LockstepBounds == LockInv => DriftIsBounded
  <1> SUFFICES ASSUME LockInv, NEW r \in Rank, NEW s \in Rank, NEW p \in Param
               PROVE  trained[r] - know[s][p][r] <=
                          IF r = s THEN 0 ELSE Smaller(Larger(batchesAvg[r], 1), nbpp[r])
    BY DEF DriftIsBounded
  <1>0. PICK g \in Agreement : Agreed(g) /\ Shared(g)
    BY DEF LockInv, Lockstep
  <1>1. /\ TypeInv /\ trained[r] \in Nat /\ know[s][p][r] \in Nat
        /\ batchesAvg[r] \in Nat /\ nbpp[r] \in Nat /\ Ahead(g, r) \in Int
    <2>1. TypeInv /\ know \in [Rank -> [Param -> [Rank -> Nat]]]
      BY DEF LockInv, TypeInv, TypeOK
    <2> QED
      BY <2>1, RankTypes, AheadType
  <1>2. trained[r] - Ahead(g, r) <= know[s][p][r] /\ trained[s] <= know[s][p][s]
    BY <1>0 DEF Shared, HasMost
  <1>3. Ahead(g, r) <= Smaller(Larger(batchesAvg[r], 1), nbpp[r])
    BY <1>0, <1>1, AheadIsBounded
  <1>4. Smaller(Larger(batchesAvg[r], 1), nbpp[r]) \in Nat
    BY <1>1 DEF Smaller, Larger
  <1> QED
    BY <1>1, <1>2, <1>3, <1>4

\* The ranks decide for themselves when to average, from the interval each has,
\* and yet the collectives they call match: whoever waits, waits for the same
\* collective and the same parameter, and takes from the root what it asks for.
THEOREM CollectivesAlwaysMatch == Spec => []CollectivesMatch
  BY SpecLockInv, LockstepMatches, PTL

\* Averaging, at whatever intervals the methods choose, keeps all of a rank's own
\* batches in its weights, and all of the others' but those of the interval or
\* epoch under way.
THEOREM DriftStaysBounded == Spec => []DriftIsBounded
  BY SpecLockInv, LockstepBounds, PTL
=============================================================================
