-------------------------- MODULE WeightAveraging --------------------------
(***************************************************************************)
(* Data-parallel training over MPI: every process (rank) runs the same      *)
(* program, which chooses an averaging method and calls Net::fit() one or   *)
(* more times.  Inside fit() the ranks train their own batches and now and  *)
(* then average their weights; how often is the interval batches_avg, which *)
(* rank 0 adapts after every epoch and broadcasts.  Each rank decides by    *)
(* itself, from its own copy of the interval, whether to average: if two    *)
(* ranks decided differently they would wait in different collectives.      *)
(*                                                                         *)
(* A weight is the number of batches of every rank that are in it: training *)
(* adds one of one's own, averaging gives everybody what anybody had.       *)
(***************************************************************************)
EXTENDS Integers, Sequences, FiniteSets

CONSTANTS N,        \* n_procs
          P,        \* trainable parameters of the net
          Programs  \* what the processes may have been written to do

\* FIXED to LIMIT_OVERHEAD.
Method == {"fixed", "avg_inc", "sawtooth", "neg_sawtooth", "auto_time",
           "limit_overhead"}

Fit == [batch : Nat \ {0},  \* batch size given to fit()
        size : Nat,         \* samples of the data set
        epochs : Nat \ {0}]

Program == [method : Method,
            avg : Nat,          \* batch_avg of set_avg_method_distributed(), 0 too:
                                \* nothing checks it; negative ones are left out
            every : Nat,        \* its epoch_avg
            early : BOOLEAN,    \* asks for early stopping after each fit()
            fits : Seq(Fit)]

\* check_MPI() returns from everything when there is only one process.
ASSUME AveragingAssumption ==
    /\ N \in Nat \ {0, 1} /\ P \in Nat \ {0}
    /\ Programs \subseteq Program
    /\ \A q \in Programs : q.fits # <<>>

Rank  == 0 .. N - 1
Param == 1 .. P

VARIABLES program,     \* the one all ranks run
          pc,          \* [Rank -> where it is]
          fit,         \* [Rank -> the call of fit() it is in]
          epoch,       \* [Rank -> i of fit()]
          batch,       \* [Rank -> batches trained in this epoch]
          param,       \* [Rank -> parameter of the next collective]
          nbpp,        \* [Rank -> batches_per_proc]
          batchesAvg,  \* [Rank -> batches_avg]
          chan,        \* [Rank -> what the root has broadcast to it]
          trained,     \* [Rank -> batches it has trained since the start]
          know         \* [Rank -> [Param -> [Rank -> batches in the weight]]]

loopVars   == <<fit, epoch, batch, param>>
weightVars == <<trained, know>>
vars == <<program, pc, loopVars, nbpp, batchesAvg, chan, weightVars>>

Init == /\ program \in Programs
        /\ pc = [r \in Rank |-> "method"]
        /\ fit = [r \in Rank |-> 1]
        /\ epoch = [r \in Rank |-> 0]
        /\ batch = [r \in Rank |-> 0]
        /\ param = [r \in Rank |-> 1]
        /\ nbpp = [r \in Rank |-> 0]
        /\ batchesAvg = [r \in Rank |-> 0]
        /\ chan = [r \in Rank |-> <<>>]
        /\ trained = [r \in Rank |-> 0]
        /\ know = [r \in Rank |-> [p \in Param |-> [s \in Rank |-> 0]]]

Goto(r, at) == pc' = [pc EXCEPT ![r] = at]

-----------------------------------------------------------------------------
(* The collectives.  Barriers and reductions wait for everybody; in a       *)
(* broadcast the root hands over its value and goes on.                     *)

Nothing == [s \in Rank |-> 0]

\* Mutant: the last rank is left out.
BroadcastToAllButOne(op, weights, number) ==
    chan' = [s \in Rank |->
                IF s \in {0, N - 1} THEN chan[s]
                ELSE Append(chan[s], [op |-> op, weights |-> weights,
                                      number |-> number])]

Broadcast(op, weights, number) ==
    chan' = [s \in Rank |->
                IF s = 0 THEN chan[s]
                ELSE Append(chan[s], [op |-> op, weights |-> weights,
                                      number |-> number])]

\* What becomes of a rank that asks for something else than the root has sent is
\* undefined: here it does not go on.
Receive(r, op) == /\ r # 0 /\ chan[r] # <<>> /\ Head(chan[r]).op = op
                  /\ chan' = [chan EXCEPT ![r] = Tail(@)]

Everybody(at) == \A r \in Rank : pc[r] = at /\ chan[r] = <<>>

AfterBarrier == [methodSet |-> "fit", batchSet |-> "nbpp", nbppSet |-> "bcast"]

\* barrier_distributed(), at the end of the calls that set something.
Barrier ==
    \E at \in DOMAIN AfterBarrier :
        /\ Everybody(at)
        /\ pc' = [r \in Rank |-> AfterBarrier[at]]
        /\ UNCHANGED <<program, loopVars, nbpp, batchesAvg, chan, weightVars>>

-----------------------------------------------------------------------------
(* Before training.                                                         *)

SetAvgMethod(r) ==
    /\ pc[r] = "method"
    /\ batchesAvg' = [batchesAvg EXCEPT ![r] = program.avg]
    /\ Goto(r, "methodSet")
    /\ UNCHANGED <<program, loopVars, nbpp, chan, weightVars>>

\* set_batch_distributed() with DIV_BATCH.
LocalBatch(f) == f.batch \div N

SetBatch(r) ==
    /\ pc[r] = "fit"
    /\ Goto(r, "batchSet")
    /\ UNCHANGED <<program, loopVars, nbpp, batchesAvg, chan, weightVars>>

BatchesPerProc(f) == (f.size \div LocalBatch(f)) \div N

SetNBPP(r) ==
    /\ pc[r] = "nbpp"
    /\ IF LocalBatch(program.fits[fit[r]]) = 0
       THEN Goto(r, "crashed") /\ UNCHANGED nbpp
       ELSE /\ nbpp' = [nbpp EXCEPT ![r] = BatchesPerProc(program.fits[fit[r]])]
            /\ Goto(r, "nbppSet")
    /\ param' = [param EXCEPT ![r] = 1]
    /\ epoch' = [epoch EXCEPT ![r] = 0]
    /\ batch' = [batch EXCEPT ![r] = 0]
    /\ UNCHANGED <<program, fit, batchesAvg, chan, weightVars>>

\* bcast_weights_distributed(): one broadcast for each parameter.
NextParam(r, after) ==
    IF param[r] = P THEN /\ Goto(r, after)
                         /\ param' = [param EXCEPT ![r] = 1]
    ELSE /\ param' = [param EXCEPT ![r] = @ + 1]
         /\ UNCHANGED pc

SendWeights ==
    /\ pc[0] = "bcast"
    /\ Broadcast("weights", know[0][param[0]], param[0])
    /\ NextParam(0, "train")
    /\ UNCHANGED <<program, fit, epoch, batch, nbpp, batchesAvg, weightVars>>

ReceiveWeights(r) ==
    /\ pc[r] = "bcast" /\ Receive(r, "weights")
    /\ know' = [know EXCEPT ![r][param[r]] = Head(chan[r]).weights]
    /\ NextParam(r, "train")
    /\ UNCHANGED <<program, fit, epoch, batch, nbpp, batchesAvg, trained>>

-----------------------------------------------------------------------------
(* An epoch.                                                                *)

TrainBatch(r) ==
    /\ pc[r] = "train" /\ batch[r] < nbpp[r]
    /\ batch' = [batch EXCEPT ![r] = @ + 1]
    /\ trained' = [trained EXCEPT ![r] = @ + 1]
    /\ know' = [know EXCEPT ![r] = [p \in Param |->
                   [know[r][p] EXCEPT ![r] = trained[r] + 1]]]
    /\ Goto(r, "avg")
    /\ UNCHANGED <<program, fit, epoch, param, nbpp, batchesAvg, chan>>

\* Mutant: only the end of an epoch counts.
IsDueAtEndOnly(curr, ba, most) == curr = most

IsDue(curr, ba, most) == curr % ba = 0 \/ curr = most

\* avg_weights_distributed() up to its first collective.
AvgWeights(r) ==
    /\ pc[r] = "avg"
    /\ Goto(r, IF batchesAvg[r] = 0 THEN "crashed"
               ELSE IF IsDue(batch[r], batchesAvg[r], nbpp[r]) THEN "reduce"
               ELSE "train")
    /\ UNCHANGED <<program, loopVars, nbpp, batchesAvg, chan, weightVars>>

\* What the average of the ranks' weights has of s.
Averaged(p, s) ==
    CHOOSE n \in {know[r][p][s] : r \in Rank} :
        \A r \in Rank : know[r][p][s] <= n

\* MPI_Allreduce of one parameter, and the division by n_procs.
Reduce ==
    \E p \in Param :
        /\ Everybody("reduce") /\ \A r \in Rank : param[r] = p
        /\ know' = [r \in Rank |-> [know[r] EXCEPT ![p] =
                                       [s \in Rank |-> Averaged(p, s)]]]
        /\ param' = [r \in Rank |-> IF p = P THEN 1 ELSE p + 1]
        /\ pc' = [r \in Rank |-> IF p = P THEN "train" ELSE "reduce"]
        /\ UNCHANGED <<program, fit, epoch, batch, nbpp, batchesAvg, chan, trained>>

EndEpoch(r) ==
    /\ pc[r] = "train" /\ batch[r] = nbpp[r]
    /\ Goto(r, "metrics")
    /\ UNCHANGED <<program, loopVars, nbpp, batchesAvg, chan, weightVars>>

\* avg_metrics_distributed(): reductions of losses and metrics.
AvgMetrics ==
    /\ Everybody("metrics")
    /\ pc' = [r \in Rank |-> "interval"]
    /\ UNCHANGED <<program, loopVars, nbpp, batchesAvg, chan, weightVars>>

-----------------------------------------------------------------------------
(* The interval, after every epoch.                                         *)

Smaller(a, b) == IF a < b THEN a ELSE b
Larger(a, b)  == IF a > b THEN a ELSE b

Periodic == {"avg_inc", "sawtooth", "neg_sawtooth", "auto_time"}

\* Mutant: the new interval of LIMIT_OVERHEAD may be rounded down to nothing.
LimitOverheadUnchecked(most) == {most} \cup 0 .. most - 1

\* set_batch_avg_overhead_distributed(): measured times may ask for any interval.
LimitOverhead(most) == {most, 1} \cup 1 .. most - 1

\* AUTO_TIME in an epoch neither faster nor slower.
Lower(ba) == Larger(ba - ba \div 4, program.avg)

\* update_batch_avg_distributed() on rank 0; AUTO_TIME depends on times.
Periodically(ba, most) ==
    CASE program.method \in {"avg_inc", "sawtooth"} -> {Smaller(2 * ba, most)}
      [] program.method = "neg_sawtooth" -> {Larger(ba \div 2, program.avg)}
      [] program.method = "auto_time"    -> {Smaller(2 * ba, most), Lower(ba)}

NewIntervals(ba, i, most) ==
    CASE program.method = "limit_overhead" -> LimitOverhead(most)
      [] program.method = "fixed" -> {ba}
      [] OTHER -> IF (i + 1) % program.every = 0 THEN Periodically(ba, most)
                  ELSE {ba}

AfterFit(r) ==
    IF fit[r] = Len(program.fits) THEN /\ Goto(r, "done")
                                       /\ UNCHANGED fit
    ELSE /\ Goto(r, "fit")
         /\ fit' = [fit EXCEPT ![r] = @ + 1]

NextEpoch(r) ==
    IF epoch[r] + 1 < program.fits[fit[r]].epochs
    THEN /\ Goto(r, "train")
         /\ epoch' = [epoch EXCEPT ![r] = @ + 1]
         /\ batch' = [batch EXCEPT ![r] = 0]
         /\ UNCHANGED fit
    ELSE /\ UNCHANGED <<epoch, batch>>
         /\ IF program.early THEN Goto(r, "early") /\ UNCHANGED fit
            ELSE AfterFit(r)

UpdateInterval ==
    /\ pc[0] = "interval"
    /\ program.method \in Periodic => program.every # 0
    /\ \E ba \in NewIntervals(batchesAvg[0], epoch[0], nbpp[0]) :
           /\ batchesAvg' = [batchesAvg EXCEPT ![0] = ba]
           /\ Broadcast("interval", Nothing, ba)
    /\ NextEpoch(0)
    /\ UNCHANGED <<program, param, nbpp, weightVars>>

\* epoch_avg 0 is a division by zero, on rank 0 only.
UpdateFails ==
    /\ pc[0] = "interval"
    /\ program.method \in Periodic /\ program.every = 0
    /\ Goto(0, "crashed")
    /\ UNCHANGED <<program, loopVars, nbpp, batchesAvg, chan, weightVars>>

\* Mutant: a rank keeps the interval it had.
ReceiveIntervalInVain(r) ==
    /\ pc[r] = "interval" /\ Receive(r, "interval")
    /\ NextEpoch(r)
    /\ UNCHANGED <<program, param, nbpp, batchesAvg, weightVars>>

ReceiveInterval(r) ==
    /\ pc[r] = "interval" /\ Receive(r, "interval")
    /\ batchesAvg' = [batchesAvg EXCEPT ![r] = Head(chan[r]).number]
    /\ NextEpoch(r)
    /\ UNCHANGED <<program, param, nbpp, weightVars>>

-----------------------------------------------------------------------------
(* early_stopping_on_...(): rank 0 compares losses or metrics, whose values *)
(* are not in the model; the others have an uninitialised result until the  *)
(* broadcast.                                                               *)
Stopping(r, stop) == IF stop = 1 THEN Goto(r, "done") /\ UNCHANGED fit
                     ELSE AfterFit(r)

DecideStop ==
    /\ pc[0] = "early"
    /\ \E stop \in {0, 1} : Broadcast("stop", Nothing, stop) /\ Stopping(0, stop)
    /\ UNCHANGED <<program, epoch, batch, param, nbpp, batchesAvg, weightVars>>

ReceiveStop(r) ==
    /\ pc[r] = "early" /\ Receive(r, "stop")
    /\ Stopping(r, Head(chan[r]).number)
    /\ UNCHANGED <<program, epoch, batch, param, nbpp, batchesAvg, weightVars>>

-----------------------------------------------------------------------------
RankStep(r) == \/ SetAvgMethod(r) \/ SetBatch(r) \/ SetNBPP(r)
               \/ ReceiveWeights(r) \/ ReceiveInterval(r) \/ ReceiveStop(r)
               \/ TrainBatch(r) \/ AvgWeights(r) \/ EndEpoch(r)

RootStep == SendWeights \/ UpdateInterval \/ UpdateFails \/ DecideStop

Joint == Barrier \/ Reduce \/ AvgMetrics

Next == Joint \/ RootStep \/ \E r \in Rank : RankStep(r)

Spec == Init /\ [][Next]_vars

\* Processes run, and MPI completes what everybody has called.
FairSpec == Spec /\ WF_vars(Joint) /\ WF_vars(RootStep)
                 /\ \A r \in Rank : WF_vars(RankStep(r))
-----------------------------------------------------------------------------
Waiting   == {"methodSet", "batchSet", "nbppSet", "reduce", "metrics"}
Receiving == [bcast |-> "weights", interval |-> "interval", early |-> "stop"]
Running   == {"method", "fit", "nbpp", "train", "avg"}
Ended     == {"done", "crashed"}

Packet == [op : {"weights", "interval", "stop"}, weights : [Rank -> Nat],
           number : Nat]

TypeOK ==
    /\ program \in Programs
    /\ pc \in [Rank -> Waiting \cup DOMAIN Receiving \cup Running \cup Ended]
    /\ fit \in [Rank -> DOMAIN program.fits]
    /\ epoch \in [Rank -> Nat] /\ batch \in [Rank -> Nat]
    /\ param \in [Rank -> Param]
    /\ nbpp \in [Rank -> Nat] /\ batchesAvg \in [Rank -> Nat]
    /\ chan \in [Rank -> Seq(Packet)]
    /\ trained \in [Rank -> Nat]
    /\ know \in [Rank -> [Param -> [Rank -> Nat]]]

\* Ranks that wait, wait for the same collective, and what the root has
\* broadcast is what they ask for: no rank takes part in an average, or stops
\* training, alone.
CollectivesMatch ==
    \A r, s \in Rank :
        /\ {pc[r], pc[s]} \subseteq Waiting => pc[r] = pc[s] /\ param[r] = param[s]
        /\ pc[r] \in Waiting /\ pc[s] \in DOMAIN Receiving => r # 0 \/ chan[s] # <<>>
        /\ chan[r] # <<>> =>
               /\ pc[r] \notin Waiting \cup Ended
               /\ pc[r] \in DOMAIN Receiving => Head(chan[r]).op = Receiving[pc[r]]
               /\ pc[r] = "bcast" => Head(chan[r]).number = param[r]

\* The weights of every rank have all batches it trained itself, also after the
\* broadcast that starts the next fit() and overwrites them with the root's; and
\* all batches of the others but those of the interval under way, or of the epoch
\* where that is shorter.  (With an interval of 0 a rank trains one batch before
\* it divides by it.)
DriftIsBounded ==
    \A r, s \in Rank, p \in Param :
        trained[r] - know[s][p][r] <=
            IF r = s THEN 0 ELSE Smaller(Larger(batchesAvg[r], 1), nbpp[r])

\* A fit() in which no rank gets a batch.
IsEmpty(f) == LocalBatch(f) # 0 /\ BatchesPerProc(f) = 0

\* Nobody divides by zero but for a batch smaller than the number of processes,
\* an epoch_avg or a batch_avg of 0, which set_avg_method_distributed() takes as
\* they are, or an interval left over from an empty fit() before: no rule for the
\* next interval rounds a positive one down to 0.
CrashHasCause ==
    \A r \in Rank : pc[r] = "crashed" =>
        \/ LocalBatch(program.fits[fit[r]]) = 0
        \/ program.method \in Periodic /\ program.every = 0
        \/ program.avg = 0
        \/ \E k \in 1 .. fit[0] : IsEmpty(program.fits[k])

\* Every rank comes to the end of the program, or one of them crashes.
TrainingEnds == <>(\/ \A r \in Rank : pc[r] = "done"
                  \/ \E r \in Rank : pc[r] = "crashed")
=============================================================================
