------------------------------ MODULE Training ------------------------------
(***************************************************************************)
(* A program that builds its nets and trains them with the calls of the API: *)
(* train_batch() and eval_batch(), or forward(), backward(), update() and     *)
(* zeroGrads() by themselves, and loss graphs with compute_loss() and          *)
(* optimize().  What a net does on several devices is split: each device       *)
(* has a slice of the batch and weights of its own, which are averaged every    *)
(* lsb batches.                                                                *)
(***************************************************************************)
EXTENDS Backprop, Devices

\* What a program may do is part of its architecture, too: the batch sizes and
\* the number of calls (a bound).
ASSUME TrainingAssumption ==
    \A a \in Architectures : /\ a.lsb \in Nat /\ a.sizes \subseteq Nat \ {0}
                             /\ a.calls \in Nat

VARIABLES slices,  \* [net -> batch size of each device]
          tr,      \* [net -> tr_batches]
          drift,   \* [net -> updates since its devices' weights were equal]
          pace,    \* [net -> how it is trained; "loose": not regularly]
          calls    \* how many calls the program has made

paceVars == <<tr, drift, pace>>
vars == <<graphVars, backVars, slices, paceVars, calls>>

Init ==
    /\ GraphInit /\ BackInit
    /\ slices = [n \in DOMAIN arch.models |-> [d \in 1 .. arch.devices |-> 1]]
    /\ tr = [n \in DOMAIN arch.models |-> 0]
    /\ drift = [n \in DOMAIN arch.models |-> 0]
    /\ pace = [n \in DOMAIN arch.models |-> "new"]
    /\ calls = 0

Build == GraphStep /\ UNCHANGED <<backVars, slices, paceVars, calls>>

\* The next call of the program.
Call == /\ phase = "built" /\ todo = <<>> /\ calls < arch.calls
        /\ calls' = calls + 1

-----------------------------------------------------------------------------
(* Devices. *)

TooFew(b) == b < arch.devices

\* resize() and the reset() at its end.
Resized(st, n, b) ==
    IF b = st.batch[n] THEN st ELSE Reset([st EXCEPT !.batch[n] = b], n)

Resize(n, b) ==
    slices' = IF b = batch[n] THEN slices ELSE [slices EXCEPT ![n] = Slices(b, @)]

\* Whether sync_weights() is called after that many batches, in train_batch()
\* and in update().
SyncAfterTrain(t) == t % arch.lsb = 0
\* Mutant: update() takes the batch before.
SyncAfterUpdateLate(t) == t % (arch.lsb + 1) = 1
SyncAfterUpdate(t) == t % arch.lsb = 1

\* With lsb 0 the remainder does not exist.
NoRemainder == arch.devices > 1 /\ arch.lsb = 0

\* applygrads() on every device, and sync_weights() or not.
Apply(n, sync) ==
    drift' = [drift EXCEPT ![n] =
                 IF arch.devices = 1 \/ (~ NoRemainder /\ sync) THEN 0 ELSE @ + 1]

\* Regular training: only train_batch(), or one backward() before each update().
Paced(n, from, to) ==
    pace' = [pace EXCEPT ![n] = IF @ \in from THEN to ELSE "loose"]

-----------------------------------------------------------------------------
(* Calls for one net. *)

ZeroCall(n) ==
    /\ Call
    /\ gradient' = ZeroGrads(State, n).gradient /\ due' = NothingDue(n)
    /\ causes' = [causes EXCEPT ![n] = {}]
    /\ UNCHANGED <<graphVars, deltaVars, chainVars, batch, used, todo, slices, paceVars>>

\* The forward sweep itself is not modelled; what comes before it is. With too
\* few samples an exception ends the call after resize().
Feed(n, b, from) ==
    /\ Resize(n, b)
    /\ link' = [link EXCEPT ![n] = from]
    /\ detached' = detached \ LayersOf(n) /\ used' = used \ LayersOf(n)
    /\ UNCHANGED <<graphVars, todo, paceVars>>

\* forward() with tensors. netinput stays as it is.
Forward(n, b) ==
    /\ Call /\ ~ Model(n).isLoss
    /\ Becomes(Resized(Reset(State, n), n, b))
    /\ Feed(n, b, <<>>)
    /\ UNCHANGED <<due, netinput, causes>>

\* The layers that net n goes on from are layers of nets, one for each of its
\* inputs, and of one batch size.
CanChain(n) ==
    /\ Model(n).feeds # <<>> /\ Len(Model(n).feeds) = Len(Host(n).lin)
    /\ Elements(Model(n).feeds) \subseteq InNets
    /\ \A i, j \in DOMAIN Model(n).feeds :
           batch[NetOf(Model(n).feeds[i])] = batch[NetOf(Model(n).feeds[j])]

FeedingBatch(n) == batch[NetOf(Model(n).feeds[1])]

\* forward() with layers of other nets.
ForwardChain(n) ==
    /\ Call /\ ~ Model(n).isLoss /\ CanChain(n)
    /\ Becomes(Resized(Reset(State, n), n, FeedingBatch(n)))
    /\ Feed(n, FeedingBatch(n), Model(n).feeds)
    /\ netinput' = [netinput EXCEPT ![n] = Model(n).feeds]
    /\ UNCHANGED <<due, causes>>

\* compute_loss() of a loss graph; delta() comes with it.
Compute(n, fill) ==
    LET b == FeedingBatch(n)
        st == Resized(ZeroGrads(Reset(State, n), n), n, b)
    IN  /\ Call /\ Model(n).isLoss /\ CanChain(n)
        /\ Becomes(IF TooFew(b) THEN st ELSE DoDelta(st, n, fill))
        /\ Feed(n, b, Model(n).feeds)
        /\ netinput' = [netinput EXCEPT ![n] = Model(n).feeds]
        /\ due' = NothingDue(n) /\ causes' = [causes EXCEPT ![n] = {}]

Detach(l) ==
    /\ Call /\ detached' = detached \cup {l}
    /\ UNCHANGED <<graphVars, deltaVars, gradVars, netinput, link, batch, used,
                   causes, todo, slices, paceVars>>

-----------------------------------------------------------------------------
(* Sweeps. *)

\* backward() of a net with its targets, or without any, is one sweep ...
Backward(n) ==
    /\ Call /\ ~ Model(n).isLoss /\ ~ TooFew(batch[n])
    /\ due' = MoreDue(due, n, {n})
    /\ todo' = <<[net |-> n, call |-> "target"]>>
    /\ UNCHANGED <<graphVars, deltaVars, gradient, chainVars, batch, used, causes,
                   slices, paceVars>>

\* ... and that of a loss, optimize(), goes back through the nets before it.
Optimize(n) ==
    /\ Call /\ Model(n).isLoss /\ \A m \in 1 .. n : ~ TooFew(batch[m])
    /\ due' = MoreDue(due, n, Upstream(n))
    /\ todo' = <<[net |-> n, call |-> "loss"]>>
    /\ UNCHANGED <<graphVars, deltaVars, gradient, chainVars, batch, used, causes,
                   slices, paceVars>>

\* One net's part in it.
SweepStep(fill) ==
    /\ phase = "built" /\ todo # <<>>
    /\ Sweep(fill)
    /\ LET n == Head(todo).net
       IN  /\ tr' = [tr EXCEPT ![n] = @ + 1]
           /\ Paced(n, {"new", "updated"}, "swept")
    /\ UNCHANGED <<arch, nets, twin, ends, walkVars, sortVars, forward, slices,
                   drift, calls>>

\* update(). The exception for too few samples comes after the update.
Update(n) ==
    /\ Call /\ ~ Model(n).isLoss
    /\ IF TooFew(batch[n])
       THEN Apply(n, FALSE) /\ Paced(n, {}, "loose") /\ UNCHANGED phase
       ELSE /\ Apply(n, SyncAfterUpdate(tr[n]))
            /\ Paced(n, {"swept"}, "updated")
            /\ phase' = IF NoRemainder THEN "crashed" ELSE phase
    /\ UNCHANGED <<arch, nets, twin, ends, walkVars, sortVars, forward, backVars,
                   slices, tr>>

-----------------------------------------------------------------------------
(* train_batch() and eval_batch(). *)

\* do_reset() on the devices leaves the marks of the net's own layers.
Reattached(n, b) ==
    IF arch.devices = 1 \/ b # batch[n] THEN detached \ LayersOf(n) ELSE detached

TrainTooFew(n, b) ==
    /\ Becomes(Resized(State, n, b))
    /\ used' = IF b = batch[n] THEN used ELSE used \ LayersOf(n)
    /\ Paced(n, {}, "loose")
    /\ UNCHANGED <<phase, due, link, causes, drift>>

TrainAll(n, b, fill) ==
    LET st == ZeroGrads(Reset(Resized(State, n, b), n), n)
        trained == DoBackward(DoDelta(st, n, fill), n, fill)
    IN  /\ Becomes(trained)
        /\ phase' = IF trained.broken \/ NoRemainder THEN "crashed" ELSE phase
        /\ due' = MoreDue(NothingDue(n), n, {n})
        /\ link' = [link EXCEPT ![n] = <<>>]
        /\ used' = used \cup LayersOf(n)
        /\ causes' = [causes EXCEPT ![n] = SweepCauses(st, n, {}, FALSE)]
        /\ Apply(n, SyncAfterTrain(tr[n] + 1))
        /\ Paced(n, {"new", "train"}, "train")

TrainBatch(n, b, fill) ==
    /\ Call /\ ~ Model(n).isLoss
    /\ tr' = [tr EXCEPT ![n] = @ + 1]
    /\ Resize(n, b) /\ detached' = Reattached(n, b)
    /\ IF TooFew(b) THEN TrainTooFew(n, b) ELSE TrainAll(n, b, fill)
    /\ UNCHANGED <<arch, nets, twin, ends, walkVars, sortVars, forward, netinput, todo>>

EvalTooFew(n, b) ==
    /\ Becomes(Resized(State, n, b))
    /\ used' = IF b = batch[n] THEN used ELSE used \ LayersOf(n)
    /\ UNCHANGED <<due, link, causes>>

EvalAll(n, b) ==
    /\ Becomes(ZeroGrads(Reset(Resized(State, n, b), n), n))
    /\ due' = NothingDue(n) /\ causes' = [causes EXCEPT ![n] = {}]
    /\ link' = [link EXCEPT ![n] = <<>>]
    /\ used' = used \ LayersOf(n)

EvalBatch(n, b) ==
    /\ Call /\ ~ Model(n).isLoss
    /\ Resize(n, b) /\ detached' = Reattached(n, b)
    /\ IF TooFew(b) THEN EvalTooFew(n, b) ELSE EvalAll(n, b)
    /\ UNCHANGED <<graphVars, netinput, todo, paceVars>>

-----------------------------------------------------------------------------
Next ==
    \/ Build
    \/ \E n \in Net : ZeroCall(n) \/ ForwardChain(n) \/ Backward(n) \/ Optimize(n) \/ Update(n)
    \/ \E n \in Net, b \in arch.sizes : Forward(n, b) \/ EvalBatch(n, b)
    \/ \E n \in Net, fill \in Fill : Compute(n, fill)
    \/ \E n \in Net, b \in arch.sizes, fill \in Fill : TrainBatch(n, b, fill)
    \/ \E n \in Net : \E l \in Elements(Model(n).feeds) : Detach(l)
    \/ \E fill \in Fill : SweepStep(fill)

Spec == Init /\ [][Next]_vars

-----------------------------------------------------------------------------
TypeOK ==
    /\ GraphTypeOK \/ phase = "crashed"
    /\ has \subseteq Layer /\ used \subseteq Layer /\ detached \subseteq Layer
    /\ {content, size, gradient, due} \subseteq [Layer -> Nat]
    /\ \A l \in Layer : IsView(l) /\ l \in has => Buffer(l) \in has
    /\ DOMAIN slices = DOMAIN arch.models
    /\ \A n \in DOMAIN slices : slices[n] \in [1 .. arch.devices -> Nat \ {0}]
    /\ {tr, drift} \subseteq [DOMAIN arch.models -> Nat]
    /\ pace \in [DOMAIN arch.models -> {"new", "train", "swept", "updated", "loose"}]

\* Whatever program of these calls is run, and however its nets are linked: the
\* weights of a layer get the gradient that is due to them, the sum over all
\* paths to the losses since the gradients were zeroed, unless a cause is known.
GradientsAreExact ==
    phase = "built" /\ todo = <<>> =>
        \A n \in Net : causes[n] = {} =>
            \A l \in LayersOf(n) : HasWeights(l) => gradient[l] = due[l]

\* A layer that is neither an output nor the parent of another layer of its net.
HasDeadEnd(n) ==
    \E l \in LayersOf(n) \ Elements(Host(n).lout) :
        \A k \in LayersOf(n) : l \notin Elements(arch.parent[k])

\* A sweep finds the deltas it needs.  It does not for a layer that leads
\* nowhere, and an lsb of 0 cannot be divided by.
CrashHasCause ==
    phase = "crashed" => NoRemainder \/ \E n \in Net : HasDeadEnd(n)

\* A net that is trained regularly never makes more than lsb - 1 updates without
\* its devices' weights being averaged; update() needs an lsb of at least 2.
DevicesStayClose ==
    phase = "built" /\ arch.devices > 1 =>
        \A n \in Net :
            pace[n] = "train" \/ (pace[n] \in {"swept", "updated"} /\ arch.lsb > 1)
                => drift[n] < arch.lsb
=============================================================================
