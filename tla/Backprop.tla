------------------------------ MODULE Backprop ------------------------------
(***************************************************************************)
(* The gradients of the layers of one program: which deltas exist, what is  *)
(* in them, how a backward sweep adds them up, and how it goes on to the     *)
(* nets that an input came from.                                            *)
(*                                                                         *)
(* Every derivative is 1, so a delta counts the paths from a layer to the    *)
(* losses, and a gradient the paths of all sweeps since it was zeroed; `due' *)
(* is what it ought to be.  Layers that only show their parent's data in      *)
(* another form (Reshape and its like) have their parent's delta, too.       *)
(* Inputs and these have no weights, all other layers do.                    *)
(*                                                                         *)
(* The code does not always compute what is due.  `causes' collects the      *)
(* reasons it may have had not to.                                          *)
(***************************************************************************)
EXTENDS LayerGraph, SequencesExt, FiniteSetsExt

CONSTANT Fill  \* what memory may hold that was not initialised

ASSUME FillAssumption == Fill \subseteq Nat /\ Fill # {}

\* A view is one of a parent's data.
ASSUME BackpropAssumption ==
    \A a \in Architectures : /\ a.views \subseteq DOMAIN a.parent
                             /\ \A l \in a.views : Len(a.parent[l]) = 1

VARIABLES has,       \* layers whose delta is not null
          content,   \* [Layer -> what is in the delta]
          size,      \* [Layer -> the batch size the delta was made for]
          gradient,  \* [Layer -> the gradient of its weights]
          due,       \* [Layer -> what that ought to be]
          netinput,  \* [net -> the layers its inputs were copied from]
          link,      \* the same, but true
          detached,  \* layers that pass nothing on to their net
          batch,     \* [net -> batch_size]
          used,      \* layers whose delta a sweep has used since it was reset
          causes,    \* [net -> why its gradients may be wrong]
          todo       \* calls of backward() to come

deltaVars == <<has, content, size>>
gradVars  == <<gradient, due>>
chainVars == <<netinput, link, detached>>
backVars  == <<deltaVars, gradVars, chainVars, batch, used, causes, todo>>

Net == DOMAIN nets
Host(n) == nets[n].host
LayersOf(n) == Elements(Host(n).layers)
Model(n) == arch.models[n]
NetOf(l) == CHOOSE n \in Net : l \in LayersOf(n)
InNets == UNION {LayersOf(n) : n \in Net}
IsInput(l) == arch.parent[l] = <<>>
IsView(l) == l \in arch.views
HasWeights(l) == ~ IsInput(l) /\ ~ IsView(l)

\* The layer whose memory a delta is in.
Buffer(l) == LET b[k \in Layer] == IF IsView(k) THEN b[arch.parent[k][1]] ELSE k
             IN  b[l]

\* A sweep is a fold over its layers that changes the deltas and gradients.
State == [has |-> has, content |-> content, size |-> size, batch |-> batch,
          gradient |-> gradient, broken |-> FALSE]

BackInit ==
    /\ has = {} /\ used = {} /\ detached = {} /\ todo = <<>>
    /\ content = [l \in Layer |-> 0] /\ size = [l \in Layer |-> 0]
    /\ gradient = [l \in Layer |-> 0] /\ due = [l \in Layer |-> 0]
    /\ netinput = [n \in DOMAIN arch.models |-> <<>>] /\ link = netinput
    /\ batch = [n \in DOMAIN arch.models |-> 1]
    /\ causes = [n \in DOMAIN arch.models |-> {}]

-----------------------------------------------------------------------------
(* Deltas. *)

\* Mutant: a view does not see to its parent.
NewDeltasHere(l, st) == {l} \ st.has

\* A view that has no delta yet takes its parent's, which is made if need be.
NewDeltas(l, st) ==
    LET new[k \in Layer] == IF k \in st.has THEN {}
                            ELSE IF IsView(k) THEN {k} \cup new[arch.parent[k][1]]
                            ELSE {k}
    IN  new[l]

\* mem_delta(): a new delta is zero, one of another batch size is replaced by
\* memory as it is.
MemDelta(st, l, fill) ==
    LET o == Buffer(l)
        b == IF l \in InNets THEN st.batch[NetOf(l)] ELSE 1
        new == NewDeltas(l, st)
    IN  IF o \notin st.has
        THEN [st EXCEPT !.has = @ \cup new, !.content[o] = 0, !.size[o] = b]
        ELSE IF st.size[o] # b
        THEN [st EXCEPT !.has = @ \cup new, !.content[o] = fill, !.size[o] = b]
        ELSE [st EXCEPT !.has = @ \cup new]

\* free_delta(); that of an input is only zeroed (and has to exist).
FreeDelta(st, l) ==
    IF IsInput(l)
    THEN [st EXCEPT !.content[l] = 0, !.broken = @ \/ l \notin st.has]
    ELSE [st EXCEPT !.has = @ \ {l}, !.content[l] = 0]

\* backward() of a layer with weights adds its delta to those of its parents,
\* once for each time it is a child.
PassedOn(st, l) ==
    [k \in Layer |-> st.content[k] + st.content[l] *
        Cardinality({i \in DOMAIN arch.parent[l] : Buffer(arch.parent[l][i]) = k})]

BackLayer(st, l) ==
    IF ~ HasWeights(l) THEN st
    ELSE IF l \notin st.has THEN [st EXCEPT !.broken = TRUE]
    ELSE [st EXCEPT !.content = PassedOn(st, l), !.gradient[l] = @ + st.content[l]]

\* Mutant: only an output with a loss gets a delta.
DoDeltaOfLosses(st, n, fill) ==
    LET Write(s, i) ==
            LET l == Host(n).lout[i]
            IN  [MemDelta(s, l, fill) EXCEPT !.content[Buffer(l)] = 1]
        with == {i \in DOMAIN Host(n).lout : i <= Model(n).losses}
    IN  FoldLeft(Write, st, [i \in with |-> i])

\* do_delta(): losses write into the deltas of the outputs.
DoDelta(st, n, fill) ==
    LET Write(s, i) ==
            LET l == Host(n).lout[i]
                t == MemDelta(s, l, fill)
            IN  IF i <= Model(n).losses THEN [t EXCEPT !.content[Buffer(l)] = 1] ELSE t
    IN  FoldLeft(Write, st, [i \in DOMAIN Host(n).lout |-> i])

\* do_backward().
DoBackward(st, n, fill) ==
    LET Visited(s, l) ==
            LET Mem(t, p) == MemDelta(t, p, fill)
                t == BackLayer(FoldLeft(Mem, s, arch.parent[l]), l)
            IN  IF s.broken \/ t.broken THEN [s EXCEPT !.broken = TRUE]
                ELSE IF Model(n).mem > 0 THEN FreeDelta(t, l) ELSE t
    IN  FoldLeft(Visited, st, Host(n).backward)

\* Net::backward() goes on: the delta of each input is copied to the layer its
\* data came from, unless that is detached.
CopyDeltas(st, n, fill) ==
    LET Copied(s, i) ==
            LET in == Host(n).lin[i]
                to == netinput[n][i]
                t == MemDelta(MemDelta(s, in, fill), to, fill)
            IN  IF to \in detached THEN s
                ELSE [t EXCEPT !.content[Buffer(to)] = t.content[Buffer(in)]]
    IN  FoldLeft(Copied, st, [i \in DOMAIN netinput[n] |-> i])

\* Takes over what a fold has found.
Becomes(st) ==
    /\ has' = st.has /\ size' = st.size
    /\ content' = [l \in Layer |-> IF l \in st.has THEN st.content[l] ELSE 0]
    /\ gradient' = st.gradient /\ batch' = st.batch

\* Mutant: do_reset() leaves the deltas as they are.
ResetNothing(st, n) == st

\* do_reset(): with the full memory deltas stay and are zeroed.
Reset(st, n) ==
    IF Model(n).mem > 0 THEN st
    ELSE [st EXCEPT !.content = [l \in Layer |->
              IF \E k \in LayersOf(n) \cap st.has : Buffer(k) = l THEN 0 ELSE st.content[l]]]

ZeroGrads(st, n) ==
    [st EXCEPT !.gradient = [l \in Layer |-> IF l \in LayersOf(n) THEN 0 ELSE @[l]]]

-----------------------------------------------------------------------------
(* What is due. *)

\* The positions of net k's inputs that pass something on.
Sources(k) == {i \in DOMAIN link[k] : link[k][i] \notin detached}

\* The nets that net n's data really went through: n, and with every net the
\* nets it went on from.
Upstream(n) ==
    LET whole(S) ==
            /\ n \in S
            /\ \A k \in S : \A i \in Sources(k) :
                   \A m \in 1 .. n : link[k][i] \in LayersOf(m) => m \in S
    IN  {m \in 1 .. n : \A S \in SUBSET (1 .. n) : whole(S) => m \in S}

\* The number of paths from each layer to the losses of net n, within the nets
\* in `through'.
Paths(n, through) ==
    LET seeds == {i \in 1 .. Model(n).losses : i <= Len(Host(n).lout)}
        p[l \in Layer] ==
            LET edges == {e \in Edge : Parent(e) = l
                              /\ \E m \in through : {l, Child(e)} \subseteq LayersOf(m)}
                copies == {c \in UNION {{k} \X Sources(k) : k \in through} :
                              link[c[1]][c[2]] = l /\ NetOf(l) \in through}
            IN  Cardinality({i \in seeds : Host(n).lout[i] = l})
                + MapThenSumSet(LAMBDA e : p[Child(e)], edges)
                + MapThenSumSet(LAMBDA c : p[Host(c[1]).lin[c[2]]], copies)
    IN  p

MoreDue(from, n, through) ==
    LET p == Paths(n, through)
    IN  [l \in Layer |-> from[l] + IF HasWeights(l) THEN p[l] ELSE 0]

NothingDue(n) == [l \in Layer |-> IF l \in LayersOf(n) THEN 0 ELSE due[l]]

-----------------------------------------------------------------------------
(* Why a sweep of net n may go wrong. *)

Shared(ls) == \E i, j \in DOMAIN ls : i # j /\ Buffer(ls[i]) = Buffer(ls[j])

SweepCauses(st, n, usedNow, chained) ==
    {c \in {"used before", "resized", "two outputs in one delta", "own loss"} :
        \/ c = "used before" /\ Model(n).mem = 0 /\ usedNow \cap LayersOf(n) # {}
        \/ /\ c = "resized"
           /\ \E l \in LayersOf(n) \cap st.has : st.size[Buffer(l)] # st.batch[n]
        \/ c = "two outputs in one delta" /\ Shared(Host(n).lout)
        \/ c = "own loss" /\ chained /\ Model(n).losses > 0}

ChainCauses(n) ==
    {c \in {"input delta zeroed", "not its input", "copied over"} :
        \/ c = "input delta zeroed" /\ netinput[n] # <<>> /\ Model(n).mem > 0
        \/ c = "not its input" /\ netinput[n] # link[n]
        \/ /\ c = "copied over"
           /\ \/ Shared(netinput[n])
              \/ \E l \in Elements(netinput[n]) : content[Buffer(l)] # 0}

-----------------------------------------------------------------------------
\* One net's turn in backward(): do_delta() and do_backward() on its devices.
\* Unless its targets were given (`call' is "target") it goes on to the nets
\* its inputs came from, the first one first.
NextNets(n) ==
    LET from == Kept(netinput[n], Layer \ detached)
        all == [i \in DOMAIN from |-> NetOf(from[i])]
        firsts == {i \in DOMAIN all : \A j \in 1 .. i - 1 : all[j] # all[i]}
        new == Kept([i \in DOMAIN all |-> i], firsts)
    IN  [i \in DOMAIN new |-> [net |-> all[new[i]], call |-> "chain"]]

Sweep(fill) ==
    LET n == Head(todo).net
        goesOn == Head(todo).call # "target"
        swept == DoBackward(DoDelta(State, n, fill), n, fill)
        st == IF goesOn /\ ~ swept.broken THEN CopyDeltas(swept, n, fill) ELSE swept
        own == SweepCauses(State, n, used, Head(todo).call = "chain")
    IN  /\ Becomes(st)
        /\ phase' = IF st.broken THEN "crashed" ELSE phase
        /\ todo' = (IF goesOn THEN NextNets(n) ELSE <<>>) \o Tail(todo)
        /\ netinput' = IF goesOn THEN [netinput EXCEPT ![n] = <<>>] ELSE netinput
        /\ link' = IF goesOn THEN [link EXCEPT ![n] = <<>>] ELSE link
        /\ used' = used \cup LayersOf(n)
        /\ causes' = [m \in DOMAIN causes |->
               causes[m] \cup (IF m = n \/ (goesOn /\ m < n) THEN own ELSE {})
                         \cup (IF goesOn /\ m < n THEN ChainCauses(n) ELSE {})]
        /\ UNCHANGED <<due, detached>>
=============================================================================
