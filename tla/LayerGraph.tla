----------------------------- MODULE LayerGraph -----------------------------
(***************************************************************************)
(* How a net is put together: Model() collects the layers between its       *)
(* inputs and its outputs by walking the graph forward and backward, sorts   *)
(* them, and build() sorts them once more for the forward and the backward   *)
(* sweep.  A net that computes on several devices is then cloned layer by    *)
(* layer, and the clones are collected and sorted anew into a twin net; from *)
(* then on a layer and its clone find each other by their position.         *)
(*                                                                         *)
(* Layers are numbered in the order of their creation.  A clone goes by the  *)
(* number of the layer it is a clone of.                                    *)
(***************************************************************************)
EXTENDS Integers, Sequences, FiniteSets

CONSTANT Architectures  \* the programs' layers, models and computing services

ASSUME ArchitectureAssumption ==
    \A a \in Architectures :
        /\ a.parent \in Seq(Seq(Nat)) /\ a.parent # <<>>
        /\ \A l \in DOMAIN a.parent : \A k \in DOMAIN a.parent[l] :
               a.parent[l][k] \in 1 .. l - 1
        /\ a.models \in Seq([in : Seq(DOMAIN a.parent), out : Seq(DOMAIN a.parent),
                             losses : Nat, mem : {0, 1}, isLoss : BOOLEAN,
                             feeds : Seq(DOMAIN a.parent)])
        /\ a.devices \in Nat \ {0}

VARIABLES arch,    \* the program's choice
          nets,    \* the nets that are built
          phase,   \* what is being done for the next one
          twin,    \* the net being built is the twin of this one, if any
          ends,    \* its inputs and outputs
          stack,   \* layers still to be walked to
          front,   \* layersf
          back,    \* layersb
          layers,  \* its layers
          count,   \* gin, gout: how often a layer still waits for another
          order,   \* the layers sorted so far; those have been visited
          forward  \* vfts, once it is complete

walkVars  == <<stack, front, back>>
sortVars  == <<layers, count, order>>
buildVars == <<nets, phase, twin, ends, walkVars, sortVars, forward>>
graphVars == <<arch, buildVars>>

Elements(s) == {s[i] : i \in DOMAIN s}

\* The elements of s that are in S, in their order.
Kept(s, S) ==
    LET kept[i \in 0 .. Len(s)] ==
            IF i = 0 THEN <<>>
            ELSE IF s[i] \in S THEN Append(kept[i - 1], s[i]) ELSE kept[i - 1]
    IN  kept[Len(s)]

Layer == DOMAIN arch.parent
NoNet == <<>>

\* An edge is a layer and the position of one of its parents; LAdd({x, x}) has
\* two.
Edge == UNION {{l} \X DOMAIN arch.parent[l] : l \in Layer}
Parent(e) == arch.parent[e[1]][e[2]]
Child(e) == e[1]

\* What a sort puts first: parents, or children for the backward sweep.
Before(p, e) == IF p = "bts" THEN Child(e) ELSE Parent(e)
After(p, e) == IF p = "bts" THEN Parent(e) ELSE Child(e)

\* Edges that keep layer l waiting for one of the layers in S.
Waits(p, l, S) == {e \in Edge : After(p, e) = l /\ Before(p, e) \in S}

Counts(p, S) == [l \in S |-> Cardinality(Waits(p, l, S))]

-----------------------------------------------------------------------------
GraphInit ==
    /\ arch \in Architectures
    /\ nets = <<>> /\ phase = "model" /\ twin = NoNet
    /\ ends = [in |-> <<>>, out |-> <<>>]
    /\ stack = <<>> /\ front = <<>> /\ back = <<>>
    /\ layers = <<>> /\ count = <<>> /\ order = <<>> /\ forward = <<>>

\* The constructor of Net, for a model of the program ...
StartModel ==
    /\ phase = "model" /\ Len(nets) < Len(arch.models)
    /\ LET m == arch.models[Len(nets) + 1]
       IN  /\ ends' = [in |-> m.in, out |-> m.out]
           /\ stack' = m.in
    /\ phase' = "walk"
    /\ UNCHANGED <<arch, nets, twin, front, back, sortVars, forward>>

\* The layers there are to walk to, in the order of their creation.
Created == IF twin = NoNet THEN [l \in Layer |-> l] ELSE twin.forward

\* addchild() appends to the children. A child that comes twice is left out:
\* walk() returns at the second one.
Children(l) == Kept(Created, {c \in Layer : l \in Elements(arch.parent[c])})
Parents(l) == Kept(arch.parent[l], Elements(Created))

\* walk() goes from the inputs to the outputs, walk_back() from the outputs to
\* wherever they come from; both are recursive and append on the way down.
WalkTo(l) == IF l \in Elements(ends.out) THEN <<>> ELSE Children(l)

Walk ==
    /\ phase = "walk" /\ stack # <<>>
    /\ LET l == Head(stack)
       IN  IF l \in Elements(front)
           THEN stack' = Tail(stack) /\ UNCHANGED front
           ELSE stack' = WalkTo(l) \o Tail(stack) /\ front' = Append(front, l)
    /\ UNCHANGED <<arch, nets, phase, twin, ends, back, sortVars, forward>>

TurnBack ==
    /\ phase = "walk" /\ stack = <<>>
    /\ phase' = "walk_back" /\ stack' = ends.out
    /\ UNCHANGED <<arch, nets, twin, ends, front, back, sortVars, forward>>

WalkBack ==
    /\ phase = "walk_back" /\ stack # <<>>
    /\ LET l == Head(stack)
       IN  IF l \in Elements(back)
           THEN stack' = Tail(stack) /\ UNCHANGED back
           ELSE stack' = Parents(l) \o Tail(stack) /\ back' = Append(back, l)
    /\ UNCHANGED <<arch, nets, phase, twin, ends, front, sortVars, forward>>

\* A sort begins: nothing is visited, the links are counted.
BeginSort(p, ls) ==
    /\ phase' = p /\ layers' = ls /\ order' = <<>>
    /\ count' = Counts(p, Elements(ls))

Collected == front \o Kept(back, Elements(back) \ Elements(front))

Collect ==
    /\ phase = "walk_back" /\ stack = <<>>
    /\ BeginSort("sort", Collected)
    /\ front' = <<>> /\ back' = <<>>
    /\ UNCHANGED <<arch, nets, twin, ends, stack, forward>>

-----------------------------------------------------------------------------
\* fts() and bts().
Sorting == {"sort", "fts", "bts"}
Unvisited == Elements(layers) \ Elements(order)
Ready == {i \in DOMAIN layers : layers[i] \in Unvisited /\ count[layers[i]] = 0}

First(S) == CHOOSE i \in S : \A j \in S : i <= j

\* Mutant: two edges between the same layers count as one.
ReleasedOnce(p, from, l) ==
    IF \E e \in Edge : Before(p, e) = from /\ After(p, e) = l THEN 1 ELSE 0

\* How often layer l no longer waits for layer from.
Released(p, from, l) ==
    Cardinality({e \in Edge : Before(p, e) = from /\ After(p, e) = l})

\* With none ready there is "error recurrent net", an exception.
Visit ==
    /\ phase \in Sorting /\ Unvisited # {}
    /\ IF Ready = {}
       THEN phase' = "recurrent" /\ UNCHANGED <<count, order>>
       ELSE LET l == layers[First(Ready)]
            IN  /\ order' = Append(order, l)
                /\ count' = [m \in DOMAIN count |-> count[m] - Released(phase, l, m)]
                /\ UNCHANGED phase
    /\ UNCHANGED <<arch, nets, twin, ends, walkVars, layers, forward>>

\* The layers of the net keep the forward sort; make_graph() sorts them again.
Resort ==
    /\ phase = "sort" /\ Unvisited = {}
    /\ BeginSort("fts", order)
    /\ UNCHANGED <<arch, nets, twin, ends, walkVars, forward>>

SortedForward ==
    /\ phase = "fts" /\ Unvisited = {}
    /\ forward' = order
    /\ BeginSort("bts", layers)
    /\ UNCHANGED <<arch, nets, twin, ends, walkVars>>

-----------------------------------------------------------------------------
\* What there is now of a net.
Finished == [layers |-> layers, lin |-> ends.in, lout |-> ends.out,
             forward |-> forward, backward |-> order]

\* Mutant: the inputs are found in backward order.
AmongReversed(s, ls) ==
    LET found == Kept(s, Elements(ls))
    IN  [i \in DOMAIN found |-> found[Len(found) + 1 - i]]

\* split() finds inputs and outputs in the order in which it clones.
Among(s, ls) == Kept(s, Elements(ls))

Idle == /\ ends' = [in |-> <<>>, out |-> <<>>] /\ stack' = <<>>
        /\ layers' = <<>> /\ count' = <<>> /\ order' = <<>> /\ forward' = <<>>
        /\ UNCHANGED <<front, back>>

\* split() clones the layers in forward order; the twins of all devices are
\* alike, so one stands for them.
Split ==
    /\ phase = "bts" /\ Unvisited = {} /\ twin = NoNet /\ arch.devices > 1
    /\ twin' = Finished
    /\ LET in == Among(forward, ends.in)
       IN  /\ ends' = [in |-> in, out |-> Among(forward, ends.out)]
           /\ stack' = in
    /\ phase' = "walk"
    /\ layers' = <<>> /\ count' = <<>> /\ order' = <<>> /\ forward' = <<>>
    /\ UNCHANGED <<arch, nets, front, back>>

\* On one device the net is its own twin (snets = {this}).
Built ==
    /\ phase = "bts" /\ Unvisited = {} /\ (twin # NoNet \/ arch.devices = 1)
    /\ LET host == IF twin = NoNet THEN Finished ELSE twin
       IN  nets' = Append(nets, [host |-> host, device |-> Finished])
    /\ phase' = IF Len(nets') = Len(arch.models) THEN "built" ELSE "model"
    /\ twin' = NoNet
    /\ Idle
    /\ UNCHANGED arch

GraphStep ==
    \/ StartModel \/ Walk \/ TurnBack \/ WalkBack \/ Collect
    \/ Visit \/ Resort \/ SortedForward \/ Split \/ Built

GraphSpec == GraphInit /\ [][GraphStep]_graphVars

-----------------------------------------------------------------------------
GraphTypeOK ==
    /\ phase \in {"model", "walk", "walk_back", "recurrent", "built"} \cup Sorting
    /\ \A s \in {stack, front, back, layers, order, forward, ends.in, ends.out} :
           s \in Seq(Layer)
    /\ DOMAIN count \subseteq Layer /\ \A l \in DOMAIN count : count[l] \in Nat

Position(s, l) == CHOOSE i \in DOMAIN s : s[i] = l

\* s has every layer of S once, and edges within S go forward in it.
Sorts(p, s, S) ==
    /\ Elements(s) = S /\ Len(s) = Cardinality(S)
    /\ \A e \in Edge : {Parent(e), Child(e)} \subseteq S =>
           Position(s, Before(p, e)) < Position(s, After(p, e))

\* No sort gives up, however often layers are linked and in whatever order the
\* walks found them, and every sweep comes to a layer after all it depends on
\* and to every layer once.
SortsAreTopological ==
    /\ phase # "recurrent"
    /\ \A i \in DOMAIN nets : \A n \in {nets[i].host, nets[i].device} :
           /\ Sorts("fts", n.forward, Elements(n.layers))
           /\ Sorts("bts", n.backward, Elements(n.layers))

\* A twin repeats the net if the layers were created in the order of the
\* forward sort and the model lists its inputs and outputs in that order.
\* Otherwise layers[j] and its clone on a device can be different layers.
InCreationOrder(s) == \A i, j \in DOMAIN s : i < j => s[i] < s[j]

TwinsMatch ==
    \A i \in DOMAIN nets :
        LET h == nets[i].host
        IN  InCreationOrder(h.layers) /\ InCreationOrder(h.lin) /\ InCreationOrder(h.lout)
              => nets[i].device = h
=============================================================================
