------------------------------ MODULE Pooling ------------------------------
(***************************************************************************)
(* A pooling layer (max or average, over one, two or three dimensions): how *)
(* large its output is and how much padding it has, where its windows are,   *)
(* and what the tensors it keeps for the backward sweep have room for when    *)
(* the batch size changes.  A layer is copied when its net goes to several     *)
(* devices (clone()) or is unrolled (share()).                                *)
(*                                                                         *)
(* The three descriptors compute dimension by dimension, so that a layer is   *)
(* a sequence of dimensions.  That of one dimension has a second one of        *)
(* size 1, which its output does not show.                                    *)
(***************************************************************************)
EXTENDS Integers, Sequences

CONSTANTS Layers,   \* the pooling layers of the programs
          Batches   \* their batch sizes

\* Sizes are small enough to be exact as float.
Dimension == [in : Nat \ {0},           \* ir, ic, id
              kernel : Nat \ {0}, stride : Nat \ {0},
              pads : Nat \X Nat]        \* given pads, for "custom"

ASSUME PoolingAssumption ==
    /\ Batches \subseteq Nat \ {0}
    /\ \A l \in Layers :
           /\ l.dims \in Seq(Dimension) /\ l.dims # <<>>
           /\ l.padding \in {"same", "none", "custom"}
           /\ l.rank \in 1 .. 3 /\ l.max \in BOOLEAN /\ l.mem \in {0, 1}
           /\ l.rank = 1 => /\ Len(l.dims) = 2
                            /\ l.dims[2].in = 1 /\ l.dims[2].kernel = 1

VARIABLES layer,   \* the program's layer
          desc,    \* its descriptor, or that of a copy
          copied,  \* whether it is one
          pc,      \* what was done last
          batch,   \* samples of input and output
          index,   \* samples that indX, indY and indZ have room for
          delta    \* samples of delta; 0 if it is null

vars == <<layer, desc, copied, pc, batch, index, delta>>

Refused == [pads |-> <<>>, out |-> <<>>]

-----------------------------------------------------------------------------
(* compute_output() and compute_padding() *)

\* Mutant: the quotient is rounded down.
QuotientDown(x, s) == x \div s

\* ceil(x / s)
Quotient(x, s) == - ((- x) \div s)

OutputOf(padding, d) ==
    Quotient(IF padding = "same" THEN d.in ELSE d.in - (d.kernel - 1), d.stride)

\* Mutant: the last window ends where the input does.
OutputWithinUnpadded(p, d) == (d.in - d.kernel + p[1]) \div d.stride + 1

\* With known pads. The conversion to int rounds towards zero, which for a
\* number below zero is no less than one above: no output either way.
OutputWithin(p, d) == (d.in - d.kernel + p[1] + p[2]) \div d.stride + 1

\* Mutant: the odd one is left out.
PaddingEven(padding, d) ==
    LET pad == (OutputOf(padding, d) - 1) * d.stride + d.kernel - d.in
    IN  IF padding = "same" /\ pad > 0 THEN <<pad \div 2, pad \div 2>> ELSE <<0, 0>>

Padding(padding, d) ==
    LET pad == (OutputOf(padding, d) - 1) * d.stride + d.kernel - d.in
    IN  IF padding = "same" /\ pad > 0 THEN <<pad \div 2, pad - pad \div 2>>
        ELSE <<0, 0>>

-----------------------------------------------------------------------------
(* build() *)

\* With known pads, those of the first dimension count for all of them.
Custom(dims, pads) ==
    [pads |-> pads,
     out  |-> [i \in DOMAIN dims |-> OutputWithin(pads[1], dims[i])]]

Common(dims, padding) ==
    [pads |-> [i \in DOMAIN dims |-> Padding(padding, dims[i])],
     out  |-> [i \in DOMAIN dims |-> OutputOf(padding, dims[i])]]

\* There has to be an output, and LMaxPool and LAveragePool insist on the same
\* padding on both sides; otherwise there is an exception.
Accepted(l, d) ==
    /\ \A i \in DOMAIN d.out : d.out[i] > 0
    /\ l.rank = 2 => \A i \in DOMAIN d.pads : d.pads[i][1] = d.pads[i][2]

Build(l) ==
    LET d == IF l.padding = "custom"
             THEN Custom(l.dims, [i \in DOMAIN l.dims |-> l.dims[i].pads])
             ELSE Common(l.dims, l.padding)
    IN  IF Accepted(l, d) THEN d ELSE Refused

Init ==
    /\ layer \in Layers
    /\ desc = Build(layer)
    /\ copied = FALSE /\ pc = "built"
    /\ batch = 1 /\ index = 1 /\ delta = 0

\* clone() and share() give the pads that were computed to a new descriptor.
Copied(l, d) ==
    LET c == Custom(l.dims, d.pads)
    IN  IF Accepted(l, c) THEN c ELSE Refused

Copy ==
    /\ pc = "built" /\ ~ copied /\ desc # Refused
    /\ copied' = TRUE /\ desc' = Copied(layer, desc)
    /\ UNCHANGED <<layer, pc, batch, index, delta>>

-----------------------------------------------------------------------------
(* Use *)

\* The indices are allocated anew.
RoomForIndices(b) == b

\* Net::resize() is followed by a forward sweep.
Resize(b) ==
    /\ pc \in {"built", "forward"} /\ desc # Refused /\ b # batch
    /\ batch' = b /\ index' = RoomForIndices(b)
    /\ pc' = "built"
    /\ UNCHANGED <<layer, desc, copied, delta>>

Forward ==
    /\ pc \in {"built", "forward"} /\ desc # Refused
    /\ pc' = "forward"
    /\ UNCHANGED <<layer, desc, copied, batch, index, delta>>

\* Mutant: a delta that is there is kept.
DeltaOnce(rank) == IF delta = 0 THEN batch ELSE delta

\* mem_delta(): only LPool replaces one of another size.
Delta(rank) == IF delta = 0 \/ rank = 2 THEN batch ELSE delta

MemDelta ==
    /\ pc = "forward"
    /\ delta' = Delta(layer.rank)
    /\ pc' = "ready"
    /\ UNCHANGED <<layer, desc, copied, batch, index>>

\* backward() reads the delta and the indices of every window, and free_delta()
\* follows if memory is short.
Backward ==
    /\ pc = "ready"
    /\ delta' = IF layer.mem > 0 THEN 0 ELSE delta
    /\ pc' = "forward"
    /\ UNCHANGED <<layer, desc, copied, batch, index>>

Next == Copy \/ Forward \/ MemDelta \/ Backward \/ \E b \in Batches : Resize(b)

Spec == Init /\ [][Next]_vars

-----------------------------------------------------------------------------
(* What it is for. *)

TypeOK ==
    /\ copied \in BOOLEAN
    /\ pc \in {"built", "forward", "ready"}
    /\ batch \in Batches \cup {1} /\ index \in Batches \cup {1}
    /\ delta \in Batches \cup {0, 1}
    /\ \/ desc = Refused
       \/ /\ desc.pads \in [DOMAIN layer.dims -> Nat \X Nat]
          /\ desc.out \in [DOMAIN layer.dims -> Nat \ {0}]

\* Where the windows of a dimension start, by the loops of build() and of the
\* sweeps, and where the output has a place for one.
Starts(d, p) == {x \in - p[1] .. d.in + p[2] - d.kernel : (x + p[1]) % d.stride = 0}
Places(d, p, out) == {j * d.stride - p[1] : j \in 0 .. out - 1}

Meets(x, d) == x < d.in /\ x + d.kernel > 0
Window(x, d) == x .. x + d.kernel - 1

Shown == IF layer.rank = 1 THEN {1} ELSE DOMAIN layer.dims

\* The pads are computed, or leave as much room as those of the first dimension.
Agreed(i) == \/ ~ copied /\ layer.padding # "custom"
             \/ desc.pads[i][1] + desc.pads[i][2] = desc.pads[1][1] + desc.pads[1][2]

\* The sweeps count their windows to know where in the output they are: in every
\* dimension there are as many as the output has places, whatever the sizes,
\* the stride and the padding, unless known pads differ between dimensions.
OutputsInPlace ==
    desc # Refused =>
        \A i \in Shown :
            Agreed(i) => Starts(layer.dims[i], desc.pads[i])
                           = Places(layer.dims[i], desc.pads[i], desc.out[i])

\* When windows are not further apart than they are large, "same" leaves out
\* no part of the input, and "none" less than a stride at its end.
CoversInput ==
    desc # Refused /\ layer.padding # "custom" =>
        \A i \in DOMAIN layer.dims :
            LET d == layer.dims[i]
                end == IF layer.padding = "same" THEN d.in ELSE d.in - d.stride + 1
            IN  d.stride <= d.kernel =>
                    \A x \in 0 .. end - 1 :
                        \E w \in Starts(d, desc.pads[i]) : x \in Window(w, d)

\* The backward sweep of a maximum takes the place of each window's largest
\* element from the tensors that the forward sweep left it in: they have room
\* for the batch, and there is such an element in every window, unless the
\* given pads are as large as a window.
IndicesAreRecorded ==
    layer.max /\ pc = "ready" =>
        /\ index = batch
        /\ \A i \in DOMAIN layer.dims :
               LET d == layer.dims[i]
                   p == desc.pads[i]
               IN  layer.padding # "custom" \/ (p[1] < d.kernel /\ p[2] < d.kernel)
                       => \A x \in Starts(d, p) : Meets(x, d)

\* The delta is of the batch that goes backward, but for LPool1D and LPool3D when
\* they keep one of an earlier batch.
DeltasFit ==
    pc = "ready" => delta = batch \/ (layer.rank # 2 /\ layer.mem = 0)

\* What the backward sweep reads is there and of this batch.
BuffersFit == IndicesAreRecorded /\ DeltasFit

\* A copy, which takes the pads for known ones, has the output of the layer
\* unless these differ between dimensions.
CopiesAgree ==
    LET original == Build(layer)
        Pads(i)  == original.pads[i][1] + original.pads[i][2]
    IN  copied /\ (\A i \in Shown : Pads(i) = Pads(1)) =>
            desc # Refused /\ \A i \in Shown : desc.out[i] = original.out[i]
=============================================================================
