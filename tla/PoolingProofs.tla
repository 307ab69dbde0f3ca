--------------------------- MODULE PoolingProofs ---------------------------
(***************************************************************************)
(* The properties of Pooling, for layers and batches of any size.           *)
(*                                                                         *)
(* Whichever formula an output was computed by, what its last window leaves *)
(* is less than a stride: (o - 1) * s <= in - k + p < o * s, for the padding p *)
(* the layer has.  This is all that the windows' places and their covering    *)
(* depend on (lemmas Room and Grid).                                           *)
(***************************************************************************)
EXTENDS Pooling, TLAPS

-----------------------------------------------------------------------------
(* Quotients *)

\* Division rounds down.
LEMMA Division ==
    ASSUME NEW x \in Int, NEW s \in Nat \ {0}
    PROVE  /\ x \div s \in Int
           /\ (x \div s) * s <= x
           /\ x < (x \div s) * s + s
           /\ x % s = 0 => x = (x \div s) * s
  OBVIOUS

\* A product of the divisor has no remainder.
LEMMA NoRemainder ==
    ASSUME NEW j \in Int, NEW s \in Nat \ {0}
    PROVE  (j * s) % s = 0
  OBVIOUS

\* Products keep the order.
LEMMA Products ==
    ASSUME NEW a \in Int, NEW b \in Int, NEW s \in Nat \ {0}
    PROVE  /\ a * s \in Int
           /\ a <= b => a * s <= b * s
           /\ a * s < b * s => a < b
  OBVIOUS

\* Quotient rounds up.
LEMMA Ceiling ==
    ASSUME NEW x \in Int, NEW s \in Nat \ {0}
    PROVE  /\ Quotient(x, s) \in Int
           /\ (Quotient(x, s) - 1) * s < x
           /\ x <= Quotient(x, s) * s
  <1> DEFINE q == (- x) \div s
  <1>1. q \in Int /\ q * s <= - x /\ - x < q * s + s
    BY Division
  <1>2. Quotient(x, s) = - q
    BY DEF Quotient
  <1> HIDE DEF q
  <1>3. q * s \in Int
    BY <1>1
  <1>4. (- q) * s = - (q * s) /\ (- q - 1) * s = - (q * s) - s
    BY <1>1
  <1> QED
    BY <1>1, <1>2, <1>3, <1>4

-----------------------------------------------------------------------------
(* One dimension *)

Pads == Nat \X Nat

\* What the last of o windows leaves is less than a stride.
Room(d, p, o) ==
    /\ o \in Int
    /\ (o - 1) * d.stride <= d.in - d.kernel + p[1] + p[2]
    /\ d.in - d.kernel + p[1] + p[2] < o * d.stride

LEMMA DimensionType ==
    ASSUME NEW d \in Dimension
    PROVE  /\ d.in \in Nat \ {0} /\ d.kernel \in Nat \ {0} /\ d.stride \in Nat \ {0}
           /\ d.pads \in Pads
  BY DEF Dimension, Pads

LEMMA PadsType ==
    ASSUME NEW p \in Pads
    PROVE  p[1] \in Nat /\ p[2] \in Nat
  BY DEF Pads

\* With known pads the output has room.
LEMMA RoomWithin ==
    ASSUME NEW d \in Dimension, NEW p \in Pads, NEW q \in Pads,
           p[1] + p[2] = q[1] + q[2]
    PROVE  Room(d, p, OutputWithin(q, d))
  <1> DEFINE w == d.in - d.kernel + q[1] + q[2]
             v == w \div d.stride
  <1>1. w \in Int /\ w = d.in - d.kernel + p[1] + p[2]
    BY DimensionType, PadsType
  <1>2. OutputWithin(q, d) = v + 1
    BY DEF OutputWithin
  <1> HIDE DEF w
  <1>3. v \in Int /\ v * d.stride <= w /\ w < v * d.stride + d.stride
    BY <1>1, DimensionType, Division
  <1> HIDE DEF v
  <1>4. (v + 1 - 1) * d.stride = v * d.stride
    BY <1>3
  <1>5. (v + 1) * d.stride = v * d.stride + d.stride
    BY <1>3, DimensionType
  <1> QED
    BY <1>1, <1>2, <1>3, <1>4, <1>5 DEF Room

\* What the padding of a dimension is.
LEMMA PaddingOf ==
    ASSUME NEW d \in Dimension, NEW padding \in {"same", "none"}
    PROVE  /\ Padding(padding, d) \in Pads
           /\ OutputOf(padding, d) \in Int
           /\ Padding(padding, d)[1] < d.kernel /\ Padding(padding, d)[2] < d.kernel
           /\ Room(d, Padding(padding, d), OutputOf(padding, d))
           /\ padding = "none" => /\ Padding(padding, d) = <<0, 0>>
                                  /\ d.in - d.kernel < OutputOf(padding, d) * d.stride
           /\ padding = "same" =>
                 /\ d.in <= OutputOf(padding, d) * d.stride
                 /\ \/ Padding(padding, d)[1] = 0
                    \/ d.in + Padding(padding, d)[1]
                         <= (OutputOf(padding, d) - 1) * d.stride + d.kernel
  <1> DEFINE o == OutputOf(padding, d)
             full == (o - 1) * d.stride
             pad == full + d.kernel - d.in
             p == Padding(padding, d)
  <1>0. d.in \in Nat \ {0} /\ d.kernel \in Nat \ {0} /\ d.stride \in Nat \ {0}
    BY DimensionType
  <1>1. CASE padding = "none"
    <2>1. o = Quotient(d.in - (d.kernel - 1), d.stride)
      BY <1>1 DEF OutputOf
    <2>2. p = <<0, 0>>
      BY <1>1 DEF Padding
    <2>3. d.in - (d.kernel - 1) \in Int
      BY <1>0
    <2>4. o \in Int /\ full < d.in - (d.kernel - 1) /\ d.in - (d.kernel - 1) <= o * d.stride
      BY <1>0, <2>1, <2>3, Ceiling
    <2> HIDE DEF o, p
    <2>5. full \in Int /\ o * d.stride \in Int
      BY <1>0, <2>4
    <2>6. p \in Pads /\ p[1] = 0 /\ p[2] = 0
      BY <2>2 DEF Pads
    <2>7. Room(d, p, o)
      <3> HIDE DEF full
      <3>1. full <= d.in - d.kernel + 0 + 0 /\ d.in - d.kernel + 0 + 0 < o * d.stride
        BY <1>0, <2>4, <2>5
      <3> USE DEF full
      <3> QED
        BY <3>1, <2>4, <2>6 DEF Room
    <2>8. d.in - d.kernel < o * d.stride
      BY <1>0, <2>4, <2>5
    <2> QED
      BY <1>0, <1>1, <2>2, <2>4, <2>6, <2>7, <2>8 DEF o, p
  <1>2. CASE padding = "same"
    <2>1. o = Quotient(d.in, d.stride)
      BY <1>2 DEF OutputOf
    <2>2. o \in Int /\ full < d.in /\ d.in <= o * d.stride
      <3>1. d.in \in Int
        BY <1>0
      <3> QED
        BY <1>0, <2>1, <3>1, Ceiling
    <2>3. p = IF pad > 0 THEN <<pad \div 2, pad - pad \div 2>> ELSE <<0, 0>>
      BY <1>2 DEF Padding
    <2> HIDE DEF o, p
    <2>4. full \in Int /\ o * d.stride \in Int
      BY <1>0, <2>2
    <2> HIDE DEF full
    <2>5. pad \in Int /\ pad < d.kernel /\ full = pad + d.in - d.kernel
      BY <1>0, <2>2, <2>4
    <2> HIDE DEF pad
    <2>6. CASE pad > 0
      <3>1. p[1] = pad \div 2 /\ p[2] = pad - pad \div 2
        BY <2>3, <2>6
      <3>2. pad \div 2 \in Nat /\ pad - pad \div 2 \in Nat
        BY <2>5, <2>6
      <3>3. p \in Pads
        BY <2>3, <2>6, <3>2 DEF Pads
      <3>4. p[1] < d.kernel /\ p[2] < d.kernel /\ p[1] + p[2] = pad /\ p[1] <= pad
        BY <1>0, <2>5, <2>6, <3>1, <3>2
      <3>5. full = d.in - d.kernel + p[1] + p[2] /\ full < o * d.stride
        BY <1>0, <2>2, <2>4, <2>5, <3>1, <3>2
      <3>6. Room(d, p, o)
        BY <2>2, <2>4, <3>5 DEF Room, full
      <3>7. d.in + p[1] <= full + d.kernel
        BY <1>0, <2>4, <2>5, <3>1, <3>2, <3>4
      <3> QED
        BY <1>2, <2>2, <3>3, <3>4, <3>6, <3>7 DEF o, p, full
    <2>7. CASE ~ (pad > 0)
      <3>1. p = <<0, 0>>
        BY <2>3, <2>7
      <3>2. p \in Pads /\ p[1] = 0 /\ p[2] = 0
        BY <3>1 DEF Pads
      <3>3. full <= d.in - d.kernel + 0 + 0 /\ d.in - d.kernel + 0 + 0 < o * d.stride
        BY <1>0, <2>2, <2>4, <2>5, <2>7
      <3>4. Room(d, p, o)
        BY <2>2, <3>2, <3>3 DEF Room, full
      <3> QED
        BY <1>0, <1>2, <2>2, <3>2, <3>4 DEF o, p
    <2> QED
      BY <2>6, <2>7
  <1> QED
    BY <1>1, <1>2

\* Where there is room, the windows are in their places.
LEMMA Grid ==
    ASSUME NEW d \in Dimension, NEW p \in Pads, NEW o, Room(d, p, o)
    PROVE  Starts(d, p) = Places(d, p, o)
  <1> DEFINE s == d.stride
             w == d.in - d.kernel + p[1] + p[2]
  <1>0. /\ d.in \in Nat /\ d.kernel \in Nat /\ s \in Nat \ {0}
        /\ p[1] \in Nat /\ p[2] \in Nat
    BY DimensionType, PadsType
  <1>1. o \in Int /\ w \in Int /\ (o - 1) * s <= w /\ w < o * s
    BY <1>0 DEF Room
  <1>2. ASSUME NEW x \in Starts(d, p)
        PROVE  x \in Places(d, p, o)
    <2> DEFINE y == x + p[1]
               j == y \div s
    <2>1. x \in Int /\ 0 <= y /\ y <= w /\ y \in Int /\ y % s = 0 /\ x = y - p[1]
      BY <1>0, <1>2 DEF Starts
    <2> HIDE DEF s, w, y
    <2>2. j \in Int /\ j * s <= y /\ y < j * s + s /\ y = j * s
      BY <1>0, <2>1, Division
    <2> HIDE DEF j
    <2>3. j * s \in Int /\ (j + 1) * s = j * s + s /\ o * s \in Int /\ 0 * s = 0
      BY <1>0, <1>1, <2>2
    <2>4. j * s < o * s /\ 0 * s < (j + 1) * s
      BY <1>0, <1>1, <2>1, <2>2, <2>3
    <2>5. j < o /\ 0 < j + 1
      BY <1>0, <1>1, <2>2, <2>4, Products
    <2>6. j \in 0 .. o - 1
      BY <1>1, <2>2, <2>5
    <2> QED
      BY <2>1, <2>2, <2>6 DEF Places, s
  <1>3. ASSUME NEW x \in Places(d, p, o)
        PROVE  x \in Starts(d, p)
    <2>1. PICK j \in 0 .. o - 1 : x = j * s - p[1]
      BY <1>3 DEF Places
    <2> HIDE DEF s, w
    <2>2. j \in Int /\ 0 <= j /\ j <= o - 1 /\ o - 1 \in Int
      BY <1>1, <2>1
    <2>3. j * s \in Int /\ (o - 1) * s \in Int /\ 0 * s = 0
      BY <1>0, <1>1, <2>2
    <2>4. 0 * s <= j * s /\ j * s <= (o - 1) * s
      BY <1>0, <2>2, Products
    <2>5. 0 <= j * s /\ j * s <= w /\ (j * s) % s = 0
      <3>1. (j * s) % s = 0
        BY <1>0, <2>2, NoRemainder
      <3> QED
        BY <1>0, <1>1, <2>3, <2>4, <3>1
    <2>6. x \in Int /\ x + p[1] = j * s
      BY <1>0, <2>1, <2>3
    <2>7. x \in - p[1] .. d.in + p[2] - d.kernel
      BY <1>0, <2>3, <2>5, <2>6 DEF w
    <2> QED
      BY <2>5, <2>6, <2>7 DEF Starts, s
  <1> QED
    BY <1>2, <1>3

\* The last window that starts no later than an element holds it, or the last of all.
LEMMA Covered ==
    ASSUME NEW d \in Dimension, d.stride <= d.kernel,
           NEW padding \in {"same", "none"}, OutputOf(padding, d) > 0,
           NEW x \in 0 .. (IF padding = "same" THEN d.in ELSE d.in - d.stride + 1) - 1
    PROVE  \E w \in Starts(d, Padding(padding, d)) : x \in Window(w, d)
  <1> DEFINE s == d.stride
             p == Padding(padding, d)
             o == OutputOf(padding, d)
             q == (x + p[1]) \div s
             last == (o - 1) * s
  <1>0. /\ d.in \in Nat \ {0} /\ d.kernel \in Nat \ {0} /\ s \in Nat \ {0}
        /\ p \in Pads /\ o \in Int /\ o > 0 /\ s <= d.kernel
    BY DimensionType, PaddingOf
  <1>1. p[1] \in Nat /\ p[2] \in Nat
    BY <1>0, PadsType
  <1>2. x \in Nat /\ x + p[1] \in Int /\ 0 <= x + p[1]
    BY <1>0, <1>1
  <1>3. Starts(d, p) = Places(d, p, o)
    BY <1>0, PaddingOf, Grid
  <1>4. q \in Int /\ q * s <= x + p[1] /\ x + p[1] < q * s + s
    <2> DEFINE y == x + p[1]
    <2>1. y \in Int /\ s \in Nat \ {0}
      BY <1>0, <1>2
    <2> HIDE DEF y, s
    <2>2. y \div s \in Int /\ (y \div s) * s <= y /\ y < (y \div s) * s + s
      BY <2>1, Division
    <2> QED
      BY <2>2 DEF y
  <1>5. SUFFICES \E j \in 0 .. o - 1 : j * s <= x + p[1] /\ x + p[1] < j * s + d.kernel
    <2>1. PICK j \in 0 .. o - 1 : j * s <= x + p[1] /\ x + p[1] < j * s + d.kernel
      BY <1>5
    <2>2. j * s \in Int
      BY <1>0, <2>1
    <2>3. j * s - p[1] \in Starts(d, p)
      BY <1>3, <2>1 DEF Places
    <2> HIDE DEF s, p
    <2>4. x \in j * s - p[1] .. (j * s - p[1]) + d.kernel - 1
      BY <1>0, <1>1, <1>2, <2>1, <2>2
    <2>5. x \in Window(j * s - p[1], d)
      BY <2>4 DEF Window
    <2> QED
      BY <2>3, <2>5 DEF p
  <1>6. last \in Int /\ o * s = last + s
    BY <1>0
  <1>7. q < o =>
           q \in 0 .. o - 1 /\ x + p[1] < q * s + d.kernel
    <2> HIDE DEF s, p, o, q, last
    <2>1. 0 * s = 0 /\ q * s \in Int /\ (q + 1) * s = q * s + s
      BY <1>0, <1>4
    <2>2. 0 * s < (q + 1) * s
      <3>1. 0 < q * s + s
        BY <1>0, <1>1, <1>2, <1>4, <2>1
      <3> QED
        BY <2>1, <3>1
    <2>3. 0 < q + 1
      BY <1>0, <1>4, <2>2, Products
    <2> QED
      BY <1>0, <1>2, <1>4, <2>1, <2>3
  <1>8. CASE ~ (q < o)
    <2>1. last <= x + p[1]
      <3> HIDE DEF s, p, o, q, last
      <3>1. o * s <= q * s
        BY <1>0, <1>4, <1>8, Products
      <3>2. q * s \in Int
        BY <1>0, <1>4
      <3> QED
        BY <1>0, <1>2, <1>4, <1>6, <3>1, <3>2
    <2>2. last + s <= x + p[1]
      <3> HIDE DEF s, p, o, q, last
      <3>1. o * s <= q * s
        BY <1>0, <1>4, <1>8, Products
      <3>2. q * s \in Int
        BY <1>0, <1>4
      <3> QED
        BY <1>0, <1>2, <1>4, <1>6, <3>1, <3>2
    <2>3. x + p[1] < last + d.kernel
      <3>1. CASE padding = "same"
        <4>1. x < d.in
          BY <1>0, <3>1
        <4>2. d.in <= o * s /\ (p[1] = 0 \/ d.in + p[1] <= last + d.kernel)
          BY <3>1, PaddingOf
        <4> HIDE DEF s, p, o, q, last
        <4> QED
          BY <1>0, <1>1, <1>2, <1>6, <2>2, <4>1, <4>2
      <3>2. CASE padding = "none"
        <4>1. x + s <= d.in
          BY <1>0, <3>2
        <4>2. p = <<0, 0>> /\ d.in - d.kernel < o * s
          BY <3>2, PaddingOf
        <4>3. p[1] = 0
          BY <4>2
        <4> HIDE DEF s, p, o, q, last
        <4> QED
          BY <1>0, <1>2, <1>6, <4>1, <4>2, <4>3
      <3> QED
        BY <3>1, <3>2
    <2>4. o - 1 \in 0 .. o - 1
      BY <1>0
    <2> QED
      BY <2>1, <2>3, <2>4
  <1> QED
    BY <1>4, <1>7, <1>8

\* A window that is wider than the padding on either side holds input.
LEMMA Met ==
    ASSUME NEW d \in Dimension, NEW p \in Pads, p[1] < d.kernel, p[2] < d.kernel,
           NEW x \in Starts(d, p)
    PROVE  Meets(x, d)
  <1>1. d.in \in Nat /\ d.kernel \in Nat /\ p[1] \in Nat /\ p[2] \in Nat
    BY DimensionType, PadsType
  <1>2. x \in Int /\ - p[1] <= x /\ x <= d.in + p[2] - d.kernel
    BY <1>1 DEF Starts
  <1> QED
    BY <1>1, <1>2 DEF Meets

-----------------------------------------------------------------------------
(* Descriptors *)

\* What is known of a layer.
LEMMA LayerType ==
    ASSUME NEW l \in Layers
    PROVE  /\ l.padding \in {"same", "none", "custom"}
           /\ 1 \in DOMAIN l.dims /\ \A i \in DOMAIN l.dims : l.dims[i] \in Dimension
  <1>1. l.dims \in Seq(Dimension) /\ l.dims # <<>>
    BY PoolingAssumption
  <1>2. Len(l.dims) \in Nat /\ DOMAIN l.dims = 1 .. Len(l.dims) /\ Len(l.dims) # 0
    BY <1>1
  <1>3. 1 \in DOMAIN l.dims
    BY <1>2
  <1>4. \A i \in DOMAIN l.dims : l.dims[i] \in Dimension
    BY <1>1
  <1> QED
    BY <1>3, <1>4, PoolingAssumption

\* The pads and the output that a descriptor d of layer l has.
Known(l, d) ==
    \A i \in DOMAIN l.dims : d.out[i] = OutputWithin(d.pads[1], l.dims[i])

Computed(l, d) ==
    \A i \in DOMAIN l.dims : /\ d.pads[i] = Padding(l.padding, l.dims[i])
                             /\ d.out[i] = OutputOf(l.padding, l.dims[i])

Typed(l, d) ==
    /\ d.pads \in [DOMAIN l.dims -> Pads]
    /\ d.out \in [DOMAIN l.dims -> Nat \ {0}]

LEMMA Outputs ==
    ASSUME NEW d \in Dimension, NEW p \in Pads
    PROVE  OutputWithin(p, d) \in Int
  BY RoomWithin DEF Room

LEMMA BuildType ==
    ASSUME NEW l \in Layers, Build(l) # Refused
    PROVE  /\ Typed(l, Build(l))
           /\ l.padding = "custom" => Known(l, Build(l))
           /\ l.padding # "custom" => Computed(l, Build(l))
  <1> DEFINE given == [i \in DOMAIN l.dims |-> l.dims[i].pads]
             cu == Custom(l.dims, given)
             co == Common(l.dims, l.padding)
  <1>1. 1 \in DOMAIN l.dims /\ \A i \in DOMAIN l.dims : l.dims[i] \in Dimension
    BY LayerType
  <1>2. CASE l.padding = "custom"
    <2>1. Build(l) = cu /\ Accepted(l, cu)
      BY <1>2 DEF Build
    <2>2. cu.pads = given /\ cu.out = [i \in DOMAIN l.dims |-> OutputWithin(given[1], l.dims[i])]
      BY DEF Custom
    <2>3. given \in [DOMAIN l.dims -> Pads]
      BY <1>1, DimensionType
    <2>4. \A i \in DOMAIN l.dims : OutputWithin(given[1], l.dims[i]) \in Int
      BY <1>1, <2>3, Outputs
    <2> HIDE DEF cu, given
    <2>5. \A i \in DOMAIN l.dims : cu.out[i] \in Int /\ cu.out[i] > 0
      BY <2>1, <2>2, <2>4 DEF Accepted
    <2>6. Typed(l, cu)
      BY <2>2, <2>3, <2>5 DEF Typed
    <2>7. Known(l, cu)
      BY <2>2 DEF Known
    <2> QED
      BY <1>2, <2>1, <2>6, <2>7
  <1>3. CASE l.padding # "custom"
    <2>1. Build(l) = co /\ Accepted(l, co)
      BY <1>3 DEF Build
    <2>2. /\ co.pads = [i \in DOMAIN l.dims |-> Padding(l.padding, l.dims[i])]
          /\ co.out = [i \in DOMAIN l.dims |-> OutputOf(l.padding, l.dims[i])]
      BY DEF Common
    <2>3. l.padding \in {"same", "none"}
      BY <1>3, LayerType
    <2> HIDE DEF co
    <2>4. \A i \in DOMAIN l.dims : /\ Padding(l.padding, l.dims[i]) \in Pads
                                   /\ OutputOf(l.padding, l.dims[i]) \in Int
      BY <1>1, <2>3, PaddingOf
    <2>5. \A i \in DOMAIN l.dims : co.out[i] \in Int /\ co.out[i] > 0
      BY <2>1, <2>2, <2>4 DEF Accepted
    <2>6. Typed(l, co)
      BY <2>2, <2>4, <2>5 DEF Typed
    <2>7. Computed(l, co)
      BY <2>2 DEF Computed
    <2> QED
      BY <1>3, <2>1, <2>6, <2>7
  <1> QED
    BY <1>2, <1>3

LEMMA CopiedType ==
    ASSUME NEW l \in Layers, Build(l) # Refused, Copied(l, Build(l)) # Refused
    PROVE  /\ Typed(l, Copied(l, Build(l)))
           /\ Known(l, Copied(l, Build(l)))
           /\ Copied(l, Build(l)).pads = Build(l).pads
  <1> DEFINE b == Build(l)
             cu == Custom(l.dims, b.pads)
  <1>1. 1 \in DOMAIN l.dims /\ \A i \in DOMAIN l.dims : l.dims[i] \in Dimension
    BY LayerType
  <1>2. Copied(l, b) = cu /\ Accepted(l, cu)
    BY DEF Copied
  <1>3. b.pads \in [DOMAIN l.dims -> Pads]
    BY BuildType DEF Typed
  <1>4. cu.pads = b.pads /\ cu.out = [i \in DOMAIN l.dims |-> OutputWithin(b.pads[1], l.dims[i])]
    BY DEF Custom
  <1> HIDE DEF cu, b
  <1>5. \A i \in DOMAIN l.dims : OutputWithin(b.pads[1], l.dims[i]) \in Int
    BY <1>1, <1>3, Outputs
  <1>6. \A i \in DOMAIN l.dims : cu.out[i] \in Int /\ cu.out[i] > 0
    BY <1>2, <1>4, <1>5 DEF Accepted
  <1>7. Typed(l, cu) /\ Known(l, cu)
    BY <1>3, <1>4, <1>6 DEF Typed, Known
  <1> QED
    BY <1>2, <1>4, <1>7 DEF b

-----------------------------------------------------------------------------
(* The invariant *)

\* A descriptor never changes: it is the layer's, or its copy's.
BuiltInv ==
    /\ layer \in Layers /\ copied \in BOOLEAN
    /\ ~ copied => desc = Build(layer)
    /\ copied => Build(layer) # Refused /\ desc = Copied(layer, Build(layer))

\* What was refused is not used, and outside of a sweep a layer that gives its
\* delta back has none.
UsedInv ==
    /\ pc \in {"built", "forward", "ready"} /\ (pc # "built" => desc # Refused)
    /\ batch \in Batches \cup {1} /\ index = batch /\ delta \in Batches \cup {0, 1}
    /\ layer.mem # 0 /\ pc # "ready" => delta = 0
    /\ DeltasFit

Inv == BuiltInv /\ UsedInv

LEMMA InitInv == Init => Inv
  BY DEF Init, Inv, BuiltInv, UsedInv, DeltasFit

LEMMA NextInv == Inv /\ [Next]_vars => Inv'
  <1> SUFFICES ASSUME Inv, [Next]_vars PROVE Inv'
    OBVIOUS
  <1> USE DEF Inv, BuiltInv, UsedInv, DeltasFit
  <1>1. CASE Copy
    BY <1>1 DEF Copy
  <1>2. CASE Forward
    BY <1>2 DEF Forward
  <1>3. CASE MemDelta
    BY <1>3 DEF MemDelta, Delta
  <1>4. CASE Backward
    <2>1. layer.mem \in {0, 1}
      BY PoolingAssumption
    <2> QED
      BY <1>4, <2>1 DEF Backward
  <1>5. ASSUME NEW b \in Batches, Resize(b) PROVE Inv'
    BY <1>5 DEF Resize, RoomForIndices
  <1>6. CASE UNCHANGED vars
    BY <1>6 DEF vars
  <1> QED
    BY <1>1, <1>2, <1>3, <1>4, <1>5, <1>6 DEF Next

\* The invariant holds in every state.
LEMMA Invariance == Spec => []Inv
  BY InitInv, NextInv, PTL DEF Spec

\* What the descriptor is in every state.
LEMMA Described ==
    ASSUME BuiltInv, desc # Refused
    PROVE  /\ Typed(layer, desc)
           /\ Known(layer, desc) \/ (~ copied /\ Computed(layer, desc))
           /\ layer.padding # "custom" => Computed(layer, Build(layer))
                                          /\ Typed(layer, Build(layer))
                                          /\ desc.pads = Build(layer).pads
  <1>1. layer \in Layers /\ Build(layer) # Refused
    BY DEF BuiltInv
  <1>2. /\ Typed(layer, Build(layer))
        /\ layer.padding = "custom" => Known(layer, Build(layer))
        /\ layer.padding # "custom" => Computed(layer, Build(layer))
    BY <1>1, BuildType
  <1>3. CASE ~ copied
    BY <1>2, <1>3 DEF BuiltInv
  <1>4. CASE copied
    <2>1. desc = Copied(layer, Build(layer))
      BY <1>4 DEF BuiltInv
    <2>2. Typed(layer, desc) /\ Known(layer, desc) /\ desc.pads = Build(layer).pads
      BY <1>1, <2>1, CopiedType
    <2> QED
      BY <1>2, <2>2
  <1> QED
    BY <1>3, <1>4

-----------------------------------------------------------------------------
(* The properties *)

\* Every output that is not refused has a size (PoolDescriptor::build,
\* descriptor_pool2D.cpp:103), and buffers are of a batch size there was.
THEOREM PoolingTypeCorrect == Spec => []TypeOK
  <1>1. Inv => TypeOK
    <2> SUFFICES ASSUME Inv PROVE TypeOK
      OBVIOUS
    <2>1. BuiltInv /\ UsedInv
      BY DEF Inv
    <2>2. CASE desc = Refused
      BY <2>1, <2>2 DEF TypeOK, BuiltInv, UsedInv
    <2>3. CASE desc # Refused
      BY <2>1, <2>3, Described DEF TypeOK, BuiltInv, UsedInv, Typed, Pads
    <2> QED
      BY <2>2, <2>3
  <1> QED
    BY <1>1, Invariance, PTL

\* The windows of every dimension of a layer or copy are where its output has
\* places for them (the loops of cpu_pool.cpp and compute_output()).
THEOREM WindowsAreInPlace == Spec => []OutputsInPlace
  <1>1. BuiltInv => OutputsInPlace
    <2> SUFFICES ASSUME BuiltInv, desc # Refused, NEW i \in Shown, Agreed(i)
                 PROVE  Starts(layer.dims[i], desc.pads[i])
                          = Places(layer.dims[i], desc.pads[i], desc.out[i])
      BY DEF OutputsInPlace
    <2>1. layer \in Layers
      BY DEF BuiltInv
    <2>2. i \in DOMAIN layer.dims /\ 1 \in DOMAIN layer.dims /\ layer.dims[i] \in Dimension
      BY <2>1, LayerType DEF Shown
    <2>3. Typed(layer, desc) /\ (Known(layer, desc) \/ (~ copied /\ Computed(layer, desc)))
      BY Described
    <2>4. desc.pads[i] \in Pads /\ desc.pads[1] \in Pads
      BY <2>2, <2>3 DEF Typed
    <2>5. CASE ~ copied /\ layer.padding # "custom"
      <3>1. Computed(layer, desc)
        BY <2>5, Described DEF BuiltInv
      <3>2. layer.padding \in {"same", "none"}
        BY <2>1, <2>5, LayerType
      <3>3. Room(layer.dims[i], desc.pads[i], desc.out[i])
        BY <2>2, <3>1, <3>2, PaddingOf DEF Computed
      <3> QED
        BY <2>2, <2>4, <3>3, Grid
    <2>6. CASE ~ (~ copied /\ layer.padding # "custom")
      <3>1. Known(layer, desc)
        <4>1. CASE copied
          BY <2>3, <4>1
        <4>2. CASE layer.padding = "custom" /\ ~ copied
          BY <2>1, <4>2, BuildType DEF BuiltInv
        <4> QED
          BY <2>6, <4>1, <4>2 DEF BuiltInv
      <3>2. desc.pads[i][1] + desc.pads[i][2] = desc.pads[1][1] + desc.pads[1][2]
        BY <2>6 DEF Agreed
      <3>3. desc.out[i] = OutputWithin(desc.pads[1], layer.dims[i])
        BY <2>2, <3>1 DEF Known
      <3>4. Room(layer.dims[i], desc.pads[i], desc.out[i])
        BY <2>2, <2>4, <3>2, <3>3, RoomWithin
      <3> QED
        BY <2>2, <2>4, <3>4, Grid
    <2> QED
      BY <2>5, <2>6
  <1> QED
    BY <1>1, Invariance, PTL DEF Inv

\* No part of the input is left out by windows that lie close enough
\* (compute_output() and compute_padding()).
THEOREM InputIsCovered == Spec => []CoversInput
  <1>1. BuiltInv => CoversInput
    <2> SUFFICES ASSUME BuiltInv, desc # Refused, layer.padding # "custom",
                        NEW i \in DOMAIN layer.dims,
                        layer.dims[i].stride <= layer.dims[i].kernel,
                        NEW x \in 0 .. (IF layer.padding = "same" THEN layer.dims[i].in
                                        ELSE layer.dims[i].in - layer.dims[i].stride + 1) - 1
                 PROVE  \E w \in Starts(layer.dims[i], desc.pads[i]) :
                            x \in Window(w, layer.dims[i])
      BY DEF CoversInput
    <2>1. layer.dims[i] \in Dimension /\ layer.padding \in {"same", "none"}
      BY LayerType DEF BuiltInv
    <2>2. Computed(layer, Build(layer)) /\ Typed(layer, Build(layer))
          /\ desc.pads = Build(layer).pads
      BY Described
    <2>3. desc.pads[i] = Padding(layer.padding, layer.dims[i])
      BY <2>2 DEF Computed
    <2>4. OutputOf(layer.padding, layer.dims[i]) > 0
      BY <2>2 DEF Computed, Typed
    <2> QED
      BY <2>1, <2>3, <2>4, Covered
  <1> QED
    BY <1>1, Invariance, PTL DEF Inv

\* The backward sweep of a maximum finds a place for every window in the tensors
\* of its batch (LMaxPool::resize(), cpu_mpool2D_back()).
LEMMA IndicesAreThere == Spec => []IndicesAreRecorded
  <1>1. Inv => IndicesAreRecorded
    <2> SUFFICES ASSUME Inv PROVE IndicesAreRecorded
      OBVIOUS
    <2>1. BuiltInv /\ UsedInv /\ index = batch
      BY DEF Inv, UsedInv
    <2>2. SUFFICES ASSUME pc = "ready", NEW i \in DOMAIN layer.dims,
                          \/ layer.padding # "custom"
                          \/ /\ desc.pads[i][1] < layer.dims[i].kernel
                             /\ desc.pads[i][2] < layer.dims[i].kernel,
                          NEW x \in Starts(layer.dims[i], desc.pads[i])
                   PROVE  Meets(x, layer.dims[i])
      BY <2>1 DEF IndicesAreRecorded
    <2>3. desc # Refused /\ layer.dims[i] \in Dimension
          /\ layer.padding \in {"same", "none", "custom"}
      BY <2>1, <2>2, LayerType DEF BuiltInv, UsedInv
    <2>4. desc.pads[i] \in Pads
      BY <2>1, <2>3, Described DEF Typed
    <2>5. desc.pads[i][1] < layer.dims[i].kernel /\ desc.pads[i][2] < layer.dims[i].kernel
      <3>1. CASE layer.padding # "custom"
        <4>1. desc.pads[i] = Padding(layer.padding, layer.dims[i])
          BY <2>1, <2>3, <3>1, Described DEF Computed
        <4> QED
          BY <2>3, <3>1, <4>1, PaddingOf
      <3> QED
        BY <2>2, <3>1
    <2> QED
      BY <2>3, <2>4, <2>5, Met
  <1> QED
    BY <1>1, Invariance, PTL

\* The same, and a delta that is kept has the size of the batch, where mem_delta()
\* sees to it or free_delta() gives it back (LPool::mem_delta()).
THEOREM BuffersAlwaysFit == Spec => []BuffersFit
  <1>1. Inv => DeltasFit
    BY DEF Inv, UsedInv
  <1> QED
    BY <1>1, Invariance, IndicesAreThere, PTL DEF BuffersFit

\* There is only one number of windows that leaves less than a stride.
LEMMA RoomIsUnique ==
    ASSUME NEW d \in Dimension, NEW p \in Pads, NEW o, NEW u, Room(d, p, o), Room(d, p, u)
    PROVE  o = u
  <1>1. d.stride \in Nat \ {0} /\ o \in Int /\ u \in Int
    BY DimensionType DEF Room
  <1>2. d.in - d.kernel + p[1] + p[2] \in Int
    BY DimensionType, PadsType
  <1>3. \A a, b \in Int : Room(d, p, a) /\ Room(d, p, b) => a - 1 < b
    <2> SUFFICES ASSUME NEW a \in Int, NEW b \in Int, Room(d, p, a), Room(d, p, b)
                 PROVE  a - 1 < b
      OBVIOUS
    <2>1. a - 1 \in Int
      OBVIOUS
    <2>2. (a - 1) * d.stride \in Int /\ b * d.stride \in Int
      BY <1>1, <2>1, Products
    <2>3. (a - 1) * d.stride < b * d.stride
      BY <1>2, <2>2 DEF Room
    <2> QED
      BY <1>1, <2>1, <2>3, Products
  <1>4. o - 1 < u /\ u - 1 < o
    BY <1>1, <1>3
  <1> QED
    BY <1>1, <1>4

\* Given the pads of the first dimension, a dimension that has as much of them
\* gets the output that was built.
LEMMA SameOutput ==
    ASSUME NEW l \in Layers, Build(l) # Refused, NEW i \in DOMAIN l.dims,
           Build(l).pads[i][1] + Build(l).pads[i][2]
             = Build(l).pads[1][1] + Build(l).pads[1][2]
    PROVE  OutputWithin(Build(l).pads[1], l.dims[i]) = Build(l).out[i]
  <1> DEFINE b == Build(l)
             d == l.dims[i]
  <1>1. /\ 1 \in DOMAIN l.dims /\ d \in Dimension
        /\ l.padding \in {"same", "none", "custom"}
    BY LayerType
  <1>2. /\ Typed(l, b)
        /\ l.padding = "custom" => Known(l, b)
        /\ l.padding # "custom" => Computed(l, b)
    BY BuildType
  <1>3. b.pads[i] \in Pads /\ b.pads[1] \in Pads
    BY <1>1, <1>2 DEF Typed
  <1>4. CASE l.padding = "custom"
    BY <1>2, <1>4 DEF Known
  <1>5. CASE l.padding # "custom"
    <2>1. b.pads[i] = Padding(l.padding, d) /\ b.out[i] = OutputOf(l.padding, d)
      BY <1>2, <1>5 DEF Computed
    <2>2. Room(d, b.pads[i], b.out[i])
      BY <1>1, <1>5, <2>1, PaddingOf
    <2>3. Room(d, b.pads[i], OutputWithin(b.pads[1], d))
      BY <1>1, <1>3, RoomWithin
    <2> QED
      BY <1>1, <1>3, <2>2, <2>3, RoomIsUnique
  <1> QED
    BY <1>4, <1>5

\* The dimension that a one-dimensional layer does not show always has an output.
LEMMA HiddenOutput ==
    ASSUME NEW d \in Dimension, NEW p \in Pads, d.in = 1, d.kernel = 1
    PROVE  OutputWithin(p, d) > 0
  <1>1. d.stride \in Nat \ {0} /\ p[1] \in Nat /\ p[2] \in Nat
    BY DimensionType, PadsType
  <1> DEFINE w == p[1] + p[2]
  <1>2. w \in Nat /\ d.in - d.kernel + p[1] + p[2] = w
    BY <1>1
  <1>3. OutputWithin(p, d) = (w \div d.stride) + 1
    BY <1>2 DEF OutputWithin
  <1> HIDE DEF w
  <1>4. w \div d.stride \in Nat
    BY <1>1, <1>2
  <1> QED
    BY <1>3, <1>4

\* The copy of a layer, which takes the computed pads for known ones, has the
\* layer's output, whichever formula that came from, unless the pads differ
\* between dimensions (clone() and share() of the layers, PoolDescriptor's
\* constructor with known pads).
THEOREM CopiesAlwaysAgree == Spec => []CopiesAgree
  <1>1. BuiltInv => CopiesAgree
    <2> DEFINE b == Build(layer)
               c == Custom(layer.dims, b.pads)
    <2> SUFFICES ASSUME BuiltInv, copied,
                        \A i \in Shown : b.pads[i][1] + b.pads[i][2]
                                           = b.pads[1][1] + b.pads[1][2]
                 PROVE  desc # Refused /\ \A i \in Shown : desc.out[i] = b.out[i]
      BY DEF CopiesAgree
    <2>1. layer \in Layers /\ b # Refused /\ desc = Copied(layer, b)
      BY DEF BuiltInv
    <2>2. 1 \in DOMAIN layer.dims /\ \A i \in DOMAIN layer.dims : layer.dims[i] \in Dimension
      BY <2>1, LayerType
    <2>3. Typed(layer, b) /\ Accepted(layer, b)
      BY <2>1, BuildType DEF Build
    <2>4. /\ c.pads = b.pads
          /\ c.out = [i \in DOMAIN layer.dims |-> OutputWithin(b.pads[1], layer.dims[i])]
      BY DEF Custom
    <2>5. Shown \subseteq DOMAIN layer.dims
      BY <2>2 DEF Shown
    <2>6. \A i \in Shown : c.out[i] = b.out[i]
      BY <2>1, <2>4, <2>5, SameOutput
    <2> HIDE DEF c, b
    <2>7. \A i \in DOMAIN layer.dims : c.out[i] > 0
      <3> SUFFICES ASSUME NEW i \in DOMAIN layer.dims PROVE c.out[i] > 0
        OBVIOUS
      <3>1. CASE i \in Shown
        BY <2>3, <2>6, <3>1 DEF Typed
      <3>2. CASE i \notin Shown
        <4>1. layer.rank = 1 /\ i # 1
          BY <3>2 DEF Shown
        <4>2. Len(layer.dims) = 2 /\ layer.dims \in Seq(Dimension)
          BY <2>1, <4>1, PoolingAssumption
        <4>3. i = 2
          BY <4>1, <4>2
        <4>4. layer.dims[i].in = 1 /\ layer.dims[i].kernel = 1
          BY <2>1, <4>1, <4>3, PoolingAssumption
        <4>5. b.pads[1] \in Pads
          BY <2>2, <2>3 DEF Typed
        <4> QED
          BY <2>2, <2>4, <4>4, <4>5, HiddenOutput
      <3> QED
        BY <3>1, <3>2
    <2>8. Accepted(layer, c)
      BY <2>3, <2>4, <2>7 DEF Accepted
    <2>9. desc = c
      BY <2>1, <2>8 DEF Copied, c
    <2>10. c # Refused
      <3>1. DOMAIN c.pads = DOMAIN layer.dims
        BY <2>3, <2>4 DEF Typed
      <3>2. DOMAIN Refused.pads = {}
        BY DEF Refused
      <3> QED
        BY <2>2, <3>1, <3>2
    <2> QED
      BY <2>6, <2>9, <2>10
  <1> QED
    BY <1>1, Invariance, PTL DEF Inv
=============================================================================
