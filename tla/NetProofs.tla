----------------------------- MODULE NetProofs -----------------------------
(***************************************************************************)
(* Proofs about LayerGraph, for all architectures: every sort comes to an    *)
(* end, and its result is a topological order, in a whole program, too.      *)
(* And a twin is its net again when the layers come in the order of their    *)
(* creation.  About Devices: every sample of a batch goes to one device.     *)
(* About Training: regular training keeps the devices' weights together.     *)
(* About Backprop: what the folds of a backward sweep do with the layers'    *)
(* deltas, and that a sweep finds every delta it needs.                      *)
(***************************************************************************)
EXTENDS Training, FiniteSetTheorems, WellFoundedInduction, TLAPS

LEMMA LeastOfNaturals ==
    ASSUME NEW S \in SUBSET Nat, S # {}
    PROVE  \E n \in S : \A m \in S : n <= m
  <1>1. PICK n \in S : \A m \in S : <<m, n>> \notin OpToRel(<, Nat)
    BY NatLessThanWellFounded, WFMin
  <1>2. \A m \in S : ~ (m < n)
    BY <1>1 DEF OpToRel
  <1> QED
    BY <1>2

LEMMA GreatestOfNaturals ==
    ASSUME NEW S \in SUBSET Nat, S # {}, NEW b \in Nat, \A n \in S : n <= b
    PROVE  \E n \in S : \A m \in S : m <= n
  <1> DEFINE D == {d \in Nat : b - d \in S}
  <1>1. D \in SUBSET Nat /\ \A n \in S : b - n \in D
    <2> SUFFICES ASSUME NEW n \in S PROVE b - n \in Nat /\ b - (b - n) \in S
      OBVIOUS
    <2>1. n \in Nat /\ n <= b
      OBVIOUS
    <2>2. b - (b - n) = n /\ b - n \in Nat
      BY <2>1
    <2> QED
      BY <2>2
  <1>2. PICK d \in D : \A c \in D : d <= c
    <2>1. D # {}
      BY <1>1
    <2> HIDE DEF D
    <2> QED
      BY <1>1, <2>1, LeastOfNaturals
  <1>3. d \in Nat /\ b - d \in S
    BY <1>2
  <1>4. ASSUME NEW m \in S PROVE m <= b - d
    <2>1. m \in Nat /\ b - m \in D
      BY <1>1
    <2>2. d <= b - m
      BY <1>2, <2>1
    <2> QED
      BY <1>3, <2>1, <2>2
  <1> QED
    BY <1>3, <1>4

-----------------------------------------------------------------------------
(* Kept() is a recursive function; here is that it exists, and its type.     *)

\* What Kept() does with one more element.
KeptStep(g, s, S, i) ==
    IF i = 0 THEN <<>> ELSE IF s[i] \in S THEN Append(g[i - 1], s[i]) ELSE g[i - 1]

Keeps(g, s, S, n) == g = [i \in 0 .. n |-> KeptStep(g, s, S, i)]

LEMMA KeepsExists ==
    ASSUME NEW s, NEW S, NEW n \in Nat
    PROVE  \E g : Keeps(g, s, S, n)
  <1> DEFINE Bad == {k \in Nat : \A g : ~ Keeps(g, s, S, k)}
  <1>1. SUFFICES ASSUME Bad # {} PROVE FALSE
    OBVIOUS
  <1>2. PICK k \in Bad : \A m \in Bad : k <= m
    <2>1. Bad \in SUBSET Nat
      OBVIOUS
    <2> HIDE DEF Bad
    <2> QED
      BY <1>1, <2>1, LeastOfNaturals
  <1>3. CASE k = 0
    <2> DEFINE g == [i \in 0 .. 0 |-> <<>>]
    <2>1. Keeps(g, s, S, 0)
      BY DEF Keeps, KeptStep
    <2> QED
      BY <1>3, <2>1
  <1>4. CASE k # 0
    <2>1. k - 1 \in Nat /\ k - 1 \notin Bad
      BY <1>2, <1>4
    <2>2. PICK g : Keeps(g, s, S, k - 1)
      BY <2>1
    <2> DEFINE h == [i \in 0 .. k |-> KeptStep(g, s, S, i)]
    <2>3. g = [i \in 0 .. k - 1 |-> KeptStep(g, s, S, i)]
      BY <2>2 DEF Keeps
    <2>4. \A i \in 0 .. k - 1 : h[i] = g[i]
      BY <2>1, <2>3
    <2>5. \A i \in 0 .. k : KeptStep(h, s, S, i) = KeptStep(g, s, S, i)
      <3> SUFFICES ASSUME NEW i \in 0 .. k
                   PROVE  KeptStep(h, s, S, i) = KeptStep(g, s, S, i)
        OBVIOUS
      <3>1. CASE i = 0
        BY <3>1 DEF KeptStep
      <3>2. CASE i # 0
        <4>1. i - 1 \in 0 .. k - 1
          BY <3>2
        <4>2. h[i - 1] = g[i - 1]
          BY <2>4, <4>1
        <4> HIDE DEF h
        <4> QED
          BY <4>2 DEF KeptStep
      <3> QED
        BY <3>1, <3>2
    <2>6. Keeps(h, s, S, k)
      <3>1. h = [i \in 0 .. k |-> KeptStep(g, s, S, i)]
        OBVIOUS
      <3> HIDE DEF h
      <3>2. h = [i \in 0 .. k |-> KeptStep(h, s, S, i)]
        BY <2>5, <3>1
      <3> QED
        BY <3>2 DEF Keeps
    <2> QED
      BY <2>6
  <1> QED
    BY <1>3, <1>4

LEMMA KeptType ==
    ASSUME NEW T, NEW s \in Seq(T), NEW S
    PROVE  Kept(s, S) \in Seq(T)
  <1> DEFINE g == CHOOSE f : Keeps(f, s, S, Len(s))
  <1>1. Kept(s, S) = g[Len(s)]
    BY DEF Kept, Keeps, KeptStep
  <1>2. Keeps(g, s, S, Len(s))
    BY KeepsExists
  <1> HIDE DEF g
  <1>3. \A i \in 0 .. Len(s) : g[i] = KeptStep(g, s, S, i)
    <2>1. g = [i \in 0 .. Len(s) |-> KeptStep(g, s, S, i)]
      BY <1>2 DEF Keeps
    <2> QED
      BY <2>1
  <1> DEFINE Bad == {k \in 0 .. Len(s) : g[k] \notin Seq(T)}
  <1>4. Bad = {}
    <2>1. SUFFICES ASSUME Bad # {} PROVE FALSE
      OBVIOUS
    <2>2. PICK k \in Bad : \A m \in Bad : k <= m
      <3>1. Bad \in SUBSET Nat
        OBVIOUS
      <3> HIDE DEF Bad
      <3> QED
        BY <2>1, <3>1, LeastOfNaturals
    <2>3. k \in 0 .. Len(s) /\ g[k] = KeptStep(g, s, S, k) /\ g[k] \notin Seq(T)
      BY <1>3
    <2>4. CASE k = 0
      <3>1. g[k] = <<>>
        BY <2>3, <2>4 DEF KeptStep
      <3>2. <<>> \in Seq(T)
        OBVIOUS
      <3> QED
        BY <2>3, <3>1, <3>2
    <2>5. CASE k # 0
      <3>1. k - 1 \in 0 .. Len(s) /\ k \in 1 .. Len(s)
        BY <2>3, <2>5
      <3>2. g[k - 1] \in Seq(T)
        BY <2>2, <3>1
      <3>3. s[k] \in T
        BY <3>1
      <3>4. g[k] = IF s[k] \in S THEN Append(g[k - 1], s[k]) ELSE g[k - 1]
        BY <2>3, <2>5 DEF KeptStep
      <3>5. Append(g[k - 1], s[k]) \in Seq(T)
        BY <3>2, <3>3
      <3> QED
        BY <2>3, <3>2, <3>4, <3>5
    <2> QED
      BY <2>4, <2>5
  <1>5. Len(s) \in 0 .. Len(s)
    OBVIOUS
  <1> QED
    BY <1>1, <1>4, <1>5

-----------------------------------------------------------------------------
(* Layers and edges.                                                         *)

LEMMA LayerFacts ==
    ASSUME arch \in Architectures
    PROVE  /\ Layer = 1 .. Len(arch.parent) /\ Len(arch.parent) \in Nat
           /\ \A l \in Layer : arch.parent[l] \in Seq(Nat)
           /\ \A l \in Layer : \A k \in DOMAIN arch.parent[l] :
                  arch.parent[l][k] \in 1 .. l - 1
           /\ \A l \in Layer : arch.parent[l] \in Seq(Layer)
  <1>1. arch.parent \in Seq(Seq(Nat))
    BY ArchitectureAssumption
  <1>2. Layer = 1 .. Len(arch.parent) /\ Len(arch.parent) \in Nat
    BY <1>1 DEF Layer
  <1>3. \A l \in Layer : arch.parent[l] \in Seq(Nat)
    BY <1>1 DEF Layer
  <1>4. \A l \in Layer : \A k \in DOMAIN arch.parent[l] : arch.parent[l][k] \in 1 .. l - 1
    BY ArchitectureAssumption DEF Layer
  <1>5. ASSUME NEW l \in Layer PROVE arch.parent[l] \in Seq(Layer)
    <2> DEFINE ps == arch.parent[l]
    <2>1. ps \in Seq(Nat)
      BY <1>3
    <2>2. \A k \in 1 .. Len(ps) : ps[k] \in Layer
      <3> SUFFICES ASSUME NEW k \in 1 .. Len(ps) PROVE ps[k] \in Layer
        OBVIOUS
      <3>1. k \in DOMAIN ps
        BY <2>1
      <3>2. ps[k] \in 1 .. l - 1 /\ l \in 1 .. Len(arch.parent)
        BY <1>2, <1>4, <3>1
      <3> QED
        BY <1>2, <3>2
    <2> HIDE DEF ps
    <2>3. ps \in Seq(Layer)
      BY <2>1, <2>2
    <2> QED
      BY <2>3 DEF ps
  <1> QED
    BY <1>2, <1>3, <1>4, <1>5

LEMMA EdgeFacts ==
    ASSUME arch \in Architectures, NEW e \in Edge
    PROVE  /\ Parent(e) \in Layer /\ Child(e) \in Layer
           /\ Parent(e) \in Nat /\ Child(e) \in Nat /\ Parent(e) < Child(e)
  <1>1. PICK l \in Layer : e \in {l} \X DOMAIN arch.parent[l]
    BY DEF Edge
  <1>2. e[1] = l /\ e[2] \in DOMAIN arch.parent[l]
    BY <1>1
  <1>3. arch.parent[l][e[2]] \in 1 .. l - 1 /\ l \in 1 .. Len(arch.parent)
        /\ Layer = 1 .. Len(arch.parent) /\ Len(arch.parent) \in Nat
    BY <1>2, LayerFacts
  <1> QED
    BY <1>2, <1>3 DEF Parent, Child

LEMMA EndFacts ==
    ASSUME arch \in Architectures, NEW p, NEW e \in Edge
    PROVE  /\ Before(p, e) \in Layer /\ After(p, e) \in Layer
           /\ {Before(p, e), After(p, e)} = {Parent(e), Child(e)}
           /\ p = "bts" => Before(p, e) = Child(e) /\ After(p, e) = Parent(e)
           /\ p # "bts" => Before(p, e) = Parent(e) /\ After(p, e) = Child(e)
  BY EdgeFacts DEF Before, After

LEMMA UpperBound ==
    ASSUME NEW a \in Nat, NEW b \in Nat
    PROVE  \E k \in Nat : a <= k /\ b <= k
  <1>1. CASE a <= b
    BY <1>1
  <1>2. CASE b <= a
    BY <1>2
  <1> QED
    BY <1>1, <1>2

\* The number of parents is bounded.
LEMMA ParentsAreBounded ==
    ASSUME arch \in Architectures
    PROVE  \E m \in Nat : \A l \in Layer : Len(arch.parent[l]) <= m
  <1> DEFINE bound(n, m) == \A l \in Layer : l <= n => Len(arch.parent[l]) <= m
             Bad == {n \in Nat : \A m \in Nat : ~ bound(n, m)}
  <1>0. /\ Layer = 1 .. Len(arch.parent) /\ Len(arch.parent) \in Nat
        /\ \A l \in Layer : Len(arch.parent[l]) \in Nat
    BY LayerFacts
  <1>1. Bad = {}
    <2>1. SUFFICES ASSUME Bad # {} PROVE FALSE
      OBVIOUS
    <2>2. PICK n \in Bad : \A k \in Bad : n <= k
      <3>1. Bad \in SUBSET Nat
        OBVIOUS
      <3> HIDE DEF Bad
      <3> QED
        BY <2>1, <3>1, LeastOfNaturals
    <2>3. n # 0
      <3>1. bound(0, 0)
        BY <1>0
      <3> QED
        BY <3>1
    <2>4. n - 1 \in Nat /\ n - 1 \notin Bad
      BY <2>2, <2>3
    <2>5. PICK m \in Nat : bound(n - 1, m)
      BY <2>4
    <2>6. CASE n \in Layer
      <3>1. PICK k \in Nat : m <= k /\ Len(arch.parent[n]) <= k
        <4>1. Len(arch.parent[n]) \in Nat
          BY <1>0, <2>6
        <4> QED
          BY <4>1, UpperBound
      <3>2. bound(n, k)
        <4> SUFFICES ASSUME NEW l \in Layer, l <= n PROVE Len(arch.parent[l]) <= k
          OBVIOUS
        <4>1. CASE l = n
          BY <3>1, <4>1
        <4>2. CASE l # n
          <5>1. l <= n - 1
            BY <1>0, <4>2
          <5>2. Len(arch.parent[l]) <= m /\ Len(arch.parent[l]) \in Nat
            BY <1>0, <2>5, <5>1
          <5> QED
            BY <3>1, <5>2
        <4> QED
          BY <4>1, <4>2
      <3> QED
        BY <3>2
    <2>7. CASE n \notin Layer
      <3>1. bound(n, m)
        <4> SUFFICES ASSUME NEW l \in Layer, l <= n PROVE Len(arch.parent[l]) <= m
          OBVIOUS
        <4>1. l <= n - 1
          BY <1>0, <2>7
        <4> QED
          BY <2>5, <4>1
      <3> QED
        BY <3>1
    <2> QED
      BY <2>6, <2>7
  <1>2. Len(arch.parent) \in Nat /\ Len(arch.parent) \notin Bad
    BY <1>0, <1>1
  <1>3. PICK m \in Nat : bound(Len(arch.parent), m)
    BY <1>2
  <1>4. \A l \in Layer : l <= Len(arch.parent)
    BY <1>0
  <1>5. \A l \in Layer : Len(arch.parent[l]) <= m
    BY <1>3, <1>4
  <1> QED
    BY <1>5

LEMMA EdgesAreFinite ==
    ASSUME arch \in Architectures
    PROVE  IsFiniteSet(Edge)
  <1>1. PICK m \in Nat : \A l \in Layer : Len(arch.parent[l]) <= m
    BY ParentsAreBounded
  <1>2. IsFiniteSet(Layer) /\ IsFiniteSet(1 .. m)
    BY LayerFacts, FS_Interval
  <1>3. IsFiniteSet(Layer \X (1 .. m))
    BY <1>2, FS_Product
  <1>4. Edge \subseteq Layer \X (1 .. m)
    <2> SUFFICES ASSUME NEW e \in Edge PROVE e \in Layer \X (1 .. m)
      OBVIOUS
    <2>1. PICK l \in Layer : e \in {l} \X DOMAIN arch.parent[l]
      BY DEF Edge
    <2>2. DOMAIN arch.parent[l] \subseteq 1 .. m
      <3>1. arch.parent[l] \in Seq(Nat) /\ Len(arch.parent[l]) <= m
        BY <1>1, LayerFacts
      <3> QED
        BY <3>1
    <2> QED
      BY <2>1, <2>2
  <1> QED
    BY <1>3, <1>4, FS_Subset

-----------------------------------------------------------------------------
(* Sorting.                                                                  *)

\* In a set of layers there is one that waits for none of the others: the first
\* one created, or the last one when children go first.
LEMMA OneIsReady ==
    ASSUME arch \in Architectures, NEW p, NEW U \in SUBSET Layer, U # {}
    PROVE  \E u \in U : Waits(p, u, U) = {}
  <1>0. Layer = 1 .. Len(arch.parent) /\ Len(arch.parent) \in Nat
    BY LayerFacts
  <1>1. U \in SUBSET Nat /\ \A n \in U : n <= Len(arch.parent)
    BY <1>0
  <1>2. CASE p # "bts"
    <2>1. PICK u \in U : \A m \in U : u <= m
      BY <1>1, LeastOfNaturals
    <2>2. ASSUME NEW e \in Edge, After(p, e) = u PROVE Before(p, e) \notin U
      BY <1>1, <1>2, <2>1, <2>2, EdgeFacts, EndFacts
    <2> QED
      BY <2>2 DEF Waits
  <1>3. CASE p = "bts"
    <2>1. PICK u \in U : \A m \in U : m <= u
      BY <1>0, <1>1, GreatestOfNaturals
    <2>2. ASSUME NEW e \in Edge, After(p, e) = u PROVE Before(p, e) \notin U
      BY <1>1, <1>3, <2>1, <2>2, EdgeFacts, EndFacts
    <2> QED
      BY <2>2 DEF Waits
  <1> QED
    BY <1>2, <1>3

LEMMA WaitsAreCounted ==
    ASSUME arch \in Architectures, NEW p, NEW m, NEW U
    PROVE  /\ IsFiniteSet(Waits(p, m, U)) /\ Cardinality(Waits(p, m, U)) \in Nat
           /\ Cardinality(Waits(p, m, U)) = 0 <=> Waits(p, m, U) = {}
  <1>1. Waits(p, m, U) \in SUBSET Edge
    BY DEF Waits
  <1>2. IsFiniteSet(Waits(p, m, U))
    BY <1>1, EdgesAreFinite, FS_Subset
  <1> QED
    BY <1>2, FS_CardinalityType, FS_EmptySet

\* Taking off what layer l released leaves the count of the rest.
LEMMA CountsAfterVisit ==
    ASSUME arch \in Architectures, NEW p, NEW m, NEW U, NEW l \in U
    PROVE  Cardinality(Waits(p, m, U)) - Released(p, l, m)
               = Cardinality(Waits(p, m, U \ {l}))
  <1> DEFINE A == Waits(p, m, U \ {l})
             R == {e \in Edge : Before(p, e) = l /\ After(p, e) = m}
  <1>1. Waits(p, m, U) = A \cup R /\ A \cap R = {}
    BY DEF Waits
  <1>2. IsFiniteSet(A) /\ IsFiniteSet(R)
    BY EdgesAreFinite, FS_Subset, WaitsAreCounted
  <1>3. Released(p, l, m) = Cardinality(R)
    BY DEF Released
  <1> HIDE DEF A, R
  <1>4. Cardinality(A \cup R) = Cardinality(A) + Cardinality(R) - Cardinality(A \cap R)
    BY <1>2, FS_Union
  <1>5. Cardinality(A \cap R) = 0 /\ Cardinality(A) \in Nat /\ Cardinality(R) \in Nat
    BY <1>1, <1>2, FS_EmptySet, FS_CardinalityType
  <1>6. Cardinality(Waits(p, m, U)) - Released(p, l, m) = Cardinality(A)
    BY <1>1, <1>3, <1>4, <1>5
  <1> QED
    BY <1>6 DEF A

\* s sorts a part of S that nothing outside the part comes before.
SortedSoFar(p, s, S) ==
    /\ Elements(s) \subseteq S
    /\ \A i, j \in DOMAIN s : s[i] = s[j] => i = j
    /\ \A e \in Edge : Before(p, e) \in S =>
           \A j \in DOMAIN s : s[j] = After(p, e) =>
               \E i \in DOMAIN s : i < j /\ s[i] = Before(p, e)

LEMMA AppendElements ==
    ASSUME NEW T, NEW s \in Seq(T), NEW l
    PROVE  Elements(Append(s, l)) = Elements(s) \cup {l}
  <1> DEFINE t == Append(s, l)
             n == Len(s)
  <1>1. /\ n \in Nat /\ DOMAIN s = 1 .. n /\ DOMAIN t = 1 .. n + 1
        /\ t[n + 1] = l /\ \A i \in 1 .. n : t[i] = s[i]
    OBVIOUS
  <1> HIDE DEF t, n
  <1>2. Elements(t) \subseteq Elements(s) \cup {l}
    <2> SUFFICES ASSUME NEW i \in 1 .. n + 1 PROVE t[i] \in Elements(s) \cup {l}
      BY <1>1 DEF Elements
    <2>1. i \in 1 .. n \/ i = n + 1
      BY <1>1
    <2> QED
      BY <1>1, <2>1 DEF Elements
  <1>3. Elements(s) \subseteq Elements(t) /\ l \in Elements(t)
    <2>1. n + 1 \in 1 .. n + 1 /\ \A i \in 1 .. n : i \in 1 .. n + 1
      BY <1>1
    <2> QED
      BY <1>1, <2>1 DEF Elements
  <1> QED
    BY <1>2, <1>3 DEF t

LEMMA AppendSorted ==
    ASSUME arch \in Architectures, NEW p, NEW S, NEW s \in Seq(Layer),
           SortedSoFar(p, s, S), NEW l \in S \cap Layer, l \notin Elements(s),
           Waits(p, l, S \ Elements(s)) = {}
    PROVE  /\ Append(s, l) \in Seq(Layer)
           /\ SortedSoFar(p, Append(s, l), S)
  <1> DEFINE t == Append(s, l)
             n == Len(s)
  <1>1. /\ t \in Seq(Layer) /\ n \in Nat /\ DOMAIN s = 1 .. n /\ DOMAIN t = 1 .. n + 1
        /\ t[n + 1] = l /\ \A i \in 1 .. n : t[i] = s[i]
    OBVIOUS
  <1> HIDE DEF t, n
  <1>2. \A i \in 1 .. n : s[i] # l
    BY <1>1 DEF Elements
  <1>3. Elements(t) = Elements(s) \cup {l}
    BY AppendElements DEF t
  <1>4. ASSUME NEW i \in DOMAIN t, NEW j \in DOMAIN t, t[i] = t[j] PROVE i = j
    <2>1. (i \in 1 .. n \/ i = n + 1) /\ (j \in 1 .. n \/ j = n + 1)
      BY <1>1
    <2> QED
      BY <1>1, <1>2, <1>4, <2>1 DEF SortedSoFar
  <1>5. ASSUME NEW e \in Edge, Before(p, e) \in S, NEW j \in DOMAIN t, t[j] = After(p, e)
        PROVE  \E i \in DOMAIN t : i < j /\ t[i] = Before(p, e)
    <2>1. j \in 1 .. n \/ j = n + 1
      BY <1>1
    <2>2. CASE j \in 1 .. n
      <3>1. PICK i \in 1 .. n : i < j /\ s[i] = Before(p, e)
        BY <1>1, <1>5, <2>2 DEF SortedSoFar
      <3>2. i \in DOMAIN t /\ t[i] = s[i]
        BY <1>1, <3>1
      <3> QED
        BY <3>1, <3>2
    <2>3. CASE j = n + 1
      <3>1. Before(p, e) \in Elements(s)
        BY <1>1, <1>5, <2>3 DEF Waits
      <3>2. PICK i \in 1 .. n : s[i] = Before(p, e)
        BY <1>1, <3>1 DEF Elements
      <3>3. i \in DOMAIN t /\ t[i] = s[i] /\ i < j
        BY <1>1, <2>3, <3>2
      <3> QED
        BY <3>2, <3>3
    <2> QED
      BY <2>1, <2>2, <2>3
  <1>6. SortedSoFar(p, t, S)
    <2>1. Elements(t) \subseteq S
      BY <1>3 DEF SortedSoFar
    <2> QED
      BY <2>1, <1>4, <1>5 DEF SortedSoFar
  <1> QED
    BY <1>1, <1>6 DEF t

\* When all of S is visited it is sorted.
LEMMA AllSorted ==
    ASSUME arch \in Architectures, NEW p, NEW S, NEW s \in Seq(Layer),
           SortedSoFar(p, s, S), S \subseteq Elements(s)
    PROVE  Sorts(p, s, S)
  <1>1. Elements(s) = S
    BY DEF SortedSoFar
  <1>2. Len(s) = Cardinality(S)
    <2>1. Len(s) \in Nat /\ DOMAIN s = 1 .. Len(s)
      OBVIOUS
    <2>2. IsFiniteSet(1 .. Len(s)) /\ Cardinality(1 .. Len(s)) = Len(s)
      BY <2>1, FS_Interval
    <2>3. s \in Bijection(1 .. Len(s), S)
      BY <1>1, <2>1 DEF SortedSoFar, Elements, Bijection, Injection, Surjection, IsInjective
    <2>4. ExistsBijection(1 .. Len(s), S)
      BY <2>3 DEF ExistsBijection
    <2> QED
      BY <2>2, <2>4, FS_Bijection
  <1>3. \A x \in S : Position(s, x) \in DOMAIN s /\ s[Position(s, x)] = x
    BY <1>1 DEF Position, Elements
  <1>4. ASSUME NEW e \in Edge, {Parent(e), Child(e)} \subseteq S
        PROVE  Position(s, Before(p, e)) < Position(s, After(p, e))
    <2>1. Before(p, e) \in S /\ After(p, e) \in S
      BY <1>4, EndFacts
    <2>2. PICK i \in DOMAIN s : i < Position(s, After(p, e)) /\ s[i] = Before(p, e)
      BY <1>3, <2>1 DEF SortedSoFar
    <2>3. i = Position(s, Before(p, e))
      BY <1>3, <2>1, <2>2 DEF SortedSoFar
    <2> QED
      BY <2>2, <2>3
  <1> QED
    BY <1>1, <1>2, <1>4 DEF Sorts

-----------------------------------------------------------------------------
(* The inductive invariant.                                                  *)

BuiltNet == [layers : Seq(Layer), lin : Seq(Layer), lout : Seq(Layer),
             forward : Seq(Layer), backward : Seq(Layer)]

SortedNet(n) == /\ Sorts("fts", n.forward, Elements(n.layers))
                /\ Sorts("bts", n.backward, Elements(n.layers))

NetsInv ==
    /\ nets \in Seq([host : BuiltNet, device : BuiltNet])
    /\ \A i \in DOMAIN nets : SortedNet(nets[i].host) /\ SortedNet(nets[i].device)
    /\ twin # NoNet => twin \in BuiltNet /\ SortedNet(twin)

WalkType == /\ stack \in Seq(Layer) /\ front \in Seq(Layer) /\ back \in Seq(Layer)
            /\ ends \in [in : Seq(Layer), out : Seq(Layer)]

SortType == /\ layers \in Seq(Layer) /\ order \in Seq(Layer) /\ forward \in Seq(Layer)
            /\ DOMAIN count \subseteq Layer /\ \A l \in DOMAIN count : count[l] \in Nat

\* During a sort a layer's count is that of the edges it still waits for.
VisitInv ==
    phase \in Sorting =>
        /\ SortedSoFar(phase, order, Elements(layers))
        /\ DOMAIN count = Elements(layers)
        /\ \A l \in Elements(layers) : count[l] = Cardinality(Waits(phase, l, Unvisited))

ForwardInv == phase = "bts" => Sorts("fts", forward, Elements(layers))

PhaseInv == phase \in {"model", "walk", "walk_back", "built"} \cup Sorting

GraphInv == /\ arch \in Architectures /\ PhaseInv /\ NetsInv /\ WalkType /\ SortType
            /\ VisitInv /\ ForwardInv

LEMMA SameArch ==
    ASSUME arch' = arch
    PROVE  Layer' = Layer /\ Edge' = Edge /\ BuiltNet' = BuiltNet
  BY DEF Layer, Edge, BuiltNet

LEMMA SameNets ==
    ASSUME NetsInv, UNCHANGED <<arch, nets, twin>>
    PROVE  NetsInv'
  BY SameArch DEF NetsInv, SortedNet, Sorts, Before, After, Parent, Child

LEMMA SameSorts ==
    ASSUME arch' = arch, layers' = layers, NEW p, Sorts(p, forward', Elements(layers))
    PROVE  Sorts(p, forward, Elements(layers))'
  <1>1. Elements(layers)' = Elements(layers)
    BY DEF Elements
  <1>2. \A e : /\ Before(p, e)' = Before(p, e) /\ After(p, e)' = After(p, e)
               /\ Parent(e)' = Parent(e) /\ Child(e)' = Child(e)
    BY DEF Before, After, Parent, Child
  <1> QED
    BY <1>1, <1>2, SameArch DEF Sorts

LEMMA ElementsOf ==
    ASSUME NEW T, NEW s \in Seq(T)
    PROVE  Elements(s) \subseteq T
  BY DEF Elements

LEMMA WalkToType ==
    ASSUME GraphInv, NEW l \in Layer
    PROVE  WalkTo(l) \in Seq(Layer) /\ Parents(l) \in Seq(Layer)
  <1>0. arch \in Architectures /\ Layer = 1 .. Len(arch.parent) /\ Len(arch.parent) \in Nat
        /\ arch.parent[l] \in Seq(Layer)
    BY LayerFacts DEF GraphInv
  <1>1. Created \in Seq(Layer)
    <2>1. CASE twin = NoNet
      <3>1. Created = [k \in 1 .. Len(arch.parent) |-> k]
        BY <1>0, <2>1 DEF Created
      <3>2. [k \in 1 .. Len(arch.parent) |-> k] \in [1 .. Len(arch.parent) -> Layer]
        BY <1>0
      <3> QED
        BY <1>0, <3>1, <3>2
    <2>2. CASE twin # NoNet
      BY <2>2 DEF Created, GraphInv, NetsInv, BuiltNet
    <2> QED
      BY <2>1, <2>2
  <1>2. Children(l) \in Seq(Layer) /\ Parents(l) \in Seq(Layer)
    BY <1>0, <1>1, KeptType DEF Children, Parents
  <1>3. <<>> \in Seq(Layer)
    OBVIOUS
  <1> QED
    BY <1>2, <1>3 DEF WalkTo

\* A sort that begins.
LEMMA BeginSortInv ==
    ASSUME arch \in Architectures, arch' = arch, NEW p \in Sorting,
           NEW ls \in Seq(Layer), BeginSort(p, ls), forward' \in Seq(Layer)
    PROVE  PhaseInv' /\ SortType' /\ VisitInv'
  <1>1. /\ phase' = p /\ layers' = ls /\ order' = <<>>
        /\ count' = [l \in Elements(ls) |-> Cardinality(Waits(p, l, Elements(ls)))]
    BY DEF BeginSort, Counts
  <1>2. Elements(ls) \subseteq Layer /\ Layer' = Layer /\ Edge' = Edge
    BY SameArch, ElementsOf
  <1>3. PhaseInv'
    BY <1>1 DEF PhaseInv, Sorting
  <1>4. <<>> \in Seq(Layer) /\ DOMAIN <<>> = {} /\ Elements(<<>>) = {}
    BY DEF Elements
  <1>5. SortType'
    <2>1. \A l \in Elements(ls) : count'[l] \in Nat
      BY <1>1, WaitsAreCounted
    <2>2. DOMAIN count' = Elements(ls)
      BY <1>1
    <2>3. order' \in Seq(Layer) /\ layers' \in Seq(Layer)
      BY <1>1, <1>4
    <2> QED
      BY <1>2, <2>1, <2>2, <2>3 DEF SortType
  <1>6. VisitInv'
    <2>1. SortedSoFar(phase, order, Elements(layers))'
      BY <1>1, <1>4 DEF SortedSoFar
    <2>2. Unvisited' = Elements(ls) /\ Elements(layers)' = Elements(ls)
      BY <1>1, <1>4 DEF Unvisited, Elements
    <2>3. \A l \in Elements(ls) :
              Waits(phase, l, Unvisited)' = Waits(p, l, Elements(ls))
      BY <1>1, <1>2, <2>2 DEF Waits, Before, After, Parent, Child
    <2>4. \A l \in Elements(ls) :
              count'[l] = Cardinality(Waits(phase, l, Unvisited)')
      BY <1>1, <2>3
    <2> QED
      BY <1>1, <2>1, <2>2, <2>4 DEF VisitInv
  <1> QED
    BY <1>3, <1>5, <1>6

LEMMA InitGraphInv == GraphInit => GraphInv
  <1> SUFFICES ASSUME GraphInit PROVE GraphInv
    OBVIOUS
  <1>1. \A T : <<>> \in Seq(T)
    OBVIOUS
  <1>2. DOMAIN <<>> = {}
    OBVIOUS
  <1>3. NetsInv
    BY <1>1, <1>2 DEF GraphInit, NetsInv
  <1>4. WalkType
    BY <1>1 DEF GraphInit, WalkType
  <1>5. SortType
    BY <1>1, <1>2 DEF GraphInit, SortType
  <1> QED
    BY <1>3, <1>4, <1>5 DEF GraphInit, GraphInv, PhaseInv, VisitInv, ForwardInv, Sorting

\* Collecting the layers.
LEMMA WalkingInv ==
    ASSUME GraphInv, StartModel \/ Walk \/ TurnBack \/ WalkBack
    PROVE  GraphInv'
  <1>0. /\ UNCHANGED <<arch, nets, twin, layers, count, order, forward>>
        /\ phase' \in {"walk", "walk_back"}
    BY DEF StartModel, Walk, TurnBack, WalkBack, sortVars
  <1>1. NetsInv' /\ Layer' = Layer
    BY <1>0, SameNets, SameArch DEF GraphInv
  <1>2. SortType'
    BY <1>0, <1>1 DEF GraphInv, SortType
  <1>3. PhaseInv' /\ VisitInv' /\ ForwardInv'
    BY <1>0 DEF PhaseInv, VisitInv, ForwardInv, Sorting
  <1>4. WalkType'
    <2>1. CASE StartModel
      <3> DEFINE m == arch.models[Len(nets) + 1]
      <3>1. m.in \in Seq(Layer) /\ m.out \in Seq(Layer)
        <4>1. Len(nets) \in Nat /\ Len(nets) < Len(arch.models)
          BY <2>1 DEF StartModel, GraphInv, NetsInv
        <4> DEFINE R == [in : Seq(DOMAIN arch.parent), out : Seq(DOMAIN arch.parent),
                         losses : Nat, mem : {0, 1}, isLoss : BOOLEAN,
                         feeds : Seq(DOMAIN arch.parent)]
        <4>2. arch.models \in Seq(R)
          BY ArchitectureAssumption DEF GraphInv
        <4>3. m \in R
          <5> HIDE DEF R
          <5>1. Len(nets) + 1 \in 1 .. Len(arch.models)
            BY <4>1, <4>2
          <5> QED
            BY <4>2, <5>1
        <4> QED
          BY <4>3 DEF Layer
      <3>2. ends' = [in |-> m.in, out |-> m.out] /\ stack' = m.in
            /\ front' = front /\ back' = back
        BY <2>1 DEF StartModel
      <3> HIDE DEF m
      <3> QED
        BY <1>1, <3>1, <3>2 DEF GraphInv, WalkType
    <2>2. CASE Walk
      <3> DEFINE l == Head(stack)
      <3>1. stack \in Seq(Layer) /\ stack # <<>> /\ front \in Seq(Layer)
            /\ ends' = ends /\ back' = back
        BY <2>2 DEF Walk, GraphInv, WalkType
      <3>2. l \in Layer /\ Tail(stack) \in Seq(Layer)
        BY <3>1
      <3>3. WalkTo(l) \o Tail(stack) \in Seq(Layer) /\ Append(front, l) \in Seq(Layer)
        BY <3>1, <3>2, WalkToType
      <3>4. \/ stack' = Tail(stack) /\ front' = front
            \/ stack' = WalkTo(l) \o Tail(stack) /\ front' = Append(front, l)
        BY <2>2 DEF Walk
      <3> HIDE DEF l
      <3> QED
        BY <1>1, <3>1, <3>2, <3>3, <3>4 DEF GraphInv, WalkType
    <2>3. CASE TurnBack
      BY <1>1, <2>3 DEF TurnBack, GraphInv, WalkType
    <2>4. CASE WalkBack
      <3> DEFINE l == Head(stack)
      <3>1. stack \in Seq(Layer) /\ stack # <<>> /\ back \in Seq(Layer)
            /\ ends' = ends /\ front' = front
        BY <2>4 DEF WalkBack, GraphInv, WalkType
      <3>2. l \in Layer /\ Tail(stack) \in Seq(Layer)
        BY <3>1
      <3>3. Parents(l) \o Tail(stack) \in Seq(Layer) /\ Append(back, l) \in Seq(Layer)
        BY <3>1, <3>2, WalkToType
      <3>4. \/ stack' = Tail(stack) /\ back' = back
            \/ stack' = Parents(l) \o Tail(stack) /\ back' = Append(back, l)
        BY <2>4 DEF WalkBack
      <3> HIDE DEF l
      <3> QED
        BY <1>1, <3>1, <3>2, <3>3, <3>4 DEF GraphInv, WalkType
    <2> QED
      BY <2>1, <2>2, <2>3, <2>4
  <1> QED
    BY <1>0, <1>1, <1>2, <1>3, <1>4 DEF GraphInv

\* From the layers as collected to the first sort, and from that to the next.
LEMMA CollectInv == ASSUME GraphInv, Collect PROVE GraphInv'
  <1>1. /\ BeginSort("sort", Collected) /\ front' = <<>> /\ back' = <<>>
        /\ UNCHANGED <<arch, nets, twin, ends, stack, forward>>
    BY DEF Collect
  <1>2. Collected \in Seq(Layer)
    BY KeptType DEF Collected, GraphInv, WalkType
  <1>3. NetsInv' /\ Layer' = Layer
    BY <1>1, SameNets, SameArch DEF GraphInv
  <1>4. PhaseInv' /\ SortType' /\ VisitInv'
    BY <1>1, <1>2, BeginSortInv DEF GraphInv, SortType, Sorting
  <1>5. ForwardInv'
    BY <1>1 DEF ForwardInv, BeginSort
  <1>6. WalkType'
    <2>1. <<>> \in Seq(Layer)
      OBVIOUS
    <2> QED
      BY <1>1, <1>3, <2>1 DEF GraphInv, WalkType
  <1> QED
    BY <1>1, <1>3, <1>4, <1>5, <1>6 DEF GraphInv

LEMMA ResortInv == ASSUME GraphInv, Resort PROVE GraphInv'
  <1>1. BeginSort("fts", order) /\ UNCHANGED <<arch, nets, twin, ends, walkVars, forward>>
    BY DEF Resort
  <1>2. NetsInv' /\ Layer' = Layer
    BY <1>1, SameNets, SameArch DEF GraphInv
  <1>3. PhaseInv' /\ SortType' /\ VisitInv'
    BY <1>1, BeginSortInv DEF GraphInv, SortType, Sorting
  <1>4. ForwardInv' /\ WalkType'
    BY <1>1, <1>2 DEF ForwardInv, BeginSort, GraphInv, WalkType, walkVars
  <1> QED
    BY <1>1, <1>2, <1>3, <1>4 DEF GraphInv

LEMMA SortedForwardInv == ASSUME GraphInv, SortedForward PROVE GraphInv'
  <1>1. /\ forward' = order /\ BeginSort("bts", layers) /\ phase = "fts" /\ Unvisited = {}
        /\ UNCHANGED <<arch, nets, twin, ends, walkVars>>
    BY DEF SortedForward
  <1>2. NetsInv' /\ Layer' = Layer /\ Edge' = Edge
    BY <1>1, SameNets, SameArch DEF GraphInv
  <1>3. PhaseInv' /\ SortType' /\ VisitInv'
    BY <1>1, BeginSortInv DEF GraphInv, SortType, Sorting
  <1>4. ForwardInv'
    <2>1. Sorts("fts", order, Elements(layers))
      <3>1. SortedSoFar("fts", order, Elements(layers))
        BY <1>1 DEF GraphInv, VisitInv, Sorting
      <3>2. Elements(layers) \subseteq Elements(order)
        BY <1>1 DEF Unvisited
      <3> QED
        BY <3>1, <3>2, AllSorted DEF GraphInv, SortType
    <2>2. layers' = layers
      BY <1>1 DEF BeginSort
    <2> QED
      BY <1>1, <2>1, <2>2, SameSorts DEF ForwardInv
  <1>5. WalkType'
    BY <1>1, <1>2 DEF GraphInv, WalkType, walkVars
  <1> QED
    BY <1>1, <1>2, <1>3, <1>4, <1>5 DEF GraphInv

\* A layer is visited; there always is one that can be.
LEMMA VisitStepInv == ASSUME GraphInv, Visit PROVE GraphInv'
  <1> DEFINE S == Elements(layers)
             l == layers[First(Ready)]
  <1>0. /\ arch \in Architectures /\ phase \in Sorting /\ Unvisited # {}
        /\ layers \in Seq(Layer) /\ order \in Seq(Layer)
        /\ S \subseteq Layer /\ Unvisited = S \ Elements(order)
        /\ UNCHANGED <<arch, nets, twin, ends, walkVars, layers, forward>>
    BY ElementsOf DEF GraphInv, SortType, Visit, Unvisited
  <1>1. /\ SortedSoFar(phase, order, S) /\ DOMAIN count = S
        /\ \A m \in S : count[m] = Cardinality(Waits(phase, m, Unvisited))
    BY <1>0 DEF GraphInv, VisitInv
  <1>2. Ready # {}
    <2>1. PICK u \in Unvisited : Waits(phase, u, Unvisited) = {}
      BY <1>0, OneIsReady
    <2>2. u \in S /\ count[u] = 0
      BY <1>0, <1>1, <2>1, WaitsAreCounted
    <2>3. PICK i \in DOMAIN layers : layers[i] = u
      BY <2>2 DEF Elements
    <2> QED
      BY <2>2, <2>3 DEF Ready
  <1>3. First(Ready) \in Ready
    <2>1. Ready \in SUBSET Nat
      BY <1>0 DEF Ready
    <2> QED
      BY <1>2, <2>1, LeastOfNaturals DEF First
  <1>4. l \in Unvisited /\ l \in S /\ l \in Layer /\ l \notin Elements(order)
        /\ Waits(phase, l, Unvisited) = {}
    <2>1. l \in Unvisited /\ count[l] = 0
      BY <1>3 DEF Ready
    <2> QED
      BY <1>0, <1>1, <2>1, WaitsAreCounted
  <1>5. /\ order' = Append(order, l) /\ phase' = phase
        /\ count' = [m \in S |-> count[m] - Released(phase, l, m)]
    BY <1>1, <1>2 DEF Visit
  <1>6. Layer' = Layer /\ Edge' = Edge /\ NetsInv'
    BY <1>0, SameArch, SameNets DEF GraphInv
  <1> HIDE DEF l
  <1>7. /\ order' \in Seq(Layer) /\ SortedSoFar(phase, order', S)
        /\ Elements(order') = Elements(order) \cup {l}
    <2>1. l \in S \cap Layer /\ Waits(phase, l, S \ Elements(order)) = {}
      BY <1>0, <1>4
    <2> HIDE DEF S
    <2>2. Append(order, l) \in Seq(Layer) /\ SortedSoFar(phase, Append(order, l), S)
      BY <1>0, <1>1, <1>4, <2>1, AppendSorted
    <2> QED
      BY <1>0, <1>5, <2>2, AppendElements
  <1>8. \A m \in S : /\ count'[m] = Cardinality(Waits(phase, m, Unvisited \ {l}))
                     /\ count'[m] \in Nat
    <2> SUFFICES ASSUME NEW m \in S
                 PROVE  /\ count'[m] = Cardinality(Waits(phase, m, Unvisited \ {l}))
                        /\ count'[m] \in Nat
      OBVIOUS
    <2>1. count'[m] = Cardinality(Waits(phase, m, Unvisited)) - Released(phase, l, m)
      BY <1>1, <1>5
    <2>2. Cardinality(Waits(phase, m, Unvisited)) - Released(phase, l, m)
              = Cardinality(Waits(phase, m, Unvisited \ {l}))
      BY <1>0, <1>4, CountsAfterVisit
    <2>3. Cardinality(Waits(phase, m, Unvisited \ {l})) \in Nat
      BY <1>0, WaitsAreCounted
    <2> QED
      BY <2>1, <2>2, <2>3
  <1>9. PhaseInv' /\ ForwardInv' /\ WalkType'
    <2>1. PhaseInv' /\ WalkType'
      BY <1>0, <1>5, <1>6 DEF GraphInv, PhaseInv, WalkType, walkVars
    <2>2. ForwardInv'
      BY <1>0, <1>5, SameSorts DEF GraphInv, ForwardInv
    <2> QED
      BY <2>1, <2>2
  <1>10. SortType'
    <2>1. DOMAIN count' = S
      BY <1>5
    <2> QED
      BY <1>0, <1>6, <1>7, <1>8, <2>1 DEF GraphInv, SortType
  <1>11. VisitInv'
    <2>1. Elements(layers)' = S /\ Elements(order)' = Elements(order')
      BY <1>0 DEF Elements
    <2>2. Unvisited' = Unvisited \ {l}
      BY <1>0, <1>7, <2>1 DEF Unvisited
    <2>3. SortedSoFar(phase, order, Elements(layers))'
      BY <1>0, <1>5, <1>6, <1>7, <2>1 DEF SortedSoFar, Before, After, Parent, Child
    <2>4. \A m \in S : Waits(phase, m, Unvisited)' = Waits(phase, m, Unvisited \ {l})
      BY <1>0, <1>5, <1>6, <2>2 DEF Waits, Before, After, Parent, Child
    <2>5. DOMAIN count' = S
      BY <1>5
    <2> QED
      BY <1>8, <2>1, <2>3, <2>4, <2>5 DEF VisitInv
  <1> QED
    BY <1>0, <1>6, <1>9, <1>10, <1>11 DEF GraphInv

\* A net with both its sorts.
LEMMA FinishedIsSorted ==
    ASSUME GraphInv, phase = "bts", Unvisited = {}
    PROVE  Finished \in BuiltNet /\ SortedNet(Finished)
  <1>1. layers \in Seq(Layer) /\ order \in Seq(Layer) /\ forward \in Seq(Layer)
        /\ ends.in \in Seq(Layer) /\ ends.out \in Seq(Layer)
    BY DEF GraphInv, SortType, WalkType
  <1>2. Sorts("bts", order, Elements(layers))
    <2>1. SortedSoFar("bts", order, Elements(layers))
      BY DEF GraphInv, VisitInv, Sorting
    <2>2. Elements(layers) \subseteq Elements(order)
      BY DEF Unvisited
    <2> QED
      BY <1>1, <2>1, <2>2, AllSorted DEF GraphInv
  <1>3. Sorts("fts", forward, Elements(layers))
    BY DEF GraphInv, ForwardInv
  <1> QED
    BY <1>1, <1>2, <1>3 DEF Finished, BuiltNet, SortedNet

LEMMA NetsAreKept ==
    ASSUME arch' = arch,
           nets' \in Seq([host : BuiltNet, device : BuiltNet]),
           \A i \in DOMAIN nets' : SortedNet(nets'[i].host) /\ SortedNet(nets'[i].device),
           twin' # NoNet => twin' \in BuiltNet /\ SortedNet(twin')
    PROVE  NetsInv'
  BY SameArch DEF NetsInv, SortedNet, Sorts, Before, After, Parent, Child

LEMMA SplitInv == ASSUME GraphInv, Split PROVE GraphInv'
  <1>1. /\ phase = "bts" /\ Unvisited = {} /\ twin' = Finished /\ phase' = "walk"
        /\ stack' = Among(forward, ends.in)
        /\ ends' = [in |-> Among(forward, ends.in), out |-> Among(forward, ends.out)]
        /\ layers' = <<>> /\ count' = <<>> /\ order' = <<>> /\ forward' = <<>>
        /\ UNCHANGED <<arch, nets, front, back>>
    BY DEF Split
  <1>2. <<>> \in Seq(Layer) /\ DOMAIN <<>> = {} /\ Layer' = Layer
    BY <1>1, SameArch
  <1>3. NetsInv'
    BY <1>1, FinishedIsSorted, NetsAreKept DEF GraphInv, NetsInv
  <1>4. WalkType'
    <2>1. Among(forward, ends.in) \in Seq(Layer) /\ Among(forward, ends.out) \in Seq(Layer)
      BY KeptType DEF Among, GraphInv, SortType
    <2> QED
      BY <1>1, <1>2, <2>1 DEF GraphInv, WalkType
  <1>5. SortType'
    BY <1>1, <1>2 DEF SortType
  <1> QED
    BY <1>1, <1>3, <1>4, <1>5 DEF GraphInv, PhaseInv, VisitInv, ForwardInv, Sorting

LEMMA BuiltInv == ASSUME GraphInv, Built PROVE GraphInv'
  <1> DEFINE host == IF twin = NoNet THEN Finished ELSE twin
             new == [host |-> host, device |-> Finished]
  <1>1. /\ phase = "bts" /\ Unvisited = {} /\ nets' = Append(nets, new)
        /\ phase' \in {"built", "model"} /\ twin' = NoNet /\ arch' = arch /\ Idle
    BY DEF Built
  <1>2. <<>> \in Seq(Layer) /\ DOMAIN <<>> = {} /\ Layer' = Layer
    BY <1>1, SameArch
  <1>3. Finished \in BuiltNet /\ SortedNet(Finished)
    BY <1>1, FinishedIsSorted
  <1>4. host \in BuiltNet /\ SortedNet(host)
    <2>1. CASE twin = NoNet
      BY <1>3, <2>1
    <2>2. CASE twin # NoNet
      BY <2>2 DEF GraphInv, NetsInv
    <2> QED
      BY <2>1, <2>2
  <1> HIDE DEF host
  <1>5. /\ new \in [host : BuiltNet, device : BuiltNet]
        /\ SortedNet(new.host) /\ SortedNet(new.device)
    BY <1>3, <1>4
  <1> HIDE DEF new
  <1>6. NetsInv'
    <2>1. /\ nets \in Seq([host : BuiltNet, device : BuiltNet])
          /\ \A i \in DOMAIN nets : SortedNet(nets[i].host) /\ SortedNet(nets[i].device)
      BY DEF GraphInv, NetsInv
    <2>2. nets' \in Seq([host : BuiltNet, device : BuiltNet])
      BY <1>1, <1>5, <2>1
    <2>3. \A i \in DOMAIN nets' :
              (i \in DOMAIN nets /\ nets'[i] = nets[i]) \/ nets'[i] = new
      BY <1>1, <2>1
    <2> QED
      BY <1>1, <1>5, <2>1, <2>2, <2>3, NetsAreKept
  <1>7. WalkType' /\ SortType'
    BY <1>1, <1>2 DEF Idle, GraphInv, WalkType, SortType
  <1> QED
    BY <1>1, <1>6, <1>7 DEF GraphInv, PhaseInv, VisitInv, ForwardInv, Sorting

LEMMA NextGraphInv == GraphInv /\ [GraphStep]_graphVars => GraphInv'
  <1> SUFFICES ASSUME GraphInv, [GraphStep]_graphVars PROVE GraphInv'
    OBVIOUS
  <1>1. CASE GraphStep
    BY <1>1, WalkingInv, CollectInv, VisitStepInv, ResortInv, SortedForwardInv, SplitInv,
       BuiltInv DEF GraphStep
  <1>2. CASE UNCHANGED graphVars
    <2>1. UNCHANGED <<arch, nets, phase, twin, ends, stack, front, back, layers, count,
                      order, forward>>
      BY <1>2 DEF graphVars, buildVars, walkVars, sortVars
    <2>2. NetsInv' /\ Layer' = Layer /\ Edge' = Edge
      BY <2>1, SameNets, SameArch DEF GraphInv
    <2>3. PhaseInv' /\ WalkType' /\ SortType'
      BY <2>1, <2>2 DEF GraphInv, PhaseInv, WalkType, SortType
    <2>4. ForwardInv'
      BY <2>1, SameSorts DEF GraphInv, ForwardInv
    <2>5. VisitInv'
      <3>1. Elements(layers)' = Elements(layers) /\ Unvisited' = Unvisited
        BY <2>1 DEF Elements, Unvisited
      <3>2. \A l : Waits(phase, l, Unvisited)' = Waits(phase, l, Unvisited)
        BY <2>1, <2>2, <3>1 DEF Waits, Before, After, Parent, Child
      <3>3. SortedSoFar(phase, order, Elements(layers))
                => SortedSoFar(phase, order, Elements(layers))'
        BY <2>1, <2>2, <3>1 DEF SortedSoFar, Elements, Before, After, Parent, Child
      <3> QED
        BY <2>1, <3>1, <3>2, <3>3 DEF GraphInv, VisitInv
    <2> QED
      BY <2>1, <2>2, <2>3, <2>4, <2>5 DEF GraphInv
  <1> QED
    BY <1>1, <1>2

\* The layers that are collected, sorted and counted are layers of the program.
THEOREM GraphTypeCorrect == GraphSpec => []GraphTypeOK
  <1>1. GraphInv => GraphTypeOK
    <2> SUFFICES ASSUME GraphInv PROVE GraphTypeOK
      OBVIOUS
    <2>1. ends.in \in Seq(Layer) /\ ends.out \in Seq(Layer)
      BY DEF GraphInv, WalkType
    <2> QED
      BY <2>1 DEF GraphInv, PhaseInv, WalkType, SortType, GraphTypeOK
  <1> QED
    BY <1>1, InitGraphInv, NextGraphInv, PTL DEF GraphSpec

\* Whatever layers a program creates, links and puts into models: fts() and bts()
\* of Net::make_graph() never give up with "error recurrent net", and their
\* results have every layer once and after all it depends on.
THEOREM SortsNeverFail == GraphSpec => []SortsAreTopological
  <1>1. GraphInv => SortsAreTopological
    BY DEF GraphInv, PhaseInv, NetsInv, SortedNet, SortsAreTopological, Sorting
  <1> QED
    BY <1>1, InitGraphInv, NextGraphInv, PTL DEF GraphSpec

-----------------------------------------------------------------------------
(* The calls of the program leave the nets as they were built.               *)

Called ==
    \/ \E n \in Net : ZeroCall(n) \/ ForwardChain(n) \/ Backward(n) \/ Optimize(n)
    \/ \E n \in Net, b \in arch.sizes : Forward(n, b) \/ EvalBatch(n, b)
    \/ \E n \in Net, fill \in Fill : Compute(n, fill)
    \/ \E n \in Net : \E l \in Elements(Model(n).feeds) : Detach(l)

LEMMA NextCases ==
    ASSUME Next
    PROVE  \/ Build \/ Called \/ \E fill \in Fill : SweepStep(fill)
           \/ \E n \in Net : Update(n)
           \/ \E n \in Net, b \in arch.sizes, fill \in Fill : TrainBatch(n, b, fill)
  BY DEF Next, Called

GraphKept == UNCHANGED <<arch, nets, twin, ends, stack, front, back, layers, count, order,
                         forward>>

LEMMA CalledKeeps == ASSUME Called PROVE UNCHANGED <<graphVars, paceVars>> /\ phase = "built"
  <1>1. ASSUME NEW n \in Net, ZeroCall(n) \/ ForwardChain(n) \/ Backward(n) \/ Optimize(n)
        PROVE  UNCHANGED <<graphVars, paceVars>> /\ phase = "built"
    BY <1>1 DEF ZeroCall, ForwardChain, Backward, Optimize, Feed, Call
  <1>2. ASSUME NEW n \in Net, NEW b \in arch.sizes, Forward(n, b) \/ EvalBatch(n, b)
        PROVE  UNCHANGED <<graphVars, paceVars>> /\ phase = "built"
    BY <1>2 DEF Forward, EvalBatch, Feed, Call
  <1>3. ASSUME NEW n \in Net, NEW fill \in Fill, Compute(n, fill)
        PROVE  UNCHANGED <<graphVars, paceVars>> /\ phase = "built"
    BY <1>3 DEF Compute, Feed, Call
  <1>4. ASSUME NEW l, Detach(l) PROVE UNCHANGED <<graphVars, paceVars>> /\ phase = "built"
    BY <1>4 DEF Detach, Call
  <1> QED
    BY <1>1, <1>2, <1>3, <1>4 DEF Called

LEMMA CallsKeepGraph ==
    ASSUME Next, ~ Build
    PROVE  GraphKept /\ phase = "built" /\ phase' \in {"built", "crashed"}
  <1>1. CASE Called
    BY <1>1, CalledKeeps DEF GraphKept, graphVars, buildVars, walkVars, sortVars
  <1>2. ASSUME NEW fill \in Fill, SweepStep(fill)
        PROVE  GraphKept /\ phase = "built" /\ phase' \in {"built", "crashed"}
    BY <1>2 DEF SweepStep, Sweep, GraphKept, walkVars, sortVars
  <1>3. ASSUME NEW n \in Net, Update(n)
        PROVE  GraphKept /\ phase = "built" /\ phase' \in {"built", "crashed"}
    BY <1>3 DEF Update, Call, GraphKept, walkVars, sortVars
  <1>4. ASSUME NEW n \in Net, NEW b \in arch.sizes, NEW fill \in Fill, TrainBatch(n, b, fill)
        PROVE  GraphKept /\ phase = "built" /\ phase' \in {"built", "crashed"}
    BY <1>4 DEF TrainBatch, TrainTooFew, TrainAll, Call, GraphKept, walkVars, sortVars
  <1> QED
    BY <1>1, <1>2, <1>3, <1>4, NextCases

\* What is true of the nets before and after a crash.
NetsKept == arch \in Architectures /\ NetsInv /\ WalkType /\ SortType

ProgramInv == IF phase = "crashed" THEN NetsKept ELSE GraphInv

LEMMA NextProgramInv == ProgramInv /\ [Next]_vars => ProgramInv'
  <1> SUFFICES ASSUME ProgramInv, [Next]_vars PROVE ProgramInv'
    OBVIOUS
  <1>1. NetsKept /\ (phase # "crashed" => GraphInv)
    BY DEF ProgramInv, NetsKept, GraphInv
  <1>2. ASSUME [GraphStep]_graphVars, phase # "crashed" PROVE ProgramInv'
    <2>1. GraphInv'
      BY <1>1, <1>2, NextGraphInv
    <2>2. phase' # "crashed"
      BY <2>1 DEF GraphInv, PhaseInv, Sorting
    <2> QED
      BY <2>1, <2>2 DEF ProgramInv
  <1>3. ASSUME GraphKept PROVE NetsKept'
    <2>1. UNCHANGED <<arch, nets, twin, ends, stack, front, back, layers, count, order,
                      forward>>
      BY <1>3 DEF GraphKept
    <2>2. NetsInv' /\ Layer' = Layer
      BY <1>1, <2>1, SameNets, SameArch DEF NetsKept
    <2> QED
      BY <1>1, <2>1, <2>2 DEF NetsKept, WalkType, SortType
  <1>4. CASE Build
    <2>1. GraphStep
      BY <1>4 DEF Build
    <2>2. phase # "crashed"
      BY <2>1 DEF GraphStep, StartModel, Walk, TurnBack, WalkBack, Collect, Visit, Resort,
                  SortedForward, Split, Built, Sorting
    <2> QED
      BY <1>2, <2>1, <2>2
  <1>5. CASE Next /\ ~ Build
    <2>1. GraphKept /\ phase = "built" /\ phase' \in {"built", "crashed"}
      BY <1>5, CallsKeepGraph
    <2>2. CASE phase' = "built"
      <3>1. UNCHANGED graphVars
        BY <2>1, <2>2 DEF GraphKept, graphVars, buildVars, walkVars, sortVars
      <3> QED
        BY <1>2, <2>1, <3>1
    <2>3. CASE phase' = "crashed"
      BY <1>3, <2>1, <2>3 DEF ProgramInv
    <2> QED
      BY <2>1, <2>2, <2>3
  <1>6. CASE UNCHANGED vars
    <2>1. UNCHANGED graphVars
      BY <1>6 DEF vars
    <2>2. GraphKept /\ phase' = phase
      BY <2>1 DEF GraphKept, graphVars, buildVars, walkVars, sortVars
    <2> QED
      BY <1>2, <1>3, <2>1, <2>2 DEF ProgramInv
  <1> QED
    BY <1>4, <1>5, <1>6

LEMMA SpecProgramInv == Spec => []ProgramInv
  <1>1. Init => ProgramInv
    <2> SUFFICES ASSUME Init PROVE ProgramInv
      OBVIOUS
    <2>1. GraphInv /\ phase = "model"
      BY InitGraphInv DEF Init, GraphInit
    <2> QED
      BY <2>1 DEF ProgramInv
  <1> QED
    BY <1>1, NextProgramInv, PTL DEF Spec

\* In a whole program, too, with its nets built one after the other and trained
\* with the calls of the API: nothing that comes after make_graph() changes a
\* net's sorts.
THEOREM SortsStayTopological == Spec => []SortsAreTopological
  <1>1. ProgramInv => SortsAreTopological
    BY DEF ProgramInv, NetsKept, GraphInv, PhaseInv, NetsInv, SortedNet, SortsAreTopological,
           Sorting
  <1> QED
    BY <1>1, SpecProgramInv, PTL

-----------------------------------------------------------------------------
(* Slices of a batch.                                                        *)

LEMMA Quotients ==
    ASSUME NEW x \in Nat, NEW q \in Nat \ {0}
    PROVE  /\ x \div q \in Nat /\ x % q \in 0 .. q - 1
           /\ x = q * (x \div q) + (x % q)
  OBVIOUS

LEMMA TimesIsMonotonic ==
    ASSUME NEW a \in Nat, NEW b \in Nat, NEW q \in Nat, a <= b
    PROVE  a * q \in Nat /\ a * q <= b * q
  <1>1. b - a \in Nat
    OBVIOUS
  <1>2. (b - a) * q \in Nat
    BY <1>1
  <1>3. b * q = a * q + (b - a) * q
    OBVIOUS
  <1>4. a * q \in Nat /\ b * q \in Nat
    OBVIOUS
  <1> QED
    BY <1>2, <1>3, <1>4

\* However the devices were used before, resize() and train_batch() together
\* give every sample of a batch to exactly one of them, and no device more than
\* the batch has, when there are no fewer samples than devices.
THEOREM EverySampleOnce ==
    ASSUME NEW old \in Seq(Nat), old # <<>>, NEW b \in Nat, Len(old) <= b
    PROVE  /\ \A d \in DOMAIN old : SliceOf(b, Slices(b, old), d) \subseteq 0 .. b - 1
           /\ \A x \in 0 .. b - 1 :
                  \E d \in DOMAIN old :
                      /\ x \in SliceOf(b, Slices(b, old), d)
                      /\ \A e \in DOMAIN old :
                             x \in SliceOf(b, Slices(b, old), e) => e = d
  <1> DEFINE c == Len(old)
             q == b \div c
             r == b % c
             sl == Slices(b, old)
             room(d) == q + (IF d = c THEN r ELSE 0)
             from(d) == (d - 1) * q
  <1>1. c \in Nat \ {0} /\ DOMAIN old = 1 .. c
    OBVIOUS
  <1>2. q \in Nat /\ r \in 0 .. c - 1 /\ b = c * q + r
    BY <1>1, Quotients
  <1>3. q # 0
    BY <1>1, <1>2
  <1>4. sl = [d \in 1 .. c |-> room(d)]
    BY <1>1 DEF Slices
  <1> HIDE DEF c, q, r, sl
  <1>5. /\ \A d \in 1 .. c : room(d) \in Nat
        /\ room(c) = q + r /\ \A d \in 1 .. c - 1 : room(d) = q
    BY <1>1, <1>2
  <1>6. Len(sl) = c /\ \A d \in 1 .. c : sl[d] = room(d)
    <2>1. DOMAIN sl = 1 .. c /\ \A d \in 1 .. c : sl[d] \in Nat
      BY <1>4, <1>5
    <2>2. sl \in [1 .. c -> Nat]
      BY <1>4, <2>1
    <2>3. sl \in Seq(Nat)
      BY <1>1, <2>2
    <2>4. 1 .. Len(sl) = 1 .. c /\ Len(sl) \in Nat
      BY <2>1, <2>3
    <2> QED
      BY <1>1, <1>4, <2>4
  <1>7. \A d \in 1 .. c : from(d) \in Nat /\ from(d) <= from(c)
    <2> SUFFICES ASSUME NEW d \in 1 .. c PROVE from(d) \in Nat /\ from(d) <= from(c)
      OBVIOUS
    <2>1. d - 1 \in Nat /\ c - 1 \in Nat /\ d - 1 <= c - 1
      BY <1>1
    <2> QED
      BY <1>2, <2>1, TimesIsMonotonic
  <1>8. b = from(c) + q + r
    <2>1. c * q = (c - 1) * q + q
      BY <1>1, <1>2
    <2> QED
      BY <1>2, <2>1
  <1>9. \A d, e \in 1 .. c : d < e => from(d) + q <= from(e)
    <2> SUFFICES ASSUME NEW d \in 1 .. c, NEW e \in 1 .. c, d < e
                 PROVE  from(d) + q <= from(e)
      OBVIOUS
    <2>1. from(d) + q = d * q
      BY <1>1, <1>2
    <2>2. d \in Nat /\ e - 1 \in Nat /\ d <= e - 1
      BY <1>1
    <2>3. d * q <= (e - 1) * q
      BY <1>2, <2>2, TimesIsMonotonic
    <2> QED
      BY <2>1, <2>3
  <1>10. \A k \in Nat : k + 1 \in 1 .. c => from(k + 1) = q * k
    <2> SUFFICES ASSUME NEW k \in Nat PROVE from(k + 1) = q * k
      OBVIOUS
    <2>1. (k + 1) - 1 = k
      OBVIOUS
    <2> QED
      BY <1>2, <2>1
  <1>11. \A d \in 1 .. c : SliceOf(b, sl, d) = from(d) .. from(d) + room(d) - 1
    BY <1>6 DEF SliceOf, q
  <1> HIDE DEF from, room
  <1>12. \A d \in 1 .. c : from(d) + room(d) <= b
    <2> SUFFICES ASSUME NEW d \in 1 .. c PROVE from(d) + room(d) <= b
      OBVIOUS
    <2>1. CASE d = c
      BY <1>2, <1>5, <1>7, <1>8, <2>1
    <2>2. CASE d # c
      <3>1. d \in 1 .. c - 1 /\ c \in 1 .. c /\ d < c
        BY <1>1, <2>2
      <3>2. room(d) = q
        BY <1>5, <3>1
      <3>3. from(d) \in Nat /\ from(c) \in Nat /\ from(d) + q <= from(c)
        BY <1>7, <1>9, <3>1
      <3>4. r \in Nat
        BY <1>1, <1>2
      <3>5. from(d) + q <= from(c) + q + r
        BY <1>2, <3>3, <3>4
      <3> QED
        BY <1>8, <3>2, <3>5
    <2> QED
      BY <2>1, <2>2
  <1>13. \A d \in 1 .. c : SliceOf(b, sl, d) \subseteq 0 .. b - 1
    BY <1>5, <1>7, <1>11, <1>12
  <1>14. ASSUME NEW x \in 0 .. b - 1 PROVE \E d \in 1 .. c : x \in SliceOf(b, sl, d)
    <2>1. CASE x >= from(c)
      <3>1. c \in 1 .. c /\ from(c) + room(c) = b /\ from(c) \in Nat /\ room(c) \in Nat
        BY <1>1, <1>2, <1>5, <1>7, <1>8
      <3>2. x \in from(c) .. from(c) + room(c) - 1
        BY <2>1, <3>1
      <3> QED
        BY <1>11, <3>1, <3>2
    <2>2. CASE x < from(c)
      <3>0. x \in Nat
        OBVIOUS
      <3>1. PICK k \in Nat, m \in 0 .. q - 1 : x = q * k + m
        BY <1>2, <1>3, <3>0, Quotients
      <3>2. q * k \in Nat /\ q * k <= x /\ x < q * k + q
        BY <1>2, <3>1
      <3>3. k + 1 \in 1 .. c /\ k + 1 # c
        <4>1. SUFFICES ASSUME c <= k + 1 PROVE FALSE
          BY <1>1
        <4>2. c - 1 \in Nat /\ c - 1 <= k /\ c \in 1 .. c /\ (c - 1) + 1 = c
          BY <1>1, <4>1
        <4>3. (c - 1) * q <= k * q
          BY <1>2, <4>2, TimesIsMonotonic
        <4>4. (c - 1) * q = q * (c - 1) /\ k * q = q * k
          BY <1>2, <4>2
        <4>5. from(c) = q * (c - 1)
          BY <1>10, <4>2
        <4>6. from(c) <= q * k
          BY <4>3, <4>4, <4>5
        <4>7. from(c) \in Nat
          BY <1>7, <4>2
        <4> QED
          BY <2>2, <3>0, <3>2, <4>6, <4>7
      <3>4. from(k + 1) = q * k /\ room(k + 1) = q
        BY <1>1, <1>5, <1>10, <3>3
      <3>5. x \in from(k + 1) .. from(k + 1) + room(k + 1) - 1
        BY <1>2, <3>0, <3>2, <3>4
      <3> QED
        BY <1>11, <3>3, <3>5
    <2>3. from(c) \in Nat
      BY <1>1, <1>7
    <2> QED
      BY <2>1, <2>2, <2>3
  <1>15. ASSUME NEW x \in 0 .. b - 1, NEW d \in 1 .. c, NEW e \in 1 .. c, d < e,
                x \in SliceOf(b, sl, d), x \in SliceOf(b, sl, e)
         PROVE  FALSE
    <2>1. d \in 1 .. c - 1
      BY <1>1, <1>15
    <2>2. from(d) \in Nat /\ from(e) \in Nat /\ room(d) = q /\ from(d) + q <= from(e)
      BY <1>5, <1>7, <1>9, <1>15, <2>1
    <2>3. x \in from(d) .. from(d) + room(d) - 1
      BY <1>11, <1>15
    <2>4. x \in from(e) .. from(e) + room(e) - 1
      BY <1>11, <1>15
    <2>5. room(e) \in Nat
      BY <1>5
    <2>6. x < from(d) + q
      BY <1>2, <2>2, <2>3
    <2>7. x >= from(e)
      BY <2>2, <2>4, <2>5
    <2> QED
      BY <1>2, <2>2, <2>6, <2>7
  <1>16. ASSUME NEW x \in 0 .. b - 1, NEW d \in 1 .. c, NEW e \in 1 .. c,
                x \in SliceOf(b, sl, d), x \in SliceOf(b, sl, e)
         PROVE  e = d
    <2>1. d < e \/ e < d \/ e = d
      BY <1>1
    <2> QED
      BY <1>15, <1>16, <2>1
  <1> QED
    BY <1>1, <1>13, <1>14, <1>16 DEF sl

-----------------------------------------------------------------------------
(* How far the weights of a net's devices are apart.                         *)

\* There is never a net without a model.
CountInv ==
    /\ Len(nets) <= Len(arch.models)
    /\ phase \in {"walk", "walk_back"} \cup Sorting => Len(nets) < Len(arch.models)

LEMMA NextCountInv == ProgramInv /\ CountInv /\ [Next]_vars => CountInv'
  <1> SUFFICES ASSUME ProgramInv, CountInv, [Next]_vars PROVE CountInv'
    OBVIOUS
  <1>1. /\ nets \in Seq([host : BuiltNet, device : BuiltNet])
        /\ Len(nets) \in Nat /\ Len(arch.models) \in Nat
    <2>1. arch \in Architectures /\ nets \in Seq([host : BuiltNet, device : BuiltNet])
      BY DEF ProgramInv, NetsKept, GraphInv, NetsInv
    <2> QED
      BY <2>1, ArchitectureAssumption
  <1>2. CASE Build
    <2>1. GraphStep
      BY <1>2 DEF Build
    <2>2. CASE StartModel
      BY <2>2 DEF StartModel, CountInv
    <2>3. CASE Walk \/ TurnBack \/ WalkBack \/ Collect
      BY <2>3 DEF Walk, TurnBack, WalkBack, Collect, BeginSort, CountInv
    <2>4. CASE Visit \/ Resort \/ SortedForward
      BY <2>4 DEF Visit, Resort, SortedForward, BeginSort, CountInv, Sorting
    <2>5. CASE Split
      BY <2>5 DEF Split, CountInv, Sorting
    <2>6. CASE Built
      <3>1. /\ phase = "bts" /\ arch' = arch
            /\ \E x : nets' = Append(nets, x)
            /\ phase' \in {"built", "model"}
        BY <2>6 DEF Built
      <3>2. Len(nets') = Len(nets) + 1
        BY <1>1, <3>1
      <3>3. Len(nets) < Len(arch.models)
        BY <3>1 DEF CountInv, Sorting
      <3> QED
        BY <1>1, <3>1, <3>2, <3>3 DEF CountInv, Sorting
    <2> QED
      BY <2>1, <2>2, <2>3, <2>4, <2>5, <2>6 DEF GraphStep
  <1>3. CASE Next /\ ~ Build
    <2>1. GraphKept /\ phase' \in {"built", "crashed"}
      BY <1>3, CallsKeepGraph
    <2> QED
      BY <2>1 DEF GraphKept, CountInv, Sorting
  <1>4. CASE UNCHANGED vars
    BY <1>4 DEF vars, graphVars, buildVars, CountInv
  <1> QED
    BY <1>2, <1>3, <1>4

LEMMA Remainders ==
    ASSUME NEW x \in Nat, NEW b \in Nat, b # 0
    PROVE  /\ x % b \in 0 .. b - 1
           /\ (x + 1) % b = IF x % b = b - 1 THEN 0 ELSE (x % b) + 1
  <1> DEFINE q == x \div b
             r == x % b
  <1>1. q \in Nat /\ r \in 0 .. b - 1 /\ x = b * q + r
    BY Quotients
  <1> HIDE DEF q, r
  <1>2. CASE r = b - 1
    <2>1. x + 1 = b * (q + 1) + 0
      BY <1>1, <1>2
    <2>2. (x + 1) % b = 0
      BY <1>1, <2>1
    <2> QED
      BY <1>1, <1>2, <2>2 DEF r
  <1>3. CASE r # b - 1
    <2>1. x + 1 = b * q + (r + 1) /\ r + 1 \in 0 .. b - 1
      BY <1>1, <1>3
    <2>2. (x + 1) % b = r + 1
      BY <1>1, <2>1
    <2> QED
      BY <1>1, <1>3, <2>2 DEF r
  <1> QED
    BY <1>2, <1>3

Pace == {"new", "train", "swept", "updated", "loose"}

\* How tr_batches and the updates since the last average go together in a net
\* that is trained regularly.
PaceFits(p, t, d) ==
    /\ p = "new" => t = 0 /\ d = 0
    /\ p = "train" => arch.lsb # 0 /\ d = t % arch.lsb
    /\ arch.lsb > 1 /\ p = "updated" => t # 0 /\ d = (t - 1) % arch.lsb
    /\ arch.lsb > 1 /\ p = "swept" => t # 0 /\ d = IF t = 1 THEN 0 ELSE (t - 2) % arch.lsb

PaceType == /\ tr \in [DOMAIN arch.models -> Nat] /\ drift \in [DOMAIN arch.models -> Nat]
            /\ pace \in [DOMAIN arch.models -> Pace]

PaceInv ==
    /\ PaceType
    /\ phase # "crashed" /\ arch.devices > 1 =>
           \A n \in DOMAIN arch.models : PaceFits(pace[n], tr[n], drift[n])

\* train_batch() of a net.
LEMMA PaceOfTraining ==
    ASSUME NEW t \in Nat, NEW d \in Nat, NEW p \in {"new", "train"}, arch.lsb \in Nat,
           arch.lsb # 0, PaceFits(p, t, d)
    PROVE  PaceFits("train", t + 1, IF (t + 1) % arch.lsb = 0 THEN 0 ELSE d + 1)
  <1>1. d = t % arch.lsb
    <2>1. CASE p = "new"
      <3>1. 0 % arch.lsb = 0
        BY Quotients
      <3> QED
        BY <2>1, <3>1 DEF PaceFits
    <2>2. CASE p = "train"
      BY <2>2 DEF PaceFits
    <2> QED
      BY <2>1, <2>2
  <1>2. /\ t % arch.lsb \in 0 .. arch.lsb - 1
        /\ (t + 1) % arch.lsb = IF t % arch.lsb = arch.lsb - 1 THEN 0 ELSE (t % arch.lsb) + 1
    BY Remainders
  <1> QED
    BY <1>1, <1>2 DEF PaceFits

\* backward() of a net.
LEMMA PaceOfSweep ==
    ASSUME NEW t \in Nat, NEW d \in Nat, NEW p \in {"new", "updated"}, arch.lsb \in Nat,
           PaceFits(p, t, d)
    PROVE  PaceFits("swept", t + 1, d)
  <1>1. CASE p = "new"
    BY <1>1 DEF PaceFits
  <1>2. CASE p = "updated"
    <2>1. (t + 1) - 2 = t - 1
      OBVIOUS
    <2>2. arch.lsb > 1 => t # 0 /\ d = (t - 1) % arch.lsb
      BY <1>2 DEF PaceFits
    <2>3. arch.lsb > 1 /\ t = 1 => d = 0
      <3> SUFFICES ASSUME arch.lsb > 1, t = 1 PROVE d = 0
        OBVIOUS
      <3>1. d = 0 % arch.lsb
        BY <2>2
      <3> QED
        BY <3>1, Quotients
    <2> QED
      BY <2>1, <2>2, <2>3 DEF PaceFits
  <1> QED
    BY <1>1, <1>2

\* update() of a net.
LEMMA PaceOfUpdate ==
    ASSUME NEW t \in Nat, NEW d \in Nat, arch.lsb \in Nat, PaceFits("swept", t, d)
    PROVE  PaceFits("updated", t, IF t % arch.lsb = 1 THEN 0 ELSE d + 1)
  <1> SUFFICES ASSUME arch.lsb > 1
               PROVE  t # 0 /\ (IF t % arch.lsb = 1 THEN 0 ELSE d + 1) = (t - 1) % arch.lsb
    BY DEF PaceFits
  <1> DEFINE b == arch.lsb
  <1>0. b \in Nat /\ b > 1 /\ t # 0 /\ d = IF t = 1 THEN 0 ELSE (t - 2) % b
    BY DEF PaceFits
  <1>1. SUFFICES (IF t % b = 1 THEN 0 ELSE d + 1) = (t - 1) % b
    BY <1>0
  <1> HIDE DEF b
  <1>2. PICK u \in Nat : t = u + 1 /\ t - 1 = u
    <2>1. t - 1 \in Nat /\ t = (t - 1) + 1
      BY <1>0
    <2> QED
      BY <2>1
  <1>3. /\ u % b \in 0 .. b - 1
        /\ t % b = IF u % b = b - 1 THEN 0 ELSE (u % b) + 1
    <2>1. b # 0 /\ (u + 1) % b = t % b
      BY <1>0, <1>2
    <2>2. (u + 1) % b = IF u % b = b - 1 THEN 0 ELSE (u % b) + 1
      BY <1>0, <2>1, Remainders
    <2> QED
      BY <1>0, <2>1, <2>2, Remainders
  <1>4. t % b = 1 <=> u % b = 0
    BY <1>0, <1>3
  <1>5. CASE u = 0
    <2>1. 0 % b = 0
      BY <1>0, Quotients
    <2> QED
      BY <1>2, <1>4, <1>5, <2>1
  <1>6. CASE u # 0
    <2>1. PICK v \in Nat : u = v + 1 /\ t - 2 = v
      <3>1. u - 1 \in Nat /\ u = (u - 1) + 1 /\ t - 2 = u - 1
        BY <1>2, <1>6
      <3> QED
        BY <3>1
    <2>2. d = v % b
      BY <1>0, <1>2, <1>6, <2>1
    <2>3. /\ v % b \in 0 .. b - 1
          /\ u % b = IF v % b = b - 1 THEN 0 ELSE (v % b) + 1
      <3>1. b # 0 /\ (v + 1) % b = u % b
        BY <1>0, <2>1
      <3>2. (v + 1) % b = IF v % b = b - 1 THEN 0 ELSE (v % b) + 1
        BY <1>0, <3>1, Remainders
      <3> QED
        BY <1>0, <3>1, <3>2, Remainders
    <2> QED
      BY <1>0, <1>2, <1>4, <2>2, <2>3
  <1> QED
    BY <1>5, <1>6

LEMMA NextPaceInv == ProgramInv /\ PaceInv /\ [Next]_vars => PaceInv'
  <1> SUFFICES ASSUME ProgramInv, PaceInv, [Next]_vars PROVE PaceInv'
    OBVIOUS
  <1> DEFINE D == DOMAIN arch.models
  <1>1. /\ arch.lsb \in Nat
        /\ tr \in [D -> Nat] /\ drift \in [D -> Nat] /\ pace \in [D -> Pace]
    <2>1. arch \in Architectures
      BY DEF ProgramInv, NetsKept, GraphInv
    <2> QED
      BY <2>1, TrainingAssumption DEF PaceInv, PaceType
  <1>2. ASSUME phase # "crashed", arch.devices > 1, NEW n \in D
        PROVE  PaceFits(pace[n], tr[n], drift[n])
    BY <1>2 DEF PaceInv
  <1>3. ASSUME UNCHANGED <<arch, tr, drift, pace>>, phase' # "crashed" => phase # "crashed"
        PROVE  PaceInv'
    BY <1>3 DEF PaceInv, PaceType, PaceFits
  <1>4. CASE Build
    <2>1. arch' = arch /\ UNCHANGED <<tr, drift, pace>>
      BY <1>4 DEF Build, paceVars, GraphStep, StartModel, Walk, TurnBack, WalkBack, Collect,
                  Visit, Resort, SortedForward, Split, Built
    <2>2. phase # "crashed"
      BY <1>4 DEF Build, GraphStep, StartModel, Walk, TurnBack, WalkBack, Collect, Visit,
                  Resort, SortedForward, Split, Built, Sorting
    <2> QED
      BY <1>3, <2>1, <2>2
  <1>5. CASE Called
    <2>1. arch' = arch /\ UNCHANGED <<tr, drift, pace>> /\ phase = "built"
      BY <1>5, CalledKeeps DEF graphVars, paceVars
    <2> QED
      BY <1>3, <2>1
  <1>6. CASE UNCHANGED vars
    BY <1>3, <1>6 DEF vars, graphVars, buildVars, paceVars
  \* A step that changes one net's pace, from p and t and d.
  <1>7. ASSUME NEW n, arch' = arch, phase # "crashed",
               NEW q \in Pace, NEW t \in Nat, NEW d \in Nat,
               pace' = [pace EXCEPT ![n] = q], tr' = [tr EXCEPT ![n] = t],
               drift' = [drift EXCEPT ![n] = d],
               phase' # "crashed" /\ arch.devices > 1 /\ n \in D => PaceFits(q, t, d)
        PROVE  PaceInv'
    <2>1. PaceType'
      BY <1>1, <1>7 DEF PaceType
    <2>2. ASSUME phase' # "crashed", arch.devices > 1, NEW m \in D
          PROVE  PaceFits(pace'[m], tr'[m], drift'[m])
      <3>1. CASE m = n
        BY <1>1, <1>7, <2>2, <3>1
      <3>2. CASE m # n
        BY <1>1, <1>2, <1>7, <2>2, <3>2
      <3> QED
        BY <3>1, <3>2
    <2>3. \A p, t1, d1 : PaceFits(p, t1, d1)' <=> PaceFits(p, t1, d1)
      BY <1>7 DEF PaceFits
    <2> QED
      BY <1>7, <2>1, <2>2, <2>3 DEF PaceInv, PaceFits
  <1>8. ASSUME NEW n, n \notin D, arch' = arch, phase # "crashed", NEW q, NEW t, NEW d,
               pace' = [pace EXCEPT ![n] = q], tr' = [tr EXCEPT ![n] = t],
               drift' = [drift EXCEPT ![n] = d]
        PROVE  PaceInv'
    <2>1. pace' = pace /\ tr' = tr /\ drift' = drift
      BY <1>1, <1>8
    <2> QED
      BY <1>3, <1>8, <2>1
  <1> HIDE DEF D
  <1>9. ASSUME NEW fill \in Fill, SweepStep(fill) PROVE PaceInv'
    <2>1. PICK n : /\ tr' = [tr EXCEPT ![n] = @ + 1] /\ Paced(n, {"new", "updated"}, "swept")
                   /\ arch' = arch /\ phase = "built" /\ drift' = drift
      BY <1>9 DEF SweepStep
    <2>2. pace' = [pace EXCEPT ![n] = IF @ \in {"new", "updated"} THEN "swept" ELSE "loose"]
      BY <2>1 DEF Paced
    <2>3. drift' = [drift EXCEPT ![n] = drift[n]]
      BY <1>1, <2>1
    <2>4. CASE n \notin D
      BY <1>8, <2>1, <2>2, <2>3, <2>4
    <2>5. CASE n \in D
      <3>1. PICK t \in Nat : t = tr[n]
        BY <1>1, <2>5
      <3>2. PICK d \in Nat : d = drift[n]
        BY <1>1, <2>5
      <3>3. PICK q \in Pace : q = IF pace[n] \in {"new", "updated"} THEN "swept" ELSE "loose"
        BY DEF Pace
      <3>4. phase' # "crashed" /\ arch.devices > 1 => PaceFits(q, t + 1, d)
        <4>1. CASE pace[n] \in {"new", "updated"}
          <5>1. arch.devices > 1 => PaceFits(pace[n], t, d)
            BY <1>2, <2>1, <2>5, <3>1, <3>2
          <5> QED
            BY <1>1, <3>3, <4>1, <5>1, PaceOfSweep
        <4>2. CASE pace[n] \notin {"new", "updated"}
          BY <3>3, <4>2 DEF PaceFits
        <4> QED
          BY <4>1, <4>2
      <3>5. /\ pace' = [pace EXCEPT ![n] = q] /\ tr' = [tr EXCEPT ![n] = t + 1]
            /\ drift' = [drift EXCEPT ![n] = d]
        BY <2>1, <2>2, <2>3, <3>1, <3>2, <3>3
      <3>6. t + 1 \in Nat
        OBVIOUS
      <3> QED
        BY <1>7, <2>1, <3>4, <3>5, <3>6
    <2> QED
      BY <2>4, <2>5
  <1>10. ASSUME NEW n \in Net, Update(n) PROVE PaceInv'
    <2>0. /\ arch' = arch /\ phase = "built" /\ tr' = tr
          /\ \/ Apply(n, FALSE) /\ Paced(n, {}, "loose")
             \/ /\ Apply(n, SyncAfterUpdate(tr[n])) /\ Paced(n, {"swept"}, "updated")
                /\ phase' = IF NoRemainder THEN "crashed" ELSE phase
      BY <1>10 DEF Update, Call
    <2>1. tr' = [tr EXCEPT ![n] = tr[n]]
      BY <1>1, <2>0
    <2>2. \E e : drift' = [drift EXCEPT ![n] = e]
      BY <2>0 DEF Apply
    <2>3. \E e : pace' = [pace EXCEPT ![n] = e]
      BY <2>0 DEF Paced
    <2>4. CASE n \notin D
      BY <1>8, <2>0, <2>1, <2>2, <2>3, <2>4
    <2>5. CASE n \in D
      <3>1. PICK t \in Nat : t = tr[n]
        BY <1>1, <2>5
      <3>2. PICK d \in Nat : d = drift[n]
        BY <1>1, <2>5
      <3>3. PICK e \in Nat : drift' = [drift EXCEPT ![n] = e]
        <4>1. d + 1 \in Nat /\ 0 \in Nat
          OBVIOUS
        <4> QED
          BY <2>0, <3>2, <4>1 DEF Apply
      <3>4. CASE Paced(n, {}, "loose")
        <4>1. pace' = [pace EXCEPT ![n] = "loose"] /\ "loose" \in Pace
          BY <3>4 DEF Paced, Pace
        <4>2. PaceFits("loose", t, e)
          BY DEF PaceFits
        <4>3. tr' = [tr EXCEPT ![n] = t]
          BY <2>1, <3>1
        <4> QED
          BY <1>7, <2>0, <3>3, <4>1, <4>2, <4>3
      <3>5. CASE ~ Paced(n, {}, "loose")
        <4>0. /\ Apply(n, SyncAfterUpdate(tr[n])) /\ Paced(n, {"swept"}, "updated")
              /\ phase' = IF NoRemainder THEN "crashed" ELSE phase
          BY <2>0, <3>5
        <4>1. PICK q \in Pace : /\ pace' = [pace EXCEPT ![n] = q]
                                /\ q = IF pace[n] = "swept" THEN "updated" ELSE "loose"
          BY <4>0 DEF Paced, Pace
        <4>2. phase' # "crashed" /\ arch.devices > 1 => PaceFits(q, t, e)
          <5>1. CASE pace[n] = "swept"
            <6> SUFFICES ASSUME phase' # "crashed", arch.devices > 1 PROVE PaceFits(q, t, e)
              OBVIOUS
            <6>1. ~ NoRemainder /\ arch.devices # 1
              BY <2>0, <4>0
            <6>2. drift' = [drift EXCEPT ![n] = IF t % arch.lsb = 1 THEN 0 ELSE d + 1]
              BY <3>1, <3>2, <4>0, <6>1 DEF Apply, SyncAfterUpdate
            <6>3. e = IF t % arch.lsb = 1 THEN 0 ELSE d + 1
              BY <1>1, <2>5, <3>3, <6>2
            <6>4. PaceFits("swept", t, d)
              BY <1>2, <2>0, <2>5, <3>1, <3>2, <5>1
            <6> QED
              BY <1>1, <4>1, <5>1, <6>3, <6>4, PaceOfUpdate
          <5>2. CASE pace[n] # "swept"
            BY <4>1, <5>2 DEF PaceFits
          <5> QED
            BY <5>1, <5>2
        <4>3. tr' = [tr EXCEPT ![n] = t]
          BY <2>1, <3>1
        <4> QED
          BY <1>7, <2>0, <3>3, <4>1, <4>2, <4>3
      <3> QED
        BY <3>4, <3>5
    <2> QED
      BY <2>4, <2>5
  <1>11. ASSUME NEW n \in Net, NEW b \in arch.sizes, NEW fill \in Fill,
                TrainBatch(n, b, fill)
         PROVE  PaceInv'
    <2>0. /\ arch' = arch /\ phase = "built" /\ tr' = [tr EXCEPT ![n] = @ + 1]
          /\ \/ drift' = drift /\ Paced(n, {}, "loose")
             \/ /\ Apply(n, SyncAfterTrain(tr[n] + 1)) /\ Paced(n, {"new", "train"}, "train")
                /\ NoRemainder => phase' = "crashed"
      BY <1>11 DEF TrainBatch, TrainTooFew, TrainAll, Call
    <2>1. \E e : drift' = [drift EXCEPT ![n] = e]
      <3>1. drift = [drift EXCEPT ![n] = drift[n]]
        BY <1>1
      <3> QED
        BY <2>0, <3>1 DEF Apply
    <2>2. \E e : pace' = [pace EXCEPT ![n] = e]
      BY <2>0 DEF Paced
    <2>3. \E e : tr' = [tr EXCEPT ![n] = e]
      BY <2>0
    <2>4. CASE n \notin D
      BY <1>8, <2>0, <2>1, <2>2, <2>3, <2>4
    <2>5. CASE n \in D
      <3>1. PICK t \in Nat : t = tr[n]
        BY <1>1, <2>5
      <3>2. PICK d \in Nat : d = drift[n]
        BY <1>1, <2>5
      <3>3. PICK e \in Nat : drift' = [drift EXCEPT ![n] = e]
        <4>1. d + 1 \in Nat /\ 0 \in Nat /\ drift = [drift EXCEPT ![n] = d]
          BY <1>1, <3>2
        <4> QED
          BY <2>0, <3>2, <4>1 DEF Apply
      <3>4. t + 1 \in Nat /\ tr' = [tr EXCEPT ![n] = t + 1]
        BY <2>0, <3>1
      <3>5. CASE Paced(n, {}, "loose")
        <4>1. pace' = [pace EXCEPT ![n] = "loose"] /\ "loose" \in Pace
          BY <3>5 DEF Paced, Pace
        <4>2. PaceFits("loose", t + 1, e)
          BY DEF PaceFits
        <4> QED
          BY <1>7, <2>0, <3>3, <3>4, <4>1, <4>2
      <3>6. CASE ~ Paced(n, {}, "loose")
        <4>0. /\ Apply(n, SyncAfterTrain(tr[n] + 1)) /\ Paced(n, {"new", "train"}, "train")
              /\ NoRemainder => phase' = "crashed"
          BY <2>0, <3>6
        <4>1. PICK q \in Pace : /\ pace' = [pace EXCEPT ![n] = q]
                                /\ q = IF pace[n] \in {"new", "train"} THEN "train" ELSE "loose"
          BY <4>0 DEF Paced, Pace
        <4>2. phase' # "crashed" /\ arch.devices > 1 => PaceFits(q, t + 1, e)
          <5>1. CASE pace[n] \in {"new", "train"}
            <6> SUFFICES ASSUME phase' # "crashed", arch.devices > 1
                         PROVE  PaceFits(q, t + 1, e)
              OBVIOUS
            <6>1. ~ NoRemainder /\ arch.devices # 1 /\ arch.lsb # 0
              BY <4>0 DEF NoRemainder
            <6>2. drift' = [drift EXCEPT ![n] = IF (t + 1) % arch.lsb = 0 THEN 0 ELSE d + 1]
              BY <3>1, <3>2, <4>0, <6>1 DEF Apply, SyncAfterTrain
            <6>3. e = IF (t + 1) % arch.lsb = 0 THEN 0 ELSE d + 1
              BY <1>1, <2>5, <3>3, <6>2
            <6>4. PaceFits(pace[n], t, d)
              BY <1>2, <2>0, <2>5, <3>1, <3>2
            <6> QED
              BY <1>1, <4>1, <5>1, <6>1, <6>3, <6>4, PaceOfTraining
          <5>2. CASE pace[n] \notin {"new", "train"}
            BY <4>1, <5>2 DEF PaceFits
          <5> QED
            BY <5>1, <5>2
        <4> QED
          BY <1>7, <2>0, <3>3, <3>4, <4>1, <4>2
      <3> QED
        BY <3>5, <3>6
    <2> QED
      BY <2>4, <2>5
  <1> QED
    BY <1>4, <1>5, <1>6, <1>9, <1>10, <1>11, NextCases

LEMMA SpecPaceInv == Spec => [](ProgramInv /\ CountInv /\ PaceInv)
  <1>1. Init => CountInv /\ PaceInv
    <2> SUFFICES ASSUME Init PROVE CountInv /\ PaceInv
      OBVIOUS
    <2>1. arch \in Architectures /\ nets = <<>> /\ phase = "model"
      BY DEF Init, GraphInit
    <2>2. Len(arch.models) \in Nat
      BY <2>1, ArchitectureAssumption
    <2>3. CountInv
      BY <2>1, <2>2 DEF CountInv, Sorting
    <2>4. PaceType
      BY DEF Init, PaceType, Pace
    <2>5. \A n \in DOMAIN arch.models : PaceFits(pace[n], tr[n], drift[n])
      BY DEF Init, PaceFits
    <2> QED
      BY <2>3, <2>4, <2>5 DEF PaceInv
  <1> QED
    BY <1>1, SpecProgramInv, NextCountInv, NextPaceInv, PTL DEF Spec

\* However a program trains its nets on several devices: one that is trained
\* regularly, with train_batch() or with one backward() before each update(),
\* never makes lsb updates without sync_weights(); for update() lsb has to be
\* at least 2.
THEOREM DevicesAlwaysClose == Spec => []DevicesStayClose
  <1>1. ProgramInv /\ CountInv /\ PaceInv => DevicesStayClose
    <2> SUFFICES ASSUME ProgramInv, CountInv, PaceInv, phase = "built", arch.devices > 1,
                        NEW n \in Net,
                        pace[n] = "train" \/ (pace[n] \in {"swept", "updated"} /\ arch.lsb > 1)
                 PROVE  drift[n] < arch.lsb
      BY DEF DevicesStayClose
    <2>1. /\ arch \in Architectures /\ arch.lsb \in Nat
          /\ nets \in Seq([host : BuiltNet, device : BuiltNet])
          /\ Len(arch.models) \in Nat /\ DOMAIN arch.models = 1 .. Len(arch.models)
      <3>1. arch \in Architectures /\ nets \in Seq([host : BuiltNet, device : BuiltNet])
        BY DEF ProgramInv, GraphInv, NetsInv
      <3> QED
        BY <3>1, ArchitectureAssumption, TrainingAssumption
    <2>2. n \in DOMAIN arch.models
      BY <2>1 DEF Net, CountInv
    <2>3. PICK t \in Nat : t = tr[n]
      BY <2>2 DEF PaceInv, PaceType
    <2>4. PICK d \in Nat : d = drift[n]
      BY <2>2 DEF PaceInv, PaceType
    <2>5. PaceFits(pace[n], t, d)
      BY <2>2, <2>3, <2>4 DEF PaceInv
    <2>6. CASE pace[n] = "train"
      <3>1. d = t % arch.lsb /\ arch.lsb # 0
        BY <2>5, <2>6 DEF PaceFits
      <3>2. t % arch.lsb \in 0 .. arch.lsb - 1
        BY <2>1, <3>1, Remainders
      <3> QED
        BY <2>1, <2>4, <3>1, <3>2
    <2>7. CASE pace[n] = "updated" /\ arch.lsb > 1
      <3>1. t # 0 /\ d = (t - 1) % arch.lsb /\ t - 1 \in Nat
        BY <2>5, <2>7 DEF PaceFits
      <3> QED
        BY <2>1, <2>4, <2>7, <3>1, Remainders
    <2>8. CASE pace[n] = "swept" /\ arch.lsb > 1
      <3>1. t # 0 /\ d = IF t = 1 THEN 0 ELSE (t - 2) % arch.lsb
        BY <2>5, <2>8 DEF PaceFits
      <3>2. CASE t = 1
        BY <2>1, <2>4, <2>8, <3>1, <3>2
      <3>3. CASE t # 1
        <4>1. t - 2 \in Nat
          BY <3>1, <3>3
        <4> QED
          BY <2>1, <2>4, <2>8, <3>1, <3>3, <4>1, Remainders
      <3> QED
        BY <3>2, <3>3
    <2> QED
      BY <2>6, <2>7, <2>8
  <1> QED
    BY <1>1, SpecPaceInv, PTL

-----------------------------------------------------------------------------
(* What Kept() keeps.                                                        *)

\* g[i] is what is kept of the first i elements.
Keeping(g, s, S, T) ==
    /\ Kept(s, S) = g[Len(s)] /\ g[0] = <<>>
    /\ \A i \in 1 .. Len(s) : g[i] = IF s[i] \in S THEN Append(g[i - 1], s[i]) ELSE g[i - 1]
    /\ \A i \in 0 .. Len(s) : g[i] \in Seq(T)

LEMMA KeptSteps ==
    ASSUME NEW T, NEW s \in Seq(T), NEW S
    PROVE  \E g : Keeping(g, s, S, T)
  <1> DEFINE g == CHOOSE f : Keeps(f, s, S, Len(s))
  <1>1. Kept(s, S) = g[Len(s)]
    BY DEF Kept, Keeps, KeptStep
  <1>2. Keeps(g, s, S, Len(s))
    BY KeepsExists
  <1> HIDE DEF g
  <1>3. \A i \in 0 .. Len(s) : g[i] = KeptStep(g, s, S, i)
    <2>1. g = [i \in 0 .. Len(s) |-> KeptStep(g, s, S, i)]
      BY <1>2 DEF Keeps
    <2> QED
      BY <2>1
  <1>4. g[0] = <<>>
    BY <1>3 DEF KeptStep
  <1>5. \A i \in 1 .. Len(s) : g[i] = IF s[i] \in S THEN Append(g[i - 1], s[i]) ELSE g[i - 1]
    BY <1>3 DEF KeptStep
  <1> DEFINE Bad == {k \in 0 .. Len(s) : g[k] \notin Seq(T)}
  <1>6. Bad = {}
    <2>1. SUFFICES ASSUME Bad # {} PROVE FALSE
      OBVIOUS
    <2>2. PICK k \in Bad : \A m \in Bad : k <= m
      <3>1. Bad \in SUBSET Nat
        OBVIOUS
      <3> HIDE DEF Bad
      <3> QED
        BY <2>1, <3>1, LeastOfNaturals
    <2>3. k # 0
      <3>1. <<>> \in Seq(T)
        OBVIOUS
      <3> QED
        BY <1>4, <3>1
    <2>4. k \in 1 .. Len(s) /\ k - 1 \in 0 .. Len(s) /\ k - 1 \notin Bad
      BY <2>2, <2>3
    <2>5. g[k - 1] \in Seq(T) /\ s[k] \in T
      BY <2>4
    <2>6. Append(g[k - 1], s[k]) \in Seq(T)
      BY <2>5
    <2> QED
      BY <1>5, <2>4, <2>5, <2>6
  <1> QED
    BY <1>1, <1>4, <1>5, <1>6 DEF Keeping

LEMMA KeptElements ==
    ASSUME NEW T, NEW s \in Seq(T), NEW S
    PROVE  Elements(Kept(s, S)) = Elements(s) \cap S
  <1>1. PICK g : Keeping(g, s, S, T)
    BY KeptSteps
  <1> DEFINE first(k) == {s[i] : i \in 1 .. k} \cap S
             Bad == {k \in 0 .. Len(s) : Elements(g[k]) # first(k)}
  <1>2. Bad = {}
    <2>1. SUFFICES ASSUME Bad # {} PROVE FALSE
      OBVIOUS
    <2>2. PICK k \in Bad : \A m \in Bad : k <= m
      <3>1. Bad \in SUBSET Nat
        OBVIOUS
      <3> HIDE DEF Bad
      <3> QED
        BY <2>1, <3>1, LeastOfNaturals
    <2>3. k # 0
      <3>1. Elements(<<>>) = {} /\ first(0) = {}
        BY DEF Elements
      <3> QED
        BY <1>1, <3>1 DEF Keeping
    <2>4. k \in 1 .. Len(s) /\ k - 1 \in 0 .. Len(s) /\ k - 1 \notin Bad
      <3>1. k \in 1 .. Len(s) /\ k - 1 \in 0 .. Len(s) /\ k - 1 < k
        BY <2>3
      <3> HIDE DEF Bad
      <3>2. k - 1 \in Bad => k <= k - 1
        BY <2>2
      <3> QED
        BY <3>1, <3>2
    <2>5. Elements(g[k - 1]) = first(k - 1) /\ g[k - 1] \in Seq(T) /\ s[k] \in T
      BY <1>1, <2>4 DEF Keeping
    <2>6. first(k) = first(k - 1) \cup ({s[k]} \cap S)
      <3>1. 1 .. k = (1 .. k - 1) \cup {k}
        BY <2>4
      <3> QED
        BY <3>1
    <2>7. Elements(Append(g[k - 1], s[k])) = Elements(g[k - 1]) \cup {s[k]}
      BY <2>5, AppendElements
    <2> HIDE DEF first
    <2> QED
      BY <1>1, <2>2, <2>4, <2>5, <2>6, <2>7 DEF Keeping
  <1>3. Elements(g[Len(s)]) = first(Len(s))
    BY <1>2
  <1>4. first(Len(s)) = Elements(s) \cap S
    BY DEF Elements
  <1> HIDE DEF first
  <1> QED
    BY <1>1, <1>3, <1>4 DEF Keeping

\* What is kept depends only on which elements are in the set.
LEMMA KeptSame ==
    ASSUME NEW T, NEW s \in Seq(T), NEW S, NEW R, Elements(s) \cap S = Elements(s) \cap R
    PROVE  Kept(s, S) = Kept(s, R)
  <1>1. PICK g : Keeping(g, s, S, T)
    BY KeptSteps
  <1>2. PICK h : Keeping(h, s, R, T)
    BY KeptSteps
  <1> DEFINE Bad == {k \in 0 .. Len(s) : g[k] # h[k]}
  <1>3. Bad = {}
    <2>1. SUFFICES ASSUME Bad # {} PROVE FALSE
      OBVIOUS
    <2>2. PICK k \in Bad : \A m \in Bad : k <= m
      <3>1. Bad \in SUBSET Nat
        OBVIOUS
      <3> HIDE DEF Bad
      <3> QED
        BY <2>1, <3>1, LeastOfNaturals
    <2>3. k # 0
      BY <1>1, <1>2 DEF Keeping
    <2>4. k \in 1 .. Len(s) /\ k - 1 \in 0 .. Len(s) /\ k - 1 \notin Bad
      BY <2>2, <2>3
    <2>5. g[k - 1] = h[k - 1]
      BY <2>4
    <2>6. s[k] \in S <=> s[k] \in R
      <3>1. s[k] \in Elements(s)
        BY <2>4 DEF Elements
      <3> QED
        BY <3>1
    <2> QED
      BY <1>1, <1>2, <2>2, <2>4, <2>5, <2>6 DEF Keeping
  <1> QED
    BY <1>1, <1>2, <1>3 DEF Keeping

LEMMA KeptInOrder ==
    ASSUME NEW s \in Seq(Nat), NEW S, InCreationOrder(s)
    PROVE  InCreationOrder(Kept(s, S))
  <1>1. PICK g : Keeping(g, s, S, Nat)
    BY KeptSteps
  <1> DEFINE fits(k) == /\ InCreationOrder(g[k])
                        /\ \A j \in DOMAIN g[k] : \E i \in 1 .. k : g[k][j] = s[i]
             Bad == {k \in 0 .. Len(s) : ~ fits(k)}
  <1>2. Bad = {}
    <2>1. SUFFICES ASSUME Bad # {} PROVE FALSE
      OBVIOUS
    <2>2. PICK k \in Bad : \A m \in Bad : k <= m
      <3>1. Bad \in SUBSET Nat
        OBVIOUS
      <3> HIDE DEF Bad
      <3> QED
        BY <2>1, <3>1, LeastOfNaturals
    <2>3. k # 0
      <3>1. g[0] = <<>> /\ DOMAIN <<>> = {}
        BY <1>1 DEF Keeping
      <3>2. fits(0)
        BY <3>1 DEF InCreationOrder
      <3> QED
        BY <3>2
    <2>4. k \in 1 .. Len(s) /\ k - 1 \in 0 .. Len(s) /\ fits(k - 1)
      <3>1. k \in 1 .. Len(s) /\ k - 1 \in 0 .. Len(s) /\ k - 1 < k
        BY <2>3
      <3> HIDE DEF fits
      <3>2. k - 1 \in Bad => k <= k - 1
        BY <2>2
      <3> QED
        BY <3>1, <3>2
    <2> DEFINE u == g[k - 1]
    <2>5. /\ u \in Seq(Nat) /\ s[k] \in Nat
          /\ g[k] = IF s[k] \in S THEN Append(u, s[k]) ELSE u
      BY <1>1, <2>4 DEF Keeping
    <2>6. /\ InCreationOrder(u)
          /\ \A j \in DOMAIN u : \E i \in 1 .. k - 1 : u[j] = s[i]
      BY <2>4
    <2> HIDE DEF u
    <2>7. CASE s[k] \notin S
      <3>1. g[k] = u
        BY <2>5, <2>7
      <3>2. \A i \in 1 .. k - 1 : i \in 1 .. k
        BY <2>4
      <3>3. fits(k)
        BY <2>6, <3>1, <3>2
      <3> HIDE DEF fits
      <3> QED
        BY <3>3
    <2>8. CASE s[k] \in S
      <3>1. g[k] = Append(u, s[k])
        BY <2>5, <2>8
      <3>2. \A j \in DOMAIN u : u[j] \in Nat /\ u[j] < s[k]
        <4> SUFFICES ASSUME NEW j \in DOMAIN u PROVE u[j] \in Nat /\ u[j] < s[k]
          OBVIOUS
        <4>1. PICK i \in 1 .. k - 1 : u[j] = s[i]
          BY <2>6
        <4>2. i \in DOMAIN s /\ k \in DOMAIN s /\ i < k
          BY <2>4
        <4> QED
          BY <2>5, <4>1, <4>2 DEF InCreationOrder
      <3>3. /\ DOMAIN g[k] = 1 .. Len(u) + 1 /\ DOMAIN u = 1 .. Len(u) /\ Len(u) \in Nat
            /\ g[k][Len(u) + 1] = s[k] /\ \A j \in DOMAIN u : g[k][j] = u[j]
        BY <2>5, <3>1
      <3>4. InCreationOrder(g[k])
        <4> SUFFICES ASSUME NEW i \in DOMAIN g[k], NEW j \in DOMAIN g[k], i < j
                     PROVE  g[k][i] < g[k][j]
          BY DEF InCreationOrder
        <4>1. i \in DOMAIN u /\ g[k][i] = u[i]
          BY <3>3
        <4>2. CASE j \in DOMAIN u
          BY <2>6, <3>3, <4>1, <4>2 DEF InCreationOrder
        <4>3. CASE j \notin DOMAIN u
          <5>1. j = Len(u) + 1
            BY <3>3, <4>3
          <5> QED
            BY <3>2, <3>3, <4>1, <5>1
        <4> QED
          BY <4>2, <4>3
      <3>5. ASSUME NEW j \in DOMAIN g[k] PROVE \E i \in 1 .. k : g[k][j] = s[i]
        <4>1. CASE j \in DOMAIN u
          <5>1. PICK i \in 1 .. k - 1 : u[j] = s[i]
            BY <2>6, <4>1
          <5>2. i \in 1 .. k
            BY <2>4
          <5>3. g[k][j] = u[j]
            BY <3>3, <4>1
          <5> QED
            BY <5>1, <5>2, <5>3
        <4>2. CASE j \notin DOMAIN u
          <5>1. j = Len(u) + 1
            BY <3>3, <4>2
          <5>2. g[k][j] = s[k]
            BY <3>3, <5>1
          <5>3. k \in 1 .. k
            BY <2>4
          <5> QED
            BY <5>2, <5>3
        <4> QED
          BY <4>1, <4>2
      <3>6. fits(k)
        BY <3>4, <3>5
      <3> HIDE DEF fits
      <3> QED
        BY <3>6
    <2> QED
      BY <2>7, <2>8
  <1>3. fits(Len(s))
    <2>1. Len(s) \in 0 .. Len(s)
      OBVIOUS
    <2> HIDE DEF fits
    <2> QED
      BY <1>2, <2>1
  <1> QED
    BY <1>1, <1>3 DEF Keeping

\* Of two sequences in the order of creation with the same elements, each one
\* begins with the other ...
LEMMA OrderedPrefix ==
    ASSUME NEW s \in Seq(Nat), NEW t \in Seq(Nat), InCreationOrder(s), InCreationOrder(t),
           Elements(s) = Elements(t), NEW k \in DOMAIN s
    PROVE  k \in DOMAIN t /\ t[k] = s[k]
  <1> DEFINE Bad == {i \in DOMAIN s : ~ (i \in DOMAIN t /\ t[i] = s[i])}
  <1>1. SUFFICES ASSUME Bad # {} PROVE FALSE
    OBVIOUS
  <1>2. PICK n \in Bad : \A m \in Bad : n <= m
    <2>1. Bad \in SUBSET Nat
      OBVIOUS
    <2> HIDE DEF Bad
    <2> QED
      BY <1>1, <2>1, LeastOfNaturals
  <1>3. n \in DOMAIN s /\ n \in Nat /\ \A i \in DOMAIN s : i < n => i \in DOMAIN t /\ t[i] = s[i]
    BY <1>2
  <1>4. ~ (n \in DOMAIN t /\ t[n] = s[n])
    BY <1>2
  <1> HIDE DEF Bad
  <1>5. DOMAIN s = 1 .. Len(s) /\ DOMAIN t = 1 .. Len(t) /\ Len(s) \in Nat /\ Len(t) \in Nat
    OBVIOUS
  <1>6. PICK j \in DOMAIN t : s[n] = t[j]
    BY <1>3 DEF Elements
  <1>7. n <= j
    <2>1. SUFFICES ASSUME j < n PROVE FALSE
      BY <1>3, <1>5
    <2>2. j \in DOMAIN s /\ t[j] = s[j]
      BY <1>3, <1>5, <2>1
    <2>3. s[j] < s[n] /\ s[j] \in Nat
      BY <1>3, <2>1, <2>2 DEF InCreationOrder
    <2> QED
      BY <1>6, <2>2, <2>3
  <1>8. n \in DOMAIN t
    BY <1>3, <1>5, <1>7
  <1>9. PICK i \in DOMAIN s : t[n] = s[i]
    BY <1>8 DEF Elements
  <1>10. n <= i
    <2>1. SUFFICES ASSUME i < n PROVE FALSE
      BY <1>3, <1>5
    <2>2. i \in DOMAIN t /\ t[i] = s[i]
      BY <1>3, <2>1
    <2>3. t[i] < t[n] /\ t[i] \in Nat
      BY <1>8, <2>1, <2>2 DEF InCreationOrder
    <2> QED
      BY <1>9, <2>2, <2>3
  <1>11. s[n] \in Nat /\ t[n] \in Nat
    BY <1>3, <1>8
  <1>12. t[n] <= s[n]
    <2>1. n = j \/ t[n] < t[j]
      BY <1>5, <1>7, <1>8 DEF InCreationOrder
    <2>2. PICK x \in Nat, y \in Nat : x = t[n] /\ y = s[n]
      BY <1>11
    <2>3. x = y \/ x < y
      BY <1>6, <2>1, <2>2
    <2>4. x <= y
      BY <2>3
    <2> QED
      BY <2>2, <2>4
  <1>13. s[n] <= t[n]
    <2>1. n = i \/ s[n] < s[i]
      BY <1>3, <1>5, <1>10 DEF InCreationOrder
    <2>2. PICK x \in Nat, y \in Nat : x = t[n] /\ y = s[n]
      BY <1>11
    <2>3. y = x \/ y < x
      BY <1>9, <2>1, <2>2
    <2>4. y <= x
      BY <2>3
    <2> QED
      BY <2>2, <2>4
  <1>14. t[n] = s[n]
    <2>1. PICK x \in Nat, y \in Nat : x = t[n] /\ y = s[n]
      BY <1>11
    <2>2. x <= y /\ y <= x
      BY <1>12, <1>13, <2>1
    <2>3. x = y
      BY <2>2
    <2> QED
      BY <2>1, <2>3
  <1> QED
    BY <1>4, <1>8, <1>14

LEMMA SamePrefixes ==
    ASSUME NEW T, NEW s \in Seq(T), NEW t \in Seq(T),
           \A k \in DOMAIN s : k \in DOMAIN t /\ t[k] = s[k],
           \A k \in DOMAIN t : k \in DOMAIN s /\ s[k] = t[k]
    PROVE  s = t
  <1>1. DOMAIN s = DOMAIN t
    OBVIOUS
  <1>2. s = [k \in DOMAIN s |-> s[k]] /\ t = [k \in DOMAIN t |-> t[k]]
    OBVIOUS
  <1> QED
    BY <1>1, <1>2

\* ... so that they are the same.
LEMMA OneOrder ==
    ASSUME NEW s \in Seq(Nat), NEW t \in Seq(Nat), InCreationOrder(s), InCreationOrder(t),
           Elements(s) = Elements(t)
    PROVE  s = t
  <1>1. \A k \in DOMAIN s : k \in DOMAIN t /\ t[k] = s[k]
    BY OrderedPrefix
  <1>2. \A k \in DOMAIN t : k \in DOMAIN s /\ s[k] = t[k]
    BY OrderedPrefix
  <1> QED
    BY <1>1, <1>2, SamePrefixes

-----------------------------------------------------------------------------
(* A sort has one result.                                                    *)

\* Position i of ls has a layer that is not in V and waits for none that is not.
Free(p, ls, V, i) == /\ i \in DOMAIN ls /\ ls[i] \notin V
                     /\ Waits(p, ls[i], Elements(ls) \ V) = {}

\* The sort of ls visits layer l after those in V.
Comes(p, ls, V, l) ==
    \E i \in DOMAIN ls : /\ Free(p, ls, V, i) /\ ls[i] = l
                         /\ \A j \in DOMAIN ls : Free(p, ls, V, j) => i <= j

Prior(o, k) == {o[j] : j \in 1 .. k - 1}

\* o is how far the sort of ls may have come.
SortOf(p, ls, o) == \A k \in DOMAIN o : Comes(p, ls, Prior(o, k), o[k])

LEMMA OneComes ==
    ASSUME NEW T, NEW ls \in Seq(T), NEW p, NEW V, NEW l, NEW m,
           Comes(p, ls, V, l), Comes(p, ls, V, m)
    PROVE  l = m
  <1>1. PICK i \in DOMAIN ls : /\ Free(p, ls, V, i) /\ ls[i] = l
                               /\ \A j \in DOMAIN ls : Free(p, ls, V, j) => i <= j
    BY DEF Comes
  <1>2. PICK k \in DOMAIN ls : /\ Free(p, ls, V, k) /\ ls[k] = m
                               /\ \A j \in DOMAIN ls : Free(p, ls, V, j) => k <= j
    BY DEF Comes
  <1>3. i <= k /\ k <= i /\ i \in Nat /\ k \in Nat
    BY <1>1, <1>2
  <1> QED
    BY <1>1, <1>2, <1>3

\* One sort of ls begins with any other that is complete ...
LEMMA SortPrefix ==
    ASSUME NEW T, NEW ls \in Seq(T), NEW o \in Seq(T), NEW q \in Seq(T), NEW p,
           SortOf(p, ls, o), SortOf(p, ls, q), Elements(ls) \subseteq Elements(q),
           NEW k \in DOMAIN o
    PROVE  k \in DOMAIN q /\ q[k] = o[k]
  <1> DEFINE Bad == {i \in DOMAIN o : ~ (i \in DOMAIN q /\ q[i] = o[i])}
  <1>1. SUFFICES ASSUME Bad # {} PROVE FALSE
    OBVIOUS
  <1>2. PICK n \in Bad : \A m \in Bad : n <= m
    <2>1. Bad \in SUBSET Nat
      OBVIOUS
    <2> HIDE DEF Bad
    <2> QED
      BY <1>1, <2>1, LeastOfNaturals
  <1>3. n \in DOMAIN o /\ n \in Nat /\ \A i \in DOMAIN o : i < n => i \in DOMAIN q /\ q[i] = o[i]
    BY <1>2
  <1>4. ~ (n \in DOMAIN q /\ q[n] = o[n])
    BY <1>2
  <1> HIDE DEF Bad
  <1>5. DOMAIN o = 1 .. Len(o) /\ DOMAIN q = 1 .. Len(q) /\ Len(o) \in Nat /\ Len(q) \in Nat
    OBVIOUS
  <1>6. \A i \in 1 .. n - 1 : i \in DOMAIN q /\ q[i] = o[i]
    BY <1>3, <1>5
  <1>7. Prior(q, n) = Prior(o, n)
    BY <1>6 DEF Prior
  <1>8. Comes(p, ls, Prior(o, n), o[n])
    BY <1>3 DEF SortOf
  <1>9. o[n] \in Elements(ls) /\ o[n] \notin Prior(o, n)
    BY <1>8 DEF Comes, Free, Elements
  <1>10. PICK j \in DOMAIN q : q[j] = o[n]
    BY <1>9 DEF Elements
  <1>11. n <= j
    <2>1. SUFFICES ASSUME j < n PROVE FALSE
      BY <1>3, <1>5
    <2>2. j \in 1 .. n - 1
      BY <1>3, <1>5, <2>1
    <2> QED
      BY <1>6, <1>9, <1>10, <2>2 DEF Prior
  <1>12. n \in DOMAIN q
    BY <1>3, <1>5, <1>11
  <1>13. Comes(p, ls, Prior(o, n), q[n])
    BY <1>7, <1>12 DEF SortOf
  <1>14. q[n] = o[n]
    BY <1>8, <1>13, OneComes
  <1> QED
    BY <1>4, <1>12, <1>14

\* ... so that two complete ones are the same.
LEMMA OneSort ==
    ASSUME NEW T, NEW ls \in Seq(T), NEW o \in Seq(T), NEW q \in Seq(T), NEW p,
           SortOf(p, ls, o), SortOf(p, ls, q),
           Elements(ls) \subseteq Elements(o), Elements(ls) \subseteq Elements(q)
    PROVE  o = q
  <1>1. \A k \in DOMAIN o : k \in DOMAIN q /\ q[k] = o[k]
    BY SortPrefix
  <1>2. \A k \in DOMAIN q : k \in DOMAIN o /\ o[k] = q[k]
    BY SortPrefix
  <1> QED
    BY <1>1, <1>2, SamePrefixes

LEMMA SortBegins == ASSUME NEW p, NEW ls PROVE SortOf(p, ls, <<>>)
  BY DEF SortOf

LEMMA SortGoesOn ==
    ASSUME NEW T, NEW ls \in Seq(T), NEW o \in Seq(T), NEW p, NEW l,
           SortOf(p, ls, o), Comes(p, ls, Elements(o), l)
    PROVE  SortOf(p, ls, Append(o, l))
  <1> DEFINE t == Append(o, l)
             n == Len(o)
  <1>0. l \in T
    BY DEF Comes, Free
  <1>1. /\ t \in Seq(T) /\ n \in Nat /\ DOMAIN o = 1 .. n /\ DOMAIN t = 1 .. n + 1
        /\ t[n + 1] = l /\ \A i \in 1 .. n : t[i] = o[i]
    BY <1>0
  <1> HIDE DEF t, n
  <1> SUFFICES ASSUME NEW k \in DOMAIN t PROVE Comes(p, ls, Prior(t, k), t[k])
    BY DEF t, SortOf
  <1>2. CASE k \in DOMAIN o
    <2>1. \A i \in 1 .. k - 1 : i \in 1 .. n
      BY <1>1, <1>2
    <2>2. Prior(t, k) = Prior(o, k) /\ t[k] = o[k]
      BY <1>1, <1>2, <2>1 DEF Prior
    <2> QED
      BY <1>2, <2>2 DEF SortOf
  <1>3. CASE k \notin DOMAIN o
    <2>1. k = n + 1 /\ k - 1 = n
      BY <1>1, <1>3
    <2>2. Prior(t, k) = Elements(o)
      BY <1>1, <2>1 DEF Prior, Elements
    <2> QED
      BY <1>1, <2>1, <2>2
  <1> QED
    BY <1>2, <1>3

\* Layers in the order of their creation are sorted as they are.
LEMMA CreationIsSorted ==
    ASSUME arch \in Architectures, NEW ls \in Seq(Layer), InCreationOrder(ls)
    PROVE  SortOf("fts", ls, ls)
  <1> SUFFICES ASSUME NEW k \in DOMAIN ls PROVE Comes("fts", ls, Prior(ls, k), ls[k])
    BY DEF SortOf
  <1>1. DOMAIN ls = 1 .. Len(ls) /\ Len(ls) \in Nat /\ \A i \in DOMAIN ls : ls[i] \in Nat
    <2>1. Layer \subseteq Nat
      BY LayerFacts
    <2>2. \A i \in DOMAIN ls : ls[i] \in Layer
      OBVIOUS
    <2>3. DOMAIN ls = 1 .. Len(ls) /\ Len(ls) \in Nat
      OBVIOUS
    <2>4. \A i \in DOMAIN ls : ls[i] \in Nat
      BY <2>1, <2>2
    <2> QED
      BY <2>3, <2>4
  <1>2. \A i \in DOMAIN ls : i < k <=> ls[i] \in Prior(ls, k)
    <2> SUFFICES ASSUME NEW i \in DOMAIN ls PROVE i < k <=> ls[i] \in Prior(ls, k)
      OBVIOUS
    <2>1. ASSUME i < k PROVE ls[i] \in Prior(ls, k)
      <3>1. i \in 1 .. k - 1
        BY <1>1, <2>1
      <3> QED
        BY <3>1 DEF Prior
    <2>2. ASSUME ls[i] \in Prior(ls, k) PROVE i < k
      <3>1. PICK j \in 1 .. k - 1 : ls[i] = ls[j]
        BY <2>2 DEF Prior
      <3>2. j \in DOMAIN ls /\ j < k
        BY <1>1
      <3>3. j = i \/ j < i \/ i < j
        BY <1>1, <3>2
      <3>4. ~ (j < i)
        BY <1>1, <3>1, <3>2 DEF InCreationOrder
      <3> QED
        BY <1>1, <3>2, <3>3, <3>4
    <2> QED
      BY <2>1, <2>2
  <1>3. Waits("fts", ls[k], Elements(ls) \ Prior(ls, k)) = {}
    <2> SUFFICES ASSUME NEW e \in Edge, After("fts", e) = ls[k], Before("fts", e) \in Elements(ls)
                 PROVE  Before("fts", e) \in Prior(ls, k)
      BY DEF Waits
    <2>1. PICK i \in DOMAIN ls : Before("fts", e) = ls[i]
      BY DEF Elements
    <2>2. ls[i] < ls[k]
      BY <2>1, EdgeFacts, EndFacts
    <2>3. i < k
      <3>1. i = k \/ k < i \/ i < k
        BY <1>1
      <3> QED
        BY <1>1, <2>2, <3>1 DEF InCreationOrder
    <2> QED
      BY <1>2, <2>1, <2>3
  <1>4. Free("fts", ls, Prior(ls, k), k)
    <2>1. ls[k] \notin Prior(ls, k)
      BY <1>1, <1>2
    <2> QED
      BY <1>3, <2>1 DEF Free
  <1>5. \A j \in DOMAIN ls : Free("fts", ls, Prior(ls, k), j) => k <= j
    BY <1>1, <1>2 DEF Free
  <1> QED
    BY <1>4, <1>5 DEF Comes

\* What Visit appends is what comes next.
LEMMA VisitComes ==
    ASSUME GraphInv, Visit
    PROVE  /\ \E l : order' = Append(order, l) /\ Comes(phase, layers, Elements(order), l)
           /\ phase' = phase
  <1> DEFINE S == Elements(layers)
             l == layers[First(Ready)]
  <1>0. /\ arch \in Architectures /\ phase \in Sorting /\ Unvisited # {}
        /\ layers \in Seq(Layer) /\ order \in Seq(Layer)
        /\ S \subseteq Layer /\ Unvisited = S \ Elements(order)
    BY ElementsOf DEF GraphInv, SortType, Visit, Unvisited
  <1>1. /\ SortedSoFar(phase, order, S) /\ DOMAIN count = S
        /\ \A m \in S : count[m] = Cardinality(Waits(phase, m, Unvisited))
    BY <1>0 DEF GraphInv, VisitInv
  <1>2. \A i \in DOMAIN layers : i \in Ready <=> Free(phase, layers, Elements(order), i)
    <2> SUFFICES ASSUME NEW i \in DOMAIN layers
                 PROVE  i \in Ready <=> Free(phase, layers, Elements(order), i)
      OBVIOUS
    <2>1. layers[i] \in S
      BY DEF Elements
    <2>2. count[layers[i]] = 0 <=> Waits(phase, layers[i], Unvisited) = {}
      <3>1. count[layers[i]] = Cardinality(Waits(phase, layers[i], Unvisited))
        BY <1>1, <2>1
      <3>2. Cardinality(Waits(phase, layers[i], Unvisited)) = 0
                <=> Waits(phase, layers[i], Unvisited) = {}
        BY <1>0, WaitsAreCounted
      <3> QED
        BY <3>1, <3>2
    <2> QED
      BY <1>0, <2>1, <2>2 DEF Ready, Free
  <1>3. Ready # {}
    <2>1. PICK u \in Unvisited : Waits(phase, u, Unvisited) = {}
      BY <1>0, OneIsReady
    <2>2. u \in S /\ count[u] = 0
      BY <1>0, <1>1, <2>1, WaitsAreCounted
    <2>3. PICK i \in DOMAIN layers : layers[i] = u
      BY <2>2 DEF Elements
    <2> QED
      BY <2>2, <2>3 DEF Ready
  <1>4. First(Ready) \in Ready /\ \A j \in Ready : First(Ready) <= j
    <2>1. Ready \in SUBSET Nat
      BY <1>0 DEF Ready
    <2> QED
      BY <1>3, <2>1, LeastOfNaturals DEF First
  <1>5. order' = Append(order, l) /\ phase' = phase
    BY <1>3 DEF Visit
  <1>6. PICK i : i = First(Ready)
    OBVIOUS
  <1>7. /\ i \in DOMAIN layers /\ Free(phase, layers, Elements(order), i) /\ layers[i] = l
        /\ \A j \in DOMAIN layers : Free(phase, layers, Elements(order), j) => i <= j
    <2>1. i \in Ready /\ i \in DOMAIN layers
      BY <1>4, <1>6 DEF Ready
    <2> QED
      BY <1>2, <1>4, <1>6, <2>1
  <1> QED
    BY <1>5, <1>7 DEF Comes

-----------------------------------------------------------------------------
(* A walk finds the same layers whenever the layers go on to the same.       *)

\* The next state of a walk, from layers still to be walked to and those found;
\* g gives what a layer goes on to.
WalkStep(g, s) ==
    LET l == Head(s[1])
    IN  IF l \in Elements(s[2]) THEN <<Tail(s[1]), s[2]>>
        ELSE <<g[l] \o Tail(s[1]), Append(s[2], l)>>

\* The n steps t have led from `from' to stack st, with f found.
Traced(g, from, st, f, n, t) ==
    /\ t \in [0 .. n -> Seq(Nat) \X Seq(Nat)]
    /\ t[0] = <<from, <<>>>> /\ t[n] = <<st, f>>
    /\ \A i \in 0 .. n - 1 : t[i][1] # <<>> /\ t[i + 1] = WalkStep(g, t[i])
    /\ \A i \in 0 .. n : Elements(t[i][2]) \subseteq Elements(f)

\* Nothing is lost on the way.
Closed(g, from, st, f) ==
    /\ Elements(from) \subseteq Elements(f) \cup Elements(st)
    /\ \A l \in Elements(f) : Elements(g[l]) \subseteq Elements(f) \cup Elements(st)

WalkOf(g, from, st, f) == /\ \E n \in Nat : \E t : Traced(g, from, st, f, n, t)
                          /\ Closed(g, from, st, f)

LEMMA WalkBegins == ASSUME NEW g, NEW from \in Seq(Nat) PROVE WalkOf(g, from, from, <<>>)
  <1> DEFINE t == [i \in 0 .. 0 |-> <<from, <<>>>>]
  <1>1. <<>> \in Seq(Nat) /\ Elements(<<>>) = {}
    BY DEF Elements
  <1>2. Traced(g, from, from, <<>>, 0, t)
    <2>1. 0 .. 0 = {0} /\ 0 .. 0 - 1 = {}
      OBVIOUS
    <2>2. t \in [0 .. 0 -> Seq(Nat) \X Seq(Nat)] /\ t[0] = <<from, <<>>>>
      BY <1>1, <2>1
    <2> HIDE DEF t
    <2> QED
      BY <1>1, <2>1, <2>2 DEF Traced
  <1>3. Closed(g, from, from, <<>>)
    BY <1>1 DEF Closed
  <1> QED
    BY <1>2, <1>3 DEF WalkOf

LEMMA HeadElements ==
    ASSUME NEW s \in Seq(Nat), s # <<>>
    PROVE  /\ Head(s) \in Nat /\ Tail(s) \in Seq(Nat)
           /\ Elements(s) = {Head(s)} \cup Elements(Tail(s))
  <1>1. Head(s) \in Nat /\ Tail(s) \in Seq(Nat)
    OBVIOUS
  <1>2. /\ Len(s) \in Nat \ {0} /\ DOMAIN s = 1 .. Len(s) /\ Head(s) = s[1]
        /\ DOMAIN Tail(s) = 1 .. Len(s) - 1
        /\ \A i \in 1 .. Len(s) - 1 : Tail(s)[i] = s[i + 1]
    OBVIOUS
  <1>3. ASSUME NEW x \in Elements(s) PROVE x \in {Head(s)} \cup Elements(Tail(s))
    <2>1. PICK i \in 1 .. Len(s) : x = s[i]
      BY <1>2 DEF Elements
    <2>2. CASE i = 1
      BY <1>2, <2>1, <2>2
    <2>3. CASE i # 1
      <3>1. i - 1 \in 1 .. Len(s) - 1 /\ (i - 1) + 1 = i
        BY <1>2, <2>3
      <3>2. Tail(s)[i - 1] = x
        BY <1>2, <2>1, <3>1
      <3> QED
        BY <1>2, <3>1, <3>2 DEF Elements
    <2> QED
      BY <2>2, <2>3
  <1>4. ASSUME NEW x \in {Head(s)} \cup Elements(Tail(s)) PROVE x \in Elements(s)
    <2>1. CASE x = Head(s)
      <3>1. 1 \in DOMAIN s
        BY <1>2
      <3> QED
        BY <1>2, <2>1, <3>1 DEF Elements
    <2>2. CASE x \in Elements(Tail(s))
      <3>1. PICK i \in 1 .. Len(s) - 1 : x = Tail(s)[i]
        BY <1>2, <2>2 DEF Elements
      <3>2. i + 1 \in DOMAIN s /\ x = s[i + 1]
        BY <1>2, <3>1
      <3> QED
        BY <3>2 DEF Elements
    <2> QED
      BY <2>1, <2>2
  <1> QED
    BY <1>1, <1>3, <1>4

LEMMA JoinedElements ==
    ASSUME NEW s \in Seq(Nat), NEW r \in Seq(Nat)
    PROVE  s \o r \in Seq(Nat) /\ Elements(s \o r) = Elements(s) \cup Elements(r)
  <1> DEFINE t == s \o r
  <1>1. /\ t \in Seq(Nat) /\ Len(s) \in Nat /\ Len(r) \in Nat
        /\ DOMAIN s = 1 .. Len(s) /\ DOMAIN r = 1 .. Len(r)
        /\ DOMAIN t = 1 .. Len(s) + Len(r)
    OBVIOUS
  <1>2. /\ \A i \in 1 .. Len(s) : t[i] = s[i]
        /\ \A i \in 1 .. Len(r) : t[Len(s) + i] = r[i]
    OBVIOUS
  <1> HIDE DEF t
  <1>3. ASSUME NEW x \in Elements(t) PROVE x \in Elements(s) \cup Elements(r)
    <2>1. PICK i \in 1 .. Len(s) + Len(r) : x = t[i]
      BY <1>1 DEF Elements
    <2>2. CASE i <= Len(s)
      <3>1. i \in 1 .. Len(s)
        BY <1>1, <2>2
      <3> QED
        BY <1>1, <1>2, <2>1, <3>1 DEF Elements
    <2>3. CASE ~ (i <= Len(s))
      <3>1. i - Len(s) \in 1 .. Len(r) /\ Len(s) + (i - Len(s)) = i
        BY <1>1, <2>3
      <3>2. r[i - Len(s)] = x
        BY <1>2, <2>1, <3>1
      <3> QED
        BY <1>1, <3>1, <3>2 DEF Elements
    <2> QED
      BY <2>2, <2>3
  <1>4. \A x \in Elements(s) : x \in Elements(t)
    <2>1. \A i \in 1 .. Len(s) : i \in DOMAIN t
      BY <1>1
    <2> QED
      BY <1>1, <1>2, <2>1 DEF Elements
  <1>5. \A x \in Elements(r) : x \in Elements(t)
    <2>1. \A i \in 1 .. Len(r) : Len(s) + i \in DOMAIN t
      BY <1>1
    <2> QED
      BY <1>1, <1>2, <2>1 DEF Elements
  <1>6. Elements(t) = Elements(s) \cup Elements(r)
    BY <1>3, <1>4, <1>5
  <1> QED
    BY <1>1, <1>6 DEF t

LEMMA TraceGoesOn ==
    ASSUME NEW g, NEW from, NEW st \in Seq(Nat), NEW f \in Seq(Nat), NEW n \in Nat, NEW t,
           Traced(g, from, st, f, n, t), st # <<>>,
           NEW st2 \in Seq(Nat), NEW f2 \in Seq(Nat), WalkStep(g, <<st, f>>) = <<st2, f2>>,
           Elements(f) \subseteq Elements(f2)
    PROVE  \E u : Traced(g, from, st2, f2, n + 1, u)
  <1> DEFINE u == [i \in 0 .. n + 1 |-> IF i = n + 1 THEN <<st2, f2>> ELSE t[i]]
  <1>1. t \in [0 .. n -> Seq(Nat) \X Seq(Nat)] /\ t[0] = <<from, <<>>>> /\ t[n] = <<st, f>>
    BY DEF Traced
  <1>2. u[n + 1] = <<st2, f2>> /\ \A i \in 0 .. n : u[i] = t[i]
    OBVIOUS
  <1>3. u \in [0 .. n + 1 -> Seq(Nat) \X Seq(Nat)]
    <2>1. \A i \in 0 .. n + 1 : i # n + 1 => i \in 0 .. n
      OBVIOUS
    <2>2. <<st2, f2>> \in Seq(Nat) \X Seq(Nat)
      OBVIOUS
    <2> QED
      BY <1>1, <2>1, <2>2
  <1> HIDE DEF u
  <1>4. u[0] = <<from, <<>>>>
    <2>1. 0 \in 0 .. n
      OBVIOUS
    <2>2. u[0] = t[0]
      BY <1>2, <2>1
    <2> QED
      BY <1>1, <2>2
  <1>5. ASSUME NEW i \in 0 .. (n + 1) - 1 PROVE u[i][1] # <<>> /\ u[i + 1] = WalkStep(g, u[i])
    <2>1. CASE i = n
      <3>1. u[i] = <<st, f>> /\ u[i + 1] = <<st2, f2>>
        <4>1. n \in 0 .. n
          OBVIOUS
        <4>2. u[n] = t[n]
          BY <1>2, <4>1
        <4> QED
          BY <1>1, <1>2, <2>1, <4>2
      <3> QED
        BY <3>1
    <2>2. CASE i # n
      <3>1. i \in 0 .. n - 1 /\ i \in 0 .. n /\ i + 1 \in 0 .. n
        BY <2>2
      <3>2. t[i][1] # <<>> /\ t[i + 1] = WalkStep(g, t[i])
        BY <3>1 DEF Traced
      <3> QED
        BY <1>2, <3>1, <3>2
    <2> QED
      BY <2>1, <2>2
  <1>6. ASSUME NEW i \in 0 .. n + 1 PROVE Elements(u[i][2]) \subseteq Elements(f2)
    <2>1. CASE i = n + 1
      BY <1>2, <2>1
    <2>2. CASE i # n + 1
      <3>1. i \in 0 .. n /\ u[i] = t[i]
        BY <1>2, <2>2
      <3>2. Elements(t[i][2]) \subseteq Elements(f)
        BY <3>1 DEF Traced
      <3> QED
        BY <3>1, <3>2
    <2> QED
      BY <2>1, <2>2
  <1>7. Traced(g, from, st2, f2, n + 1, u)
    BY <1>2, <1>3, <1>4, <1>5, <1>6 DEF Traced
  <1> QED
    BY <1>7

LEMMA WalkGoesOn ==
    ASSUME NEW g, NEW from, NEW st \in Seq(Nat), NEW f \in Seq(Nat),
           WalkOf(g, from, st, f), st # <<>>, Head(st) \notin Elements(f),
           g[Head(st)] \in Seq(Nat)
    PROVE  WalkOf(g, from, g[Head(st)] \o Tail(st), Append(f, Head(st)))
  <1>1. PICK l \in Nat : l = Head(st)
    BY HeadElements
  <1>2. PICK rest \in Seq(Nat) : rest = Tail(st)
    BY HeadElements
  <1>3. PICK more \in Seq(Nat) : more = g[l]
    BY <1>1
  <1>4. PICK st2 \in Seq(Nat) : st2 = more \o rest
    BY JoinedElements
  <1>5. PICK f2 \in Seq(Nat) : f2 = Append(f, l)
    <2>1. Append(f, l) \in Seq(Nat)
      OBVIOUS
    <2> QED
      BY <2>1
  <1>6. /\ Elements(st2) = Elements(more) \cup Elements(rest)
        /\ Elements(st) = {l} \cup Elements(rest)
        /\ Elements(f2) = Elements(f) \cup {l}
    <2>1. Elements(st2) = Elements(more) \cup Elements(rest)
      BY <1>4, JoinedElements
    <2>2. Elements(st) = {l} \cup Elements(rest)
      BY <1>1, <1>2, HeadElements
    <2>3. Elements(f2) = Elements(f) \cup {l}
      BY <1>5, AppendElements
    <2> QED
      BY <2>1, <2>2, <2>3
  <1>7. WalkStep(g, <<st, f>>) = <<st2, f2>>
    BY <1>1, <1>2, <1>3, <1>4, <1>5 DEF WalkStep
  <1>8. PICK n \in Nat : \E t : Traced(g, from, st, f, n, t)
    BY DEF WalkOf
  <1>9. \E u : Traced(g, from, st2, f2, n + 1, u)
    BY <1>6, <1>7, <1>8, TraceGoesOn
  <1>10. Closed(g, from, st2, f2)
    BY <1>3, <1>6 DEF WalkOf, Closed
  <1>11. WalkOf(g, from, st2, f2)
    <2>1. n + 1 \in Nat
      OBVIOUS
    <2> QED
      BY <1>9, <1>10, <2>1 DEF WalkOf
  <1> QED
    BY <1>1, <1>2, <1>3, <1>4, <1>5, <1>11

LEMMA WalkReturns ==
    ASSUME NEW g, NEW from, NEW st \in Seq(Nat), NEW f \in Seq(Nat),
           WalkOf(g, from, st, f), st # <<>>, Head(st) \in Elements(f)
    PROVE  WalkOf(g, from, Tail(st), f)
  <1>1. PICK rest \in Seq(Nat) : rest = Tail(st)
    BY HeadElements
  <1>2. Elements(st) = {Head(st)} \cup Elements(rest)
    BY <1>1, HeadElements
  <1>3. WalkStep(g, <<st, f>>) = <<rest, f>>
    BY <1>1 DEF WalkStep
  <1>4. PICK n \in Nat : \E t : Traced(g, from, st, f, n, t)
    BY DEF WalkOf
  <1>5. \E u : Traced(g, from, rest, f, n + 1, u)
    BY <1>3, <1>4, TraceGoesOn
  <1>6. Closed(g, from, rest, f)
    BY <1>2 DEF WalkOf, Closed
  <1>7. WalkOf(g, from, rest, f)
    <2>1. n + 1 \in Nat
      OBVIOUS
    <2> QED
      BY <1>5, <1>6, <2>1 DEF WalkOf
  <1> QED
    BY <1>1, <1>7

\* A walk that is over is the longest there is.
LEMMA TracePrefix ==
    ASSUME NEW g, NEW h, NEW from, NEW e, NEW f, NEW q, NEW n \in Nat, NEW m \in Nat,
           NEW t, NEW u, Traced(g, from, <<>>, f, n, t), Traced(h, from, e, q, m, u),
           \A l \in Elements(f) : g[l] = h[l],
           NEW k \in 0 .. m
    PROVE  k \in 0 .. n /\ t[k] = u[k]
  <1> DEFINE Bad == {i \in 0 .. m : ~ (i \in 0 .. n /\ t[i] = u[i])}
  <1>1. SUFFICES ASSUME Bad # {} PROVE FALSE
    OBVIOUS
  <1>2. PICK b \in Bad : \A i \in Bad : b <= i
    <2>1. Bad \in SUBSET Nat
      OBVIOUS
    <2> HIDE DEF Bad
    <2> QED
      BY <1>1, <2>1, LeastOfNaturals
  <1>3. b \in 0 .. m /\ ~ (b \in 0 .. n /\ t[b] = u[b])
    BY <1>2
  <1>4. b # 0
    <2>1. t[0] = u[0]
      BY DEF Traced
    <2> QED
      BY <1>3, <2>1
  <1>5. b - 1 \in 0 .. m /\ b - 1 \in 0 .. n /\ t[b - 1] = u[b - 1]
    <2>1. b - 1 \in 0 .. m /\ b - 1 < b
      BY <1>3, <1>4
    <2>2. b - 1 \notin Bad
      <3> HIDE DEF Bad
      <3> QED
        BY <1>2, <1>3, <2>1
    <2> QED
      BY <2>1, <2>2
  <1> HIDE DEF Bad
  <1>6. PICK c \in Nat : c = b - 1 /\ b = c + 1
    BY <1>3, <1>4
  <1>7. u[c][1] # <<>> /\ u[b] = WalkStep(h, u[c])
    <2>1. c \in 0 .. m - 1
      BY <1>3, <1>6
    <2> QED
      BY <1>6, <2>1 DEF Traced
  <1>8. c # n
    <2>1. t[n] = <<<<>>, f>>
      BY DEF Traced
    <2>2. t[n][1] = <<>>
      BY <2>1
    <2> QED
      BY <1>5, <1>6, <1>7, <2>2
  <1>9. c \in 0 .. n - 1 /\ b \in 0 .. n
    BY <1>5, <1>6, <1>8
  <1>10. t[b] = WalkStep(g, t[c])
    BY <1>6, <1>9 DEF Traced
  <1>11. t[c] = u[c] /\ t[c] \in Seq(Nat) \X Seq(Nat) /\ t[b] \in Seq(Nat) \X Seq(Nat)
         /\ Elements(t[b][2]) \subseteq Elements(f)
    BY <1>5, <1>6, <1>9 DEF Traced
  <1>12. PICK s \in Seq(Nat), r \in Seq(Nat) : t[c] = <<s, r>>
    BY <1>11
  <1>13. s # <<>>
    BY <1>7, <1>11, <1>12
  <1>14. CASE Head(s) \in Elements(r)
    BY <1>3, <1>7, <1>9, <1>10, <1>11, <1>12, <1>14 DEF WalkStep
  <1>15. CASE Head(s) \notin Elements(r)
    <2>1. t[b][2] = Append(r, Head(s))
      BY <1>10, <1>12, <1>15 DEF WalkStep
    <2>2. Head(s) \in Elements(f)
      BY <1>11, <2>1, AppendElements
    <2>3. g[Head(s)] = h[Head(s)]
      BY <2>2
    <2>4. WalkStep(g, t[c]) = WalkStep(h, t[c])
      <3>1. t[c][1] = s /\ t[c][2] = r
        BY <1>12
      <3>2. g[Head(t[c][1])] = h[Head(t[c][1])]
        BY <2>3, <3>1
      <3> QED
        BY <3>2 DEF WalkStep
    <2> QED
      BY <1>3, <1>7, <1>9, <1>10, <1>11, <2>4
  <1> QED
    BY <1>14, <1>15

LEMMA OneWalk ==
    ASSUME NEW g, NEW h, NEW from, NEW f, NEW q,
           WalkOf(g, from, <<>>, f), WalkOf(h, from, <<>>, q),
           \A l \in Elements(f) : g[l] = h[l]
    PROVE  f = q
  <1>1. PICK n \in Nat : \E t : Traced(g, from, <<>>, f, n, t)
    BY DEF WalkOf
  <1>2. PICK t : Traced(g, from, <<>>, f, n, t)
    BY <1>1
  <1>3. PICK m \in Nat : \E u : Traced(h, from, <<>>, q, m, u)
    BY DEF WalkOf
  <1>4. PICK u : Traced(h, from, <<>>, q, m, u)
    BY <1>3
  <1>5. m \in 0 .. m
    OBVIOUS
  <1>6. m \in 0 .. n /\ t[m] = u[m]
    BY <1>2, <1>4, <1>5, TracePrefix
  <1>7. t[n] = <<<<>>, f>> /\ u[m] = <<<<>>, q>>
    BY <1>2, <1>4 DEF Traced
  <1>8. m = n
    <2>1. SUFFICES ASSUME m # n PROVE FALSE
      OBVIOUS
    <2>2. m \in 0 .. n - 1
      BY <1>6, <2>1
    <2>3. t[m][1] # <<>>
      BY <1>2, <2>2 DEF Traced
    <2> QED
      BY <1>6, <1>7, <2>3
  <1> QED
    BY <1>6, <1>7, <1>8

-----------------------------------------------------------------------------
(* A twin repeats what its net went through.                                 *)

\* What walk() and walk_back() go on to, among the layers cr and with the
\* outputs out.
Succ(cr, out) ==
    [l \in Layer |-> IF l \in Elements(out) THEN <<>>
                     ELSE Kept(cr, {c \in Layer : l \in Elements(arch.parent[c])})]
Pred(cr) == [l \in Layer |-> Kept(arch.parent[l], Elements(cr))]

AllCreated == [l \in Layer |-> l]

\* ls are the layers that were collected, or the first sort of those ...
CollectedFrom(cr, in, out, ls) ==
    \E f, b \in Seq(Layer) : /\ WalkOf(Succ(cr, out), in, <<>>, f)
                             /\ WalkOf(Pred(cr), out, <<>>, b)
                             /\ ls = f \o Kept(b, Elements(b) \ Elements(f))

OrderedFrom(cr, in, out, ls) ==
    \E c \in Seq(Layer) : /\ CollectedFrom(cr, in, out, c) /\ SortOf("sort", c, ls)
                          /\ Elements(ls) = Elements(c)

\* ... and n is the net that came of them.
BuiltFrom(cr, n) == /\ OrderedFrom(cr, n.lin, n.lout, n.layers)
                    /\ SortOf("fts", n.layers, n.forward)
                    /\ SortOf("bts", n.layers, n.backward)

LEMMA LayersAreNaturals ==
    ASSUME arch \in Architectures
    PROVE  /\ Layer \subseteq Nat /\ \A s \in Seq(Layer) : s \in Seq(Nat)
           /\ AllCreated \in Seq(Layer) /\ InCreationOrder(AllCreated)
           /\ Elements(AllCreated) = Layer
  <1>1. Layer = 1 .. Len(arch.parent) /\ Len(arch.parent) \in Nat
    BY LayerFacts
  <1>2. Layer \subseteq Nat
    BY <1>1
  <1>3. ASSUME NEW s \in Seq(Layer) PROVE s \in Seq(Nat)
    <2>1. \A i \in 1 .. Len(s) : s[i] \in Layer
      OBVIOUS
    <2>2. \A i \in 1 .. Len(s) : s[i] \in Nat
      BY <1>2, <2>1
    <2>3. Len(s) \in Nat /\ s = [i \in 1 .. Len(s) |-> s[i]]
      OBVIOUS
    <2> QED
      BY <2>2, <2>3
  <1>4. AllCreated \in Seq(Layer)
    <2>1. AllCreated \in [1 .. Len(arch.parent) -> Layer]
      BY <1>1 DEF AllCreated
    <2> QED
      BY <1>1, <2>1
  <1>5. InCreationOrder(AllCreated)
    BY DEF AllCreated, InCreationOrder
  <1>6. Elements(AllCreated) = Layer
    BY DEF AllCreated, Elements
  <1> QED
    BY <1>2, <1>3, <1>4, <1>5, <1>6

\* Layers of a net that lists them as they were created go on to the same when
\* only those of the net are there.
LEMMA SameChildren ==
    ASSUME arch \in Architectures, NEW out, NEW ls \in Seq(Layer), InCreationOrder(ls),
           NEW l \in Layer, Elements(Succ(AllCreated, out)[l]) \subseteq Elements(ls)
    PROVE  Succ(AllCreated, out)[l] = Succ(ls, out)[l]
  <1>2. CASE l \in Elements(out)
    BY <1>2 DEF Succ
  <1>3. CASE l \notin Elements(out)
    <2> DEFINE ch == {c \in Layer : l \in Elements(arch.parent[c])}
    <2>1. Succ(AllCreated, out)[l] = Kept(AllCreated, ch) /\ Succ(ls, out)[l] = Kept(ls, ch)
      BY <1>3 DEF Succ
    <2>2. ch \subseteq Layer
      OBVIOUS
    <2> HIDE DEF ch
    <2>3. /\ AllCreated \in Seq(Nat) /\ InCreationOrder(AllCreated)
          /\ Elements(AllCreated) = Layer /\ ls \in Seq(Nat)
      BY LayersAreNaturals
    <2>4. Elements(Kept(AllCreated, ch)) = ch
      <3>1. Elements(Kept(AllCreated, ch)) = Elements(AllCreated) \cap ch
        BY <2>3, KeptElements
      <3> QED
        BY <2>2, <2>3, <3>1
    <2>5. ch \subseteq Elements(ls)
      BY <2>1, <2>4
    <2>6. Elements(Kept(ls, ch)) = ch
      <3>1. Elements(Kept(ls, ch)) = Elements(ls) \cap ch
        BY <2>3, KeptElements
      <3> QED
        BY <2>5, <3>1
    <2>7. Kept(AllCreated, ch) \in Seq(Nat) /\ Kept(ls, ch) \in Seq(Nat)
      BY <2>3, KeptType
    <2>8. InCreationOrder(Kept(AllCreated, ch)) /\ InCreationOrder(Kept(ls, ch))
      BY <2>3, KeptInOrder
    <2> QED
      BY <2>1, <2>4, <2>6, <2>7, <2>8, OneOrder
  <1> QED
    BY <1>2, <1>3

LEMMA SameParents ==
    ASSUME arch \in Architectures, NEW ls \in Seq(Layer), NEW l \in Layer,
           Elements(Pred(AllCreated)[l]) \subseteq Elements(ls)
    PROVE  Pred(AllCreated)[l] = Pred(ls)[l]
  <1>2. /\ Pred(AllCreated)[l] = Kept(arch.parent[l], Layer)
        /\ Pred(ls)[l] = Kept(arch.parent[l], Elements(ls))
    BY LayersAreNaturals DEF Pred
  <1>3. arch.parent[l] \in Seq(Layer)
    BY LayerFacts
  <1>4. Elements(Kept(arch.parent[l], Layer)) = Elements(arch.parent[l]) \cap Layer
    BY <1>3, KeptElements
  <1>5. Elements(ls) \subseteq Layer
    BY DEF Elements
  <1>6. Elements(arch.parent[l]) \cap Layer = Elements(arch.parent[l]) \cap Elements(ls)
    BY <1>2, <1>4, <1>5
  <1> QED
    BY <1>2, <1>3, <1>6, KeptSame

LEMMA CollectedElements ==
    ASSUME arch \in Architectures, NEW f \in Seq(Layer), NEW b \in Seq(Layer)
    PROVE  /\ f \o Kept(b, Elements(b) \ Elements(f)) \in Seq(Layer)
           /\ Elements(f \o Kept(b, Elements(b) \ Elements(f))) = Elements(f) \cup Elements(b)
  <1>1. PICK r \in Seq(Layer) : r = Kept(b, Elements(b) \ Elements(f))
    BY KeptType
  <1>2. Elements(r) = Elements(b) \cap (Elements(b) \ Elements(f))
    BY <1>1, KeptElements
  <1>3. f \in Seq(Nat) /\ r \in Seq(Nat)
    BY LayersAreNaturals
  <1>4. Elements(f \o r) = Elements(f) \cup Elements(r)
    BY <1>3, JoinedElements
  <1>5. f \o r \in Seq(Layer)
    OBVIOUS
  <1> QED
    BY <1>1, <1>2, <1>4, <1>5

\* A net that is built from the layers of net h, in the order in which they were
\* created, is h again.
LEMMA SameNet ==
    ASSUME arch \in Architectures, NEW h \in BuiltNet, NEW d \in BuiltNet,
           SortedNet(h), SortedNet(d), BuiltFrom(AllCreated, h), BuiltFrom(h.forward, d),
           d.lin = Among(h.forward, h.lin), d.lout = Among(h.forward, h.lout),
           InCreationOrder(h.layers), InCreationOrder(h.lin), InCreationOrder(h.lout)
    PROVE  d = h
  <1>1. /\ h.layers \in Seq(Layer) /\ h.lin \in Seq(Layer) /\ h.lout \in Seq(Layer)
        /\ h.forward \in Seq(Layer) /\ h.backward \in Seq(Layer)
        /\ d.layers \in Seq(Layer) /\ d.lin \in Seq(Layer) /\ d.lout \in Seq(Layer)
        /\ d.forward \in Seq(Layer) /\ d.backward \in Seq(Layer)
    BY DEF BuiltNet
  <1>2. /\ Elements(h.forward) = Elements(h.layers) /\ Elements(h.backward) = Elements(h.layers)
        /\ Elements(d.forward) = Elements(d.layers) /\ Elements(d.backward) = Elements(d.layers)
    BY DEF SortedNet, Sorts
  <1>3. h.forward = h.layers
    <2>1. SortOf("fts", h.layers, h.layers)
      BY <1>1, CreationIsSorted
    <2>2. SortOf("fts", h.layers, h.forward)
      BY DEF BuiltFrom
    <2> QED
      BY <1>1, <1>2, <2>1, <2>2, OneSort
  <1>4. PICK c \in Seq(Layer) : /\ CollectedFrom(AllCreated, h.lin, h.lout, c)
                                /\ SortOf("sort", c, h.layers) /\ Elements(h.layers) = Elements(c)
    BY DEF BuiltFrom, OrderedFrom
  <1>5. PICK f \in Seq(Layer), b \in Seq(Layer) :
            /\ WalkOf(Succ(AllCreated, h.lout), h.lin, <<>>, f)
            /\ WalkOf(Pred(AllCreated), h.lout, <<>>, b)
            /\ c = f \o Kept(b, Elements(b) \ Elements(f))
    BY <1>4 DEF CollectedFrom
  <1>6. Elements(h.layers) = Elements(f) \cup Elements(b)
    BY <1>4, <1>5, CollectedElements
  <1>7. /\ Closed(Succ(AllCreated, h.lout), h.lin, <<>>, f)
        /\ Closed(Pred(AllCreated), h.lout, <<>>, b)
    BY <1>5 DEF WalkOf
  <1>8. /\ Elements(<<>>) = {} /\ Elements(h.lin) \subseteq Elements(h.layers)
        /\ Elements(h.lout) \subseteq Elements(h.layers)
    <2>1. Elements(<<>>) = {}
      BY DEF Elements
    <2> QED
      BY <1>6, <1>7, <2>1 DEF Closed
  <1>9. ASSUME NEW s \in Seq(Layer), InCreationOrder(s), Elements(s) \subseteq Elements(h.layers)
        PROVE  Among(h.forward, s) = s
    <2>1. s \in Seq(Nat) /\ h.layers \in Seq(Nat)
      BY <1>1, LayersAreNaturals
    <2>2. PICK r \in Seq(Nat) : r = Kept(h.layers, Elements(s))
      BY <2>1, KeptType
    <2>3. InCreationOrder(r)
      BY <2>1, <2>2, KeptInOrder
    <2>4. Elements(r) = Elements(h.layers) \cap Elements(s)
      BY <2>1, <2>2, KeptElements
    <2>5. Elements(r) = Elements(s)
      BY <1>9, <2>4
    <2>6. r = s
      BY <1>9, <2>1, <2>3, <2>5, OneOrder
    <2> QED
      BY <1>3, <2>2, <2>6 DEF Among
  <1>10. d.lin = h.lin /\ d.lout = h.lout
    BY <1>1, <1>8, <1>9
  <1>11. PICK e \in Seq(Layer) : /\ CollectedFrom(h.layers, h.lin, h.lout, e)
                                 /\ SortOf("sort", e, d.layers) /\ Elements(d.layers) = Elements(e)
    BY <1>3, <1>10 DEF BuiltFrom, OrderedFrom
  <1>12. PICK f2 \in Seq(Layer), b2 \in Seq(Layer) :
            /\ WalkOf(Succ(h.layers, h.lout), h.lin, <<>>, f2)
            /\ WalkOf(Pred(h.layers), h.lout, <<>>, b2)
            /\ e = f2 \o Kept(b2, Elements(b2) \ Elements(f2))
    BY <1>11 DEF CollectedFrom
  <1>13. f2 = f
    <2>1. ASSUME NEW l \in Elements(f)
          PROVE  Succ(AllCreated, h.lout)[l] = Succ(h.layers, h.lout)[l]
      <3>1. l \in Layer
        BY DEF Elements
      <3>2. Elements(Succ(AllCreated, h.lout)[l]) \subseteq Elements(h.layers)
        BY <1>6, <1>7, <1>8 DEF Closed
      <3> QED
        BY <1>1, <3>1, <3>2, SameChildren
    <2> QED
      BY <1>5, <1>12, <2>1, OneWalk
  <1>14. b2 = b
    <2>1. ASSUME NEW l \in Elements(b) PROVE Pred(AllCreated)[l] = Pred(h.layers)[l]
      <3>1. l \in Layer
        BY DEF Elements
      <3>2. Elements(Pred(AllCreated)[l]) \subseteq Elements(h.layers)
        BY <1>6, <1>7, <1>8 DEF Closed
      <3> QED
        BY <1>1, <3>1, <3>2, SameParents
    <2> QED
      BY <1>5, <1>12, <2>1, OneWalk
  <1>15. e = c
    BY <1>5, <1>12, <1>13, <1>14
  <1>16. d.layers = h.layers
    BY <1>1, <1>4, <1>11, <1>15, OneSort
  <1>17. d.forward = h.forward
    <2>1. SortOf("fts", h.layers, h.forward) /\ SortOf("fts", h.layers, d.forward)
      BY <1>16 DEF BuiltFrom
    <2>2. Elements(h.layers) \subseteq Elements(h.forward) /\ Elements(h.layers) \subseteq Elements(d.forward)
      BY <1>2, <1>16
    <2>3. PICK ls \in Seq(Layer), o \in Seq(Layer), q \in Seq(Layer) :
              ls = h.layers /\ o = h.forward /\ q = d.forward
      BY <1>1
    <2>4. SortOf("fts", ls, o) /\ SortOf("fts", ls, q)
      BY <2>1, <2>3
    <2>5. Elements(ls) \subseteq Elements(o) /\ Elements(ls) \subseteq Elements(q)
      BY <2>2, <2>3
    <2>6. o = q
      BY <2>4, <2>5, OneSort
    <2> QED
      BY <2>3, <2>6
  <1>18. d.backward = h.backward
    <2>1. SortOf("bts", h.layers, h.backward) /\ SortOf("bts", h.layers, d.backward)
      BY <1>16 DEF BuiltFrom
    <2>2. Elements(h.layers) \subseteq Elements(h.backward) /\ Elements(h.layers) \subseteq Elements(d.backward)
      BY <1>2, <1>16
    <2>3. PICK ls \in Seq(Layer), o \in Seq(Layer), q \in Seq(Layer) :
              ls = h.layers /\ o = h.backward /\ q = d.backward
      BY <1>1
    <2>4. SortOf("bts", ls, o) /\ SortOf("bts", ls, q)
      BY <2>1, <2>3
    <2>5. Elements(ls) \subseteq Elements(o) /\ Elements(ls) \subseteq Elements(q)
      BY <2>2, <2>3
    <2>6. o = q
      BY <2>4, <2>5, OneSort
    <2> QED
      BY <2>3, <2>6
  <1>19. \A n \in BuiltNet : n = [layers |-> n.layers, lin |-> n.lin, lout |-> n.lout,
                                 forward |-> n.forward, backward |-> n.backward]
    BY DEF BuiltNet
  <1> QED
    BY <1>10, <1>16, <1>17, <1>18, <1>19

-----------------------------------------------------------------------------
\* How far the net being built has come.
StartPast ==
    /\ phase = "model" => twin = NoNet
    /\ phase \notin {"walk", "walk_back"} => front = <<>>
    /\ phase # "walk_back" => back = <<>>

WalkPast ==
    /\ phase = "walk" => WalkOf(Succ(Created, ends.out), ends.in, stack, front)
    /\ phase = "walk_back" => /\ WalkOf(Succ(Created, ends.out), ends.in, <<>>, front)
                              /\ WalkOf(Pred(Created), ends.out, stack, back)

SortPast ==
    /\ phase = "sort" => /\ CollectedFrom(Created, ends.in, ends.out, layers)
                         /\ SortOf("sort", layers, order)
    /\ phase = "fts" => /\ OrderedFrom(Created, ends.in, ends.out, layers)
                        /\ SortOf("fts", layers, order)
    /\ phase = "bts" => /\ OrderedFrom(Created, ends.in, ends.out, layers)
                        /\ SortOf("fts", layers, forward) /\ SortOf("bts", layers, order)

TwinPast ==
    twin # NoNet => /\ BuiltFrom(AllCreated, twin)
                    /\ ends.in = Among(twin.forward, twin.lin)
                    /\ ends.out = Among(twin.forward, twin.lout)

PastInv == StartPast /\ WalkPast /\ SortPast /\ TwinPast

LEMMA SamePast ==
    ASSUME arch' = arch
    PROVE  /\ Succ(Created, ends.out)' = Succ(Created', ends'.out)
           /\ Pred(Created)' = Pred(Created') /\ AllCreated' = AllCreated
  BY DEF Succ, Pred, Layer, AllCreated

LEMMA SameSortOf ==
    ASSUME arch' = arch, NEW p
    PROVE  /\ SortOf(p, layers, order)' <=> SortOf(p, layers', order')
           /\ SortOf(p, layers, forward)' <=> SortOf(p, layers', forward')
  BY SameArch DEF SortOf, Comes, Free, Prior, Waits, Before, After, Parent, Child

LEMMA SameCollected ==
    ASSUME arch' = arch
    PROVE  CollectedFrom(Created, ends.in, ends.out, layers)'
               <=> CollectedFrom(Created', ends'.in, ends'.out, layers')
  BY SamePast, SameArch DEF CollectedFrom

LEMMA SameOrdered ==
    ASSUME arch' = arch
    PROVE  OrderedFrom(Created, ends.in, ends.out, layers)'
               <=> OrderedFrom(Created', ends'.in, ends'.out, layers')
  <1>1. \A c : CollectedFrom(Created, ends.in, ends.out, c)'
                   <=> CollectedFrom(Created', ends'.in, ends'.out, c)
    BY SamePast, SameArch DEF CollectedFrom
  <1>2. \A c : SortOf("sort", c, layers)' <=> SortOf("sort", c, layers')
    BY SameArch DEF SortOf, Comes, Free, Prior, Waits, Before, After, Parent, Child
  <1> QED
    BY <1>1, <1>2, SameArch DEF OrderedFrom

LEMMA BuiltAgain ==
    ASSUME arch' = arch
    PROVE  BuiltFrom(AllCreated, twin)' <=> BuiltFrom(AllCreated, twin')
  <1>1. /\ Succ(AllCreated, twin.lout)' = Succ(AllCreated, twin'.lout)
        /\ Pred(AllCreated)' = Pred(AllCreated)
    BY DEF Succ, Pred, Layer, AllCreated
  <1>2. \A c : CollectedFrom(AllCreated, twin.lin, twin.lout, c)'
                   <=> CollectedFrom(AllCreated, twin'.lin, twin'.lout, c)
    BY <1>1, SameArch DEF CollectedFrom
  <1>3. \A c : SortOf("sort", c, twin.layers)' <=> SortOf("sort", c, twin'.layers)
    BY SameArch DEF SortOf, Comes, Free, Prior, Waits, Before, After, Parent, Child
  <1>4. OrderedFrom(AllCreated, twin.lin, twin.lout, twin.layers)'
            <=> OrderedFrom(AllCreated, twin'.lin, twin'.lout, twin'.layers)
    BY <1>2, <1>3, SameArch DEF OrderedFrom
  <1>5. /\ SortOf("fts", twin.layers, twin.forward)' <=> SortOf("fts", twin'.layers, twin'.forward)
        /\ SortOf("bts", twin.layers, twin.backward)'
               <=> SortOf("bts", twin'.layers, twin'.backward)
    BY SameArch DEF SortOf, Comes, Free, Prior, Waits, Before, After, Parent, Child
  <1> QED
    BY <1>4, <1>5 DEF BuiltFrom

\* The twin is the same, and with it the layers that there are.
LEMMA TwinKept ==
    ASSUME UNCHANGED <<arch, twin, ends>>, TwinPast
    PROVE  TwinPast' /\ Created' = Created
  <1>1. Created' = Created
    BY DEF Created, Layer
  <1> QED
    BY <1>1, BuiltAgain DEF TwinPast

LEMMA StartModelPast == ASSUME GraphInv, PastInv, StartModel PROVE PastInv'
  <1>1. /\ phase = "model" /\ phase' = "walk" /\ twin' = twin /\ arch' = arch
        /\ ends'.in = stack' /\ UNCHANGED <<front, back>>
    BY DEF StartModel
  <1>2. twin' = NoNet /\ front' = <<>> /\ back' = <<>>
    BY <1>1 DEF PastInv, StartPast
  <1>3. stack' \in Seq(Nat)
    <2>1. GraphInv'
      BY WalkingInv
    <2>2. stack' \in Seq(Layer)
      BY <1>1, <2>1, SameArch DEF GraphInv, WalkType
    <2> QED
      BY <2>2, LayersAreNaturals DEF GraphInv
  <1>4. StartPast' /\ SortPast' /\ TwinPast'
    BY <1>1, <1>2 DEF StartPast, SortPast, TwinPast
  <1>5. WalkOf(Succ(Created, ends.out)', ends'.in, stack', front')
    BY <1>1, <1>2, <1>3, WalkBegins
  <1>6. WalkPast'
    BY <1>1, <1>5 DEF WalkPast
  <1> QED
    BY <1>4, <1>6 DEF PastInv

LEMMA WalkPastKept == ASSUME GraphInv, PastInv, Walk PROVE PastInv'
  <1>1. /\ phase = "walk" /\ stack # <<>> /\ UNCHANGED <<arch, phase, twin, ends, back>>
        /\ IF Head(stack) \in Elements(front)
           THEN stack' = Tail(stack) /\ front' = front
           ELSE stack' = WalkTo(Head(stack)) \o Tail(stack) /\ front' = Append(front, Head(stack))
    BY DEF Walk
  <1>2. TwinPast' /\ Created' = Created
    BY <1>1, TwinKept DEF PastInv
  <1>3. StartPast' /\ SortPast'
    BY <1>1 DEF PastInv, StartPast, SortPast
  <1>4. PICK g : g = Succ(Created, ends.out)
    OBVIOUS
  <1>5. PICK l : l = Head(stack)
    OBVIOUS
  <1>6. l \in Layer /\ stack \in Seq(Nat) /\ front \in Seq(Nat)
    <2>1. stack \in Seq(Layer) /\ front \in Seq(Layer)
      BY DEF GraphInv, WalkType
    <2> QED
      BY <1>1, <1>5, <2>1, LayersAreNaturals DEF GraphInv
  <1>7. g[l] = WalkTo(l) /\ g[l] \in Seq(Nat)
    <2>1. g[l] = WalkTo(l)
      BY <1>4, <1>6 DEF Succ, WalkTo, Children
    <2>2. WalkTo(l) \in Seq(Layer)
      BY <1>6, WalkToType
    <2> QED
      BY <2>1, <2>2, LayersAreNaturals DEF GraphInv
  <1>8. WalkOf(g, ends.in, stack, front)
    BY <1>1, <1>4 DEF PastInv, WalkPast
  <1>9. WalkOf(g, ends.in, stack', front')
    <2>1. CASE l \in Elements(front)
      BY <1>1, <1>5, <1>6, <1>8, <2>1, WalkReturns
    <2>2. CASE l \notin Elements(front)
      BY <1>1, <1>5, <1>6, <1>7, <1>8, <2>2, WalkGoesOn
    <2> QED
      BY <2>1, <2>2
  <1>10. Succ(Created, ends.out)' = g
    BY <1>1, <1>2, <1>4, SamePast
  <1>11. WalkPast'
    BY <1>1, <1>9, <1>10 DEF WalkPast
  <1> QED
    BY <1>2, <1>3, <1>11 DEF PastInv

LEMMA TurnBackPast == ASSUME GraphInv, PastInv, TurnBack PROVE PastInv'
  <1>1. /\ phase = "walk" /\ stack = <<>> /\ phase' = "walk_back" /\ stack' = ends.out
        /\ UNCHANGED <<arch, twin, ends, front, back>>
    BY DEF TurnBack
  <1>2. TwinPast' /\ Created' = Created
    BY <1>1, TwinKept DEF PastInv
  <1>3. StartPast' /\ SortPast' /\ back = <<>>
    BY <1>1 DEF PastInv, StartPast, SortPast
  <1>4. WalkOf(Succ(Created, ends.out), ends.in, <<>>, front)
    BY <1>1 DEF PastInv, WalkPast
  <1>5. ends.out \in Seq(Nat)
    <2>1. ends.out \in Seq(Layer)
      BY DEF GraphInv, WalkType
    <2> QED
      BY <2>1, LayersAreNaturals DEF GraphInv
  <1>6. WalkOf(Pred(Created), ends.out, ends.out, <<>>)
    BY <1>5, WalkBegins
  <1>7. Succ(Created, ends.out)' = Succ(Created, ends.out) /\ Pred(Created)' = Pred(Created)
    BY <1>1, <1>2, SamePast
  <1>8. WalkPast'
    BY <1>1, <1>3, <1>4, <1>6, <1>7 DEF WalkPast
  <1> QED
    BY <1>2, <1>3, <1>8 DEF PastInv

LEMMA WalkBackPast == ASSUME GraphInv, PastInv, WalkBack PROVE PastInv'
  <1>1. /\ phase = "walk_back" /\ stack # <<>> /\ UNCHANGED <<arch, phase, twin, ends, front>>
        /\ IF Head(stack) \in Elements(back)
           THEN stack' = Tail(stack) /\ back' = back
           ELSE stack' = Parents(Head(stack)) \o Tail(stack) /\ back' = Append(back, Head(stack))
    BY DEF WalkBack
  <1>2. TwinPast' /\ Created' = Created
    BY <1>1, TwinKept DEF PastInv
  <1>3. StartPast' /\ SortPast'
    BY <1>1 DEF PastInv, StartPast, SortPast
  <1>4. PICK g : g = Pred(Created)
    OBVIOUS
  <1>5. PICK l : l = Head(stack)
    OBVIOUS
  <1>6. l \in Layer /\ stack \in Seq(Nat) /\ back \in Seq(Nat)
    <2>1. stack \in Seq(Layer) /\ back \in Seq(Layer)
      BY DEF GraphInv, WalkType
    <2> QED
      BY <1>1, <1>5, <2>1, LayersAreNaturals DEF GraphInv
  <1>7. g[l] = Parents(l) /\ g[l] \in Seq(Nat)
    <2>1. g[l] = Parents(l)
      BY <1>4, <1>6 DEF Pred, Parents
    <2>2. Parents(l) \in Seq(Layer)
      BY <1>6, WalkToType
    <2> QED
      BY <2>1, <2>2, LayersAreNaturals DEF GraphInv
  <1>8. /\ WalkOf(g, ends.out, stack, back)
        /\ WalkOf(Succ(Created, ends.out), ends.in, <<>>, front)
    BY <1>1, <1>4 DEF PastInv, WalkPast
  <1>9. WalkOf(g, ends.out, stack', back')
    <2>1. CASE l \in Elements(back)
      BY <1>1, <1>5, <1>6, <1>8, <2>1, WalkReturns
    <2>2. CASE l \notin Elements(back)
      BY <1>1, <1>5, <1>6, <1>7, <1>8, <2>2, WalkGoesOn
    <2> QED
      BY <2>1, <2>2
  <1>10. Pred(Created)' = g /\ Succ(Created, ends.out)' = Succ(Created, ends.out)
    BY <1>1, <1>2, <1>4, SamePast
  <1>11. WalkPast'
    BY <1>1, <1>8, <1>9, <1>10 DEF WalkPast
  <1> QED
    BY <1>2, <1>3, <1>11 DEF PastInv

LEMMA CollectPast == ASSUME GraphInv, PastInv, Collect PROVE PastInv'
  <1>1. /\ phase = "walk_back" /\ stack = <<>> /\ phase' = "sort" /\ layers' = Collected
        /\ order' = <<>> /\ front' = <<>> /\ back' = <<>> /\ UNCHANGED <<arch, twin, ends>>
    BY DEF Collect, BeginSort
  <1>2. TwinPast' /\ Created' = Created
    BY <1>1, TwinKept DEF PastInv
  <1>3. StartPast' /\ WalkPast'
    BY <1>1 DEF StartPast, WalkPast
  <1>4. front \in Seq(Layer) /\ back \in Seq(Layer)
    BY DEF GraphInv, WalkType
  <1>5. CollectedFrom(Created, ends.in, ends.out, layers')
    BY <1>1, <1>4 DEF PastInv, WalkPast, CollectedFrom, Collected
  <1>6. CollectedFrom(Created, ends.in, ends.out, layers)'
    BY <1>1, <1>2, <1>5, SameCollected
  <1>7. SortOf("sort", layers, order)'
    <2>1. SortOf("sort", layers', <<>>)
      BY SortBegins
    <2> QED
      BY <1>1, <2>1, SameSortOf
  <1>8. SortPast'
    BY <1>1, <1>6, <1>7 DEF SortPast
  <1> QED
    BY <1>2, <1>3, <1>8 DEF PastInv

LEMMA VisitPast == ASSUME GraphInv, PastInv, Visit PROVE PastInv'
  <1>1. PICK l : /\ order' = Append(order, l) /\ Comes(phase, layers, Elements(order), l)
                 /\ phase' = phase
    BY VisitComes
  <1>2. /\ phase \in Sorting
        /\ UNCHANGED <<arch, twin, ends, front, back, layers, forward>>
    BY DEF Visit, walkVars
  <1>3. TwinPast' /\ Created' = Created
    BY <1>2, TwinKept DEF PastInv
  <1>4. StartPast' /\ WalkPast'
    BY <1>1, <1>2 DEF PastInv, StartPast, WalkPast, Sorting
  <1>5. layers \in Seq(Layer) /\ order \in Seq(Layer)
    BY DEF GraphInv, SortType
  <1>6. ASSUME NEW p, p = phase, SortOf(p, layers, order) PROVE SortOf(p, layers, order)'
    <2>1. SortOf(p, layers, Append(order, l))
      BY <1>1, <1>5, <1>6, SortGoesOn
    <2> QED
      BY <1>1, <1>2, <2>1, SameSortOf
  <1>7. /\ CollectedFrom(Created, ends.in, ends.out, layers)
               => CollectedFrom(Created, ends.in, ends.out, layers)'
        /\ OrderedFrom(Created, ends.in, ends.out, layers)
               => OrderedFrom(Created, ends.in, ends.out, layers)'
        /\ SortOf("fts", layers, forward) => SortOf("fts", layers, forward)'
    BY <1>2, <1>3, SameCollected, SameOrdered, SameSortOf
  <1>8. SortPast'
    BY <1>1, <1>6, <1>7 DEF PastInv, SortPast
  <1> QED
    BY <1>3, <1>4, <1>8 DEF PastInv

\* All the layers have been visited.
LEMMA VisitedAll ==
    ASSUME GraphInv, phase \in Sorting, Unvisited = {}
    PROVE  Elements(order) = Elements(layers)
  BY DEF GraphInv, VisitInv, SortedSoFar, Unvisited

LEMMA ResortPast == ASSUME GraphInv, PastInv, Resort PROVE PastInv'
  <1>1. /\ phase = "sort" /\ Unvisited = {} /\ phase' = "fts" /\ layers' = order
        /\ order' = <<>> /\ UNCHANGED <<arch, twin, ends, front, back>>
    BY DEF Resort, BeginSort, walkVars
  <1>2. TwinPast' /\ Created' = Created
    BY <1>1, TwinKept DEF PastInv
  <1>3. StartPast' /\ WalkPast'
    BY <1>1 DEF PastInv, StartPast, WalkPast
  <1>4. layers \in Seq(Layer) /\ Elements(order) = Elements(layers)
    BY <1>1, VisitedAll DEF GraphInv, SortType, Sorting
  <1>5. OrderedFrom(Created, ends.in, ends.out, order)
    BY <1>1, <1>4 DEF PastInv, SortPast, OrderedFrom
  <1>6. OrderedFrom(Created, ends.in, ends.out, layers)'
    BY <1>1, <1>2, <1>5, SameOrdered
  <1>7. SortOf("fts", layers, order)'
    <2>1. SortOf("fts", layers', <<>>)
      BY SortBegins
    <2> QED
      BY <1>1, <2>1, SameSortOf
  <1>8. SortPast'
    BY <1>1, <1>6, <1>7 DEF SortPast
  <1> QED
    BY <1>2, <1>3, <1>8 DEF PastInv

LEMMA SortedForwardPast == ASSUME GraphInv, PastInv, SortedForward PROVE PastInv'
  <1>1. /\ phase = "fts" /\ phase' = "bts" /\ layers' = layers /\ forward' = order
        /\ order' = <<>> /\ UNCHANGED <<arch, twin, ends, front, back>>
    BY DEF SortedForward, BeginSort, walkVars
  <1>2. TwinPast' /\ Created' = Created
    BY <1>1, TwinKept DEF PastInv
  <1>3. StartPast' /\ WalkPast'
    BY <1>1 DEF PastInv, StartPast, WalkPast
  <1>4. OrderedFrom(Created, ends.in, ends.out, layers) /\ SortOf("fts", layers, order)
    BY <1>1 DEF PastInv, SortPast
  <1>5. OrderedFrom(Created, ends.in, ends.out, layers)'
    BY <1>1, <1>2, <1>4, SameOrdered
  <1>6. SortOf("fts", layers, forward)'
    BY <1>1, <1>4, SameSortOf
  <1>7. SortOf("bts", layers, order)'
    <2>1. SortOf("bts", layers', <<>>)
      BY SortBegins
    <2> QED
      BY <1>1, <2>1, SameSortOf
  <1>8. SortPast'
    BY <1>1, <1>5, <1>6, <1>7 DEF SortPast
  <1> QED
    BY <1>2, <1>3, <1>8 DEF PastInv

\* What there is then of a net comes of the layers it was built from.
LEMMA FinishedPast ==
    ASSUME PastInv, phase = "bts"
    PROVE  BuiltFrom(Created, Finished)
  <1>1. /\ OrderedFrom(Created, ends.in, ends.out, layers)
        /\ SortOf("fts", layers, forward) /\ SortOf("bts", layers, order)
    BY DEF PastInv, SortPast
  <1>2. /\ Finished.layers = layers /\ Finished.lin = ends.in /\ Finished.lout = ends.out
        /\ Finished.forward = forward /\ Finished.backward = order
    BY DEF Finished
  <1> QED
    BY <1>1, <1>2 DEF BuiltFrom

LEMMA SplitPast == ASSUME GraphInv, PastInv, Split PROVE PastInv'
  <1>1. /\ phase = "bts" /\ twin = NoNet /\ twin' = Finished /\ phase' = "walk"
        /\ stack' = Among(forward, ends.in) /\ ends'.in = Among(forward, ends.in)
        /\ ends'.out = Among(forward, ends.out) /\ UNCHANGED <<arch, front, back>>
    BY DEF Split
  <1>2. front' = <<>> /\ back' = <<>>
    BY <1>1 DEF PastInv, StartPast
  <1>3. StartPast' /\ SortPast'
    BY <1>1, <1>2 DEF StartPast, SortPast
  <1>4. stack' \in Seq(Nat)
    <2>1. Among(forward, ends.in) \in Seq(Layer)
      BY KeptType DEF Among, GraphInv, SortType
    <2> QED
      BY <1>1, <2>1, LayersAreNaturals DEF GraphInv
  <1>5. WalkPast'
    <2>1. WalkOf(Succ(Created, ends.out)', ends'.in, stack', front')
      BY <1>1, <1>2, <1>4, WalkBegins
    <2> QED
      BY <1>1, <2>1 DEF WalkPast
  <1>6. TwinPast'
    <2>1. BuiltFrom(AllCreated, Finished)
      BY <1>1, FinishedPast DEF Created, AllCreated
    <2>2. BuiltFrom(AllCreated, twin)' <=> BuiltFrom(AllCreated, twin')
      BY <1>1, BuiltAgain
    <2>3. Finished.lin = ends.in /\ Finished.lout = ends.out /\ Finished.forward = forward
      BY DEF Finished
    <2> QED
      BY <1>1, <2>1, <2>2, <2>3 DEF TwinPast
  <1> QED
    BY <1>3, <1>5, <1>6 DEF PastInv

LEMMA BuiltPast == ASSUME GraphInv, PastInv, Built PROVE PastInv'
  <1>1. /\ phase = "bts" /\ phase' \in {"built", "model"} /\ twin' = NoNet
        /\ UNCHANGED <<front, back>>
    BY DEF Built, Idle
  <1> QED
    BY <1>1 DEF PastInv, StartPast, WalkPast, SortPast, TwinPast

LEMMA GraphStepPast == ASSUME GraphInv, PastInv, GraphStep PROVE PastInv'
  BY StartModelPast, WalkPastKept, TurnBackPast, WalkBackPast, CollectPast, VisitPast,
     ResortPast, SortedForwardPast, SplitPast, BuiltPast DEF GraphStep

\* A finished twin is its net again.
LEMMA BuiltTwins == ASSUME GraphInv, PastInv, TwinsMatch, Built PROVE TwinsMatch'
  <1>1. /\ phase = "bts" /\ Unvisited = {}
        /\ nets' = Append(nets, [host |-> IF twin = NoNet THEN Finished ELSE twin,
                                 device |-> Finished])
    BY DEF Built
  <1>2. PICK h : h = IF twin = NoNet THEN Finished ELSE twin
    OBVIOUS
  <1>3. PICK d \in BuiltNet : d = Finished /\ SortedNet(d)
    BY <1>1, FinishedIsSorted
  <1>4. ASSUME InCreationOrder(h.layers), InCreationOrder(h.lin), InCreationOrder(h.lout)
        PROVE  d = h
    <2>1. CASE twin = NoNet
      BY <1>2, <1>3, <2>1
    <2>2. CASE twin # NoNet
      <3>1. h = twin /\ h \in BuiltNet /\ SortedNet(h)
        BY <1>2, <2>2 DEF GraphInv, NetsInv
      <3>2. /\ BuiltFrom(AllCreated, h) /\ ends.in = Among(h.forward, h.lin)
            /\ ends.out = Among(h.forward, h.lout)
        BY <2>2, <3>1 DEF PastInv, TwinPast
      <3>3. d.lin = ends.in /\ d.lout = ends.out
        BY <1>3 DEF Finished
      <3>4. BuiltFrom(h.forward, d)
        <4>1. BuiltFrom(Created, Finished)
          BY <1>1, FinishedPast
        <4>2. Created = h.forward
          BY <2>2, <3>1 DEF Created
        <4> QED
          BY <1>3, <4>1, <4>2
      <3>5. d.lin = Among(h.forward, h.lin) /\ d.lout = Among(h.forward, h.lout)
        BY <3>2, <3>3
      <3> QED
        BY <1>3, <1>4, <3>1, <3>2, <3>4, <3>5, SameNet DEF GraphInv
    <2> QED
      BY <2>1, <2>2
  <1>5. nets' = Append(nets, [host |-> h, device |-> d])
    BY <1>1, <1>2, <1>3
  <1>6. nets \in Seq([host : BuiltNet, device : BuiltNet])
    BY DEF GraphInv, NetsInv
  <1>7. \A i \in DOMAIN nets' :
            \/ i \in DOMAIN nets /\ nets'[i] = nets[i]
            \/ nets'[i] = [host |-> h, device |-> d]
    BY <1>5, <1>6
  <1>8. ASSUME NEW i \in DOMAIN nets',
               InCreationOrder(nets'[i].host.layers), InCreationOrder(nets'[i].host.lin),
               InCreationOrder(nets'[i].host.lout)
        PROVE  nets'[i].device = nets'[i].host
    <2>1. CASE i \in DOMAIN nets /\ nets'[i] = nets[i]
      BY <1>8, <2>1 DEF TwinsMatch
    <2>2. CASE nets'[i] = [host |-> h, device |-> d]
      BY <1>4, <1>8, <2>2
    <2> QED
      BY <1>7, <2>1, <2>2
  <1> QED
    BY <1>8 DEF TwinsMatch

LEMMA SpecPastInv == Spec => [](PastInv /\ TwinsMatch)
  <1>1. Init => PastInv /\ TwinsMatch
    <2> SUFFICES ASSUME Init PROVE PastInv /\ TwinsMatch
      OBVIOUS
    <2>1. /\ phase = "model" /\ twin = NoNet /\ front = <<>> /\ back = <<>> /\ nets = <<>>
      BY DEF Init, GraphInit
    <2>2. DOMAIN nets = {}
      BY <2>1
    <2> QED
      BY <2>1, <2>2 DEF PastInv, StartPast, WalkPast, SortPast, TwinPast, TwinsMatch
  <1>2. ProgramInv /\ PastInv /\ TwinsMatch /\ [Next]_vars => PastInv' /\ TwinsMatch'
    <2> SUFFICES ASSUME ProgramInv, PastInv, TwinsMatch, [Next]_vars
                 PROVE  PastInv' /\ TwinsMatch'
      OBVIOUS
    <2>1. CASE Build
      <3>1. GraphStep /\ GraphInv
        <4>1. GraphStep
          BY <2>1 DEF Build
        <4>2. phase # "crashed"
          BY <4>1 DEF GraphStep, StartModel, Walk, TurnBack, WalkBack, Collect, Visit, Resort,
                      SortedForward, Split, Built, Sorting
        <4> QED
          BY <4>1, <4>2 DEF ProgramInv
      <3>2. CASE Built
        BY <3>1, <3>2, BuiltTwins, GraphStepPast
      <3>3. CASE ~ Built
        <4>1. nets' = nets
          BY <3>1, <3>3 DEF GraphStep, StartModel, Walk, TurnBack, WalkBack, Collect, Visit,
                            Resort, SortedForward, Split
        <4> QED
          BY <3>1, <4>1, GraphStepPast DEF TwinsMatch
      <3> QED
        BY <3>2, <3>3
    <2>2. ASSUME GraphKept, phase' = phase \/ (phase = "built" /\ phase' \in {"built", "crashed"})
          PROVE  PastInv' /\ TwinsMatch'
      <3>1. UNCHANGED <<arch, nets, twin, ends, stack, front, back, layers, count, order,
                        forward>>
        BY <2>2 DEF GraphKept
      <3>2. TwinPast' /\ Created' = Created
        BY <3>1, TwinKept DEF PastInv
      <3>3. StartPast'
        BY <2>2, <3>1 DEF PastInv, StartPast
      <3>4. WalkPast'
        BY <2>2, <3>1, <3>2, SamePast DEF PastInv, WalkPast
      <3>5. SortPast'
        BY <2>2, <3>1, <3>2, SameSortOf, SameCollected, SameOrdered DEF PastInv, SortPast
      <3> QED
        BY <3>1, <3>2, <3>3, <3>4, <3>5 DEF PastInv, TwinsMatch
    <2>3. CASE Next /\ ~ Build
      BY <2>2, <2>3, CallsKeepGraph
    <2>4. CASE UNCHANGED vars
      <3>1. GraphKept /\ phase' = phase
        BY <2>4 DEF vars, graphVars, buildVars, walkVars, sortVars, GraphKept
      <3> QED
        BY <2>2, <3>1
    <2> QED
      BY <2>1, <2>3, <2>4
  <1> QED
    BY <1>1, <1>2, SpecProgramInv, PTL DEF Spec

\* A net on several devices: when its layers were created in the order of its
\* forward sort and its inputs and outputs are listed in that order, the net that
\* split() makes of their clones has the same layers, inputs, outputs and sorts at
\* the same positions, however the layers are linked; so layers[j] and its clone
\* find each other.
THEOREM TwinsAlwaysMatch == Spec => []TwinsMatch
  BY SpecPastInv, PTL

-----------------------------------------------------------------------------
(* Counting and folding.                                                    *)

\* A set of numbers with 0 and with the successor of each of its members.
LEMMA CountUp ==
    ASSUME NEW B, 0 \in B, \A k \in Nat : k \in B => k + 1 \in B
    PROVE  \A k \in Nat : k \in B
  <1> DEFINE Bad == {k \in Nat : k \notin B}
  <1>1. SUFFICES ASSUME Bad # {} PROVE FALSE
    OBVIOUS
  <1>2. PICK k \in Bad : \A m \in Bad : k <= m
    <2>1. Bad \in SUBSET Nat
      OBVIOUS
    <2> HIDE DEF Bad
    <2> QED
      BY <1>1, <2>1, LeastOfNaturals
  <1>3. k # 0 /\ k \in Nat
    BY <1>2
  <1>4. k - 1 \in Nat /\ k - 1 \notin Bad
    BY <1>2, <1>3
  <1>5. (k - 1) + 1 \in B
    BY <1>4
  <1> QED
    BY <1>2, <1>3, <1>5

LEMMA GreatestOfFirst ==
    ASSUME NEW k \in Nat, k # 0, NEW s \in SUBSET (1 .. k), k \in s
    PROVE  Max(s) = k
  <1>1. k \in s /\ \A y \in s : k >= y
    OBVIOUS
  <1>2. \A x \in s : (\A y \in s : x >= y) => x = k
    OBVIOUS
  <1> QED
    BY <1>1, <1>2 DEF Max

\* f is the function that FoldLeft() defines for n elements, from b; G gives what
\* an element makes of what there is.
FoldOf(f, n, b, G) ==
    \A s \in SUBSET (1 .. n) :
        f[s] = IF s = {} THEN b ELSE G[<<f[s \ {Max(s)}], Max(s)>>]

LEMMA FoldExists ==
    ASSUME NEW S, NEW n \in Nat, NEW b \in S, NEW G \in [S \X (1 .. n) -> S]
    PROVE  \E f \in [SUBSET (1 .. n) -> S] : FoldOf(f, n, b, G)
  <1> DEFINE Upto(k) == \E f \in [SUBSET (1 .. k) -> S] : FoldOf(f, k, b, G)
  <1>1. Upto(0)
    <2> DEFINE f == [s \in SUBSET (1 .. 0) |-> b]
    <2>1. \A s \in SUBSET (1 .. 0) : s = {}
      OBVIOUS
    <2>2. f \in [SUBSET (1 .. 0) -> S]
      OBVIOUS
    <2>3. \A s \in SUBSET (1 .. 0) : f[s] = b
      OBVIOUS
    <2> HIDE DEF f
    <2>4. FoldOf(f, 0, b, G)
      BY <2>1, <2>3 DEF FoldOf
    <2> QED
      BY <2>2, <2>4
  <1>2. ASSUME NEW k \in Nat, k + 1 <= n, Upto(k) PROVE Upto(k + 1)
    <2>1. PICK f \in [SUBSET (1 .. k) -> S] : FoldOf(f, k, b, G)
      BY <1>2
    <2> DEFINE h == [s \in SUBSET (1 .. k + 1) |->
                        IF k + 1 \in s THEN G[<<f[s \ {k + 1}], k + 1>>] ELSE f[s]]
    <2>2. k + 1 \in 1 .. n
      BY <1>2
    <2>3. \A s \in SUBSET (1 .. k + 1) : s \ {k + 1} \in SUBSET (1 .. k)
      OBVIOUS
    <2>4. h \in [SUBSET (1 .. k + 1) -> S]
      <3> SUFFICES ASSUME NEW s \in SUBSET (1 .. k + 1) PROVE h[s] \in S
        OBVIOUS
      <3>1. f[s \ {k + 1}] \in S
        BY <2>3
      <3>2. CASE k + 1 \in s
        BY <2>2, <3>1, <3>2
      <3>3. CASE k + 1 \notin s
        <4>1. s \in SUBSET (1 .. k)
          BY <3>3
        <4> QED
          BY <3>3, <4>1
      <3> QED
        BY <3>2, <3>3
    <2>5. \A s \in SUBSET (1 .. k) : h[s] = f[s]
      <3> SUFFICES ASSUME NEW s \in SUBSET (1 .. k) PROVE h[s] = f[s]
        OBVIOUS
      <3>1. k + 1 \notin s /\ s \in SUBSET (1 .. k + 1)
        OBVIOUS
      <3> QED
        BY <3>1
    <2>6. ASSUME NEW s \in SUBSET (1 .. k + 1)
          PROVE  h[s] = IF s = {} THEN b ELSE G[<<h[s \ {Max(s)}], Max(s)>>]
      <3>1. CASE k + 1 \in s
        <4>1. Max(s) = k + 1
          BY <3>1, GreatestOfFirst
        <4>2. h[s \ {k + 1}] = f[s \ {k + 1}]
          BY <2>3, <2>5
        <4>3. h[s] = G[<<f[s \ {k + 1}], k + 1>>]
          BY <3>1
        <4> HIDE DEF h
        <4> QED
          BY <3>1, <4>1, <4>2, <4>3
      <3>2. CASE k + 1 \notin s
        <4>1. s \in SUBSET (1 .. k)
          BY <3>2
        <4>2. s \ {Max(s)} \in SUBSET (1 .. k)
          BY <4>1
        <4>3. h[s] = f[s] /\ h[s \ {Max(s)}] = f[s \ {Max(s)}]
          BY <2>5, <4>1, <4>2
        <4> HIDE DEF h
        <4> QED
          BY <2>1, <4>1, <4>3 DEF FoldOf
      <3> QED
        BY <3>1, <3>2
    <2>7. FoldOf(h, k + 1, b, G)
      <3> HIDE DEF h
      <3> QED
        BY <2>6 DEF FoldOf
    <2> HIDE DEF h
    <2> QED
      BY <2>4, <2>7
  <1> HIDE DEF Upto
  <1> DEFINE B == {k \in Nat : k <= n => Upto(k)}
  <1>3. 0 \in B
    BY <1>1
  <1>4. \A k \in Nat : k \in B => k + 1 \in B
    BY <1>2
  <1> HIDE DEF B
  <1>5. n \in B
    BY <1>3, <1>4, CountUp
  <1>6. Upto(n)
    <2>1. n <= n
      OBVIOUS
    <2> QED
      BY <1>5, <2>1 DEF B
  <1> QED
    BY <1>6 DEF Upto

LEMMA FirstOnes ==
    ASSUME NEW n \in Nat, NEW k \in 1 .. n
    PROVE  /\ 1 .. k \in SUBSET (1 .. n) /\ 1 .. k # {} /\ Max(1 .. k) = k
           /\ (1 .. k) \ {k} = 1 .. k - 1 /\ k - 1 \in 0 .. n
  <1>1. k \in Nat /\ k # 0 /\ k \in 1 .. k /\ 1 .. k \in SUBSET (1 .. k)
    OBVIOUS
  <1>2. Max(1 .. k) = k
    BY <1>1, GreatestOfFirst
  <1>3. (1 .. k) \ {k} = 1 .. k - 1
    OBVIOUS
  <1> QED
    BY <1>1, <1>2, <1>3
-----------------------------------------------------------------------------
(* Deltas of views: Buffer() and NewDeltas() are recursive functions.        *)

LEMMA SameFunction ==
    ASSUME NEW S, NEW T, NEW f \in [S -> T], NEW g, g = [k \in S |-> g[k]],
           \A k \in S : f[k] = g[k]
    PROVE  f = g
  <1>1. f = [k \in S |-> f[k]]
    OBVIOUS
  <1> QED
    BY <1>1

\* In f a view's value is what G makes of its parent's; the other layers' values are in A.
ViewsOf(f, N, A, G) ==
    f = [k \in Layer |-> IF k \in N THEN G[<<k, f[arch.parent[k][1]]>>] ELSE A[k]]

LEMMA ViewFacts ==
    ASSUME arch \in Architectures, NEW k \in arch.views
    PROVE  k \in Layer /\ arch.parent[k][1] \in 1 .. k - 1
  <1>1. k \in Layer /\ Len(arch.parent[k]) = 1
    BY BackpropAssumption DEF Layer
  <1>2. arch.parent[k] \in Seq(Nat)
    BY <1>1, LayerFacts
  <1>3. 1 \in DOMAIN arch.parent[k]
    BY <1>1, <1>2
  <1> QED
    BY <1>1, <1>3, LayerFacts

LEMMA ParentOfView ==
    ASSUME arch \in Architectures, NEW k \in arch.views
    PROVE  k \in Layer /\ arch.parent[k][1] \in Layer
  BY ViewFacts, LayerFacts

LEMMA ViewsExist ==
    ASSUME arch \in Architectures, NEW S, NEW N \in SUBSET arch.views,
           NEW A \in [Layer -> S], NEW G \in [Layer \X S -> S]
    PROVE  \E f \in [Layer -> S] : ViewsOf(f, N, A, G)
  <1> DEFINE m == Len(arch.parent)
             Good(f, k) == \A j \in 1 .. k :
                 f[j] = IF j \in N THEN G[<<j, f[arch.parent[j][1]]>>] ELSE A[j]
             Upto(k) == \E f \in [1 .. k -> S] : Good(f, k)
  <1>1. m \in Nat /\ Layer = 1 .. m
    BY ArchitectureAssumption DEF Layer
  <1> HIDE DEF m
  <1>2. Upto(0)
    <2> DEFINE f == [j \in 1 .. 0 |-> A[j]]
    <2>1. f \in [1 .. 0 -> S] /\ Good(f, 0)
      OBVIOUS
    <2> QED
      BY <2>1
  <1>3. ASSUME NEW k \in Nat, k + 1 <= m, Upto(k) PROVE Upto(k + 1)
    <2>1. PICK f \in [1 .. k -> S] : Good(f, k)
      BY <1>3
    <2> DEFINE v == IF k + 1 \in N THEN G[<<k + 1, f[arch.parent[k + 1][1]]>>] ELSE A[k + 1]
               h == [j \in 1 .. k + 1 |-> IF j = k + 1 THEN v ELSE f[j]]
    <2>2. k + 1 \in Layer
      BY <1>1, <1>3
    <2>3. \A j \in N : arch.parent[j][1] \in 1 .. j - 1 /\ j \in Nat
      BY <1>1, ViewFacts
    <2>4. v \in S
      <3>1. CASE k + 1 \in N
        <4>1. arch.parent[k + 1][1] \in 1 .. k
          BY <2>3, <3>1
        <4> QED
          BY <2>2, <3>1, <4>1
      <3>2. CASE k + 1 \notin N
        BY <2>2, <3>2
      <3> QED
        BY <3>1, <3>2
    <2> HIDE DEF v
    <2>5. /\ h \in [1 .. k + 1 -> S] /\ h[k + 1] = v
          /\ \A j \in 1 .. k : h[j] = f[j]
      BY <2>4
    <2> HIDE DEF h
    <2>6. ASSUME NEW j \in 1 .. k + 1
          PROVE  h[j] = IF j \in N THEN G[<<j, h[arch.parent[j][1]]>>] ELSE A[j]
      <3>1. j \in N => arch.parent[j][1] \in 1 .. k
        BY <2>3
      <3>2. j \in N => h[arch.parent[j][1]] = f[arch.parent[j][1]]
        BY <2>5, <3>1
      <3>3. CASE j = k + 1
        BY <2>5, <3>2, <3>3 DEF v
      <3>4. CASE j \in 1 .. k
        <4>1. h[j] = f[j]
          BY <2>5, <3>4
        <4> QED
          BY <2>1, <3>2, <3>4, <4>1
      <3> QED
        BY <3>3, <3>4
    <2>7. Good(h, k + 1)
      BY <2>6
    <2> HIDE DEF Good
    <2> QED
      BY <2>5, <2>7
  <1>4. Upto(m)
    <2> HIDE DEF Upto
    <2> DEFINE B == {k \in Nat : k <= m => Upto(k)}
    <2>1. 0 \in B
      BY <1>2
    <2>2. \A k \in Nat : k \in B => k + 1 \in B
      BY <1>1, <1>3
    <2> HIDE DEF B
    <2>3. m \in B
      BY <1>1, <2>1, <2>2, CountUp
    <2>4. m <= m
      BY <1>1
    <2> QED
      BY <2>3, <2>4 DEF B
  <1>5. PICK f \in [1 .. m -> S] : Good(f, m)
    BY <1>4
  <1> DEFINE F(j) == IF j \in N THEN G[<<j, f[arch.parent[j][1]]>>] ELSE A[j]
  <1>6. \A j \in Layer : f[j] = F(j)
    BY <1>1, <1>5
  <1>7. f = [j \in Layer |-> f[j]]
    BY <1>1, <1>5
  <1>8. f = [j \in Layer |-> F(j)]
    <2> HIDE DEF F
    <2> QED
      BY <1>6, <1>7
  <1> QED
    BY <1>1, <1>8 DEF ViewsOf

\* What is true of the layers that are no views, and of a view when it is true of
\* its parent, is true of all layers.
LEMMA AllLayers ==
    ASSUME arch \in Architectures, NEW S, \A l \in Layer \ arch.views : l \in S,
           \A l \in arch.views : arch.parent[l][1] \in S => l \in S
    PROVE  Layer \subseteq S
  <1> DEFINE Bad == {l \in Layer : l \notin S}
  <1>1. Layer \in SUBSET Nat
    BY ArchitectureAssumption DEF Layer
  <1>2. ASSUME Bad # {} PROVE FALSE
    <2>1. PICK l \in Bad : \A k \in Bad : l <= k
      <3>1. Bad \in SUBSET Nat
        BY <1>1
      <3> HIDE DEF Bad
      <3> QED
        BY <1>2, <3>1, LeastOfNaturals
    <2>2. l \in arch.views /\ l \in Layer
      BY <2>1
    <2>3. PICK p \in Nat : p = arch.parent[l][1]
      BY <1>1, <2>2, ViewFacts
    <2>4. p \in 1 .. l - 1 /\ l \in Nat
      BY <1>1, <2>2, <2>3, ViewFacts
    <2>5. p \in Layer
      BY <2>2, <2>4, LayerFacts
    <2>6. p \notin Bad
      BY <2>1, <2>4
    <2> QED
      BY <2>1, <2>2, <2>3, <2>5, <2>6
  <1> QED
    BY <1>2

LEMMA BufferFacts ==
    ASSUME arch \in Architectures
    PROVE  \A l \in Layer :
               /\ Buffer(l) \in Layer
               /\ Buffer(l) = IF IsView(l) THEN Buffer(arch.parent[l][1]) ELSE l
  <1> DEFINE N == Layer \cap arch.views
             A == [k \in Layer |-> k]
             G == [p \in Layer \X Layer |-> p[2]]
             B(f) == f = [k \in Layer |-> IF IsView(k) THEN f[arch.parent[k][1]] ELSE k]
             b == CHOOSE f : B(f)
  <1>1. /\ N \in SUBSET arch.views /\ A \in [Layer -> Layer]
        /\ G \in [Layer \X Layer -> Layer]
    OBVIOUS
  <1>2. /\ \A k, x \in Layer : G[<<k, x>>] = x
        /\ \A k \in Layer : A[k] = k
    OBVIOUS
  <1> HIDE DEF G, A
  <1>3. PICK f \in [Layer -> Layer] : ViewsOf(f, N, A, G)
    BY <1>1, ViewsExist
  <1>4. \A k \in N : arch.parent[k][1] \in Layer
    BY ParentOfView
  <1>5. \A k \in Layer : f[k] = IF IsView(k) THEN f[arch.parent[k][1]] ELSE k
    BY <1>2, <1>3, <1>4 DEF ViewsOf, IsView
  <1>6. B(f)
    BY <1>5
  <1>7. B(b)
    BY <1>6
  <1> HIDE DEF b
  <1>8. \A k \in Layer : b[k] = IF IsView(k) THEN b[arch.parent[k][1]] ELSE k
    BY <1>7
  <1> HIDE DEF B
  <1> DEFINE S == {k \in Layer : b[k] \in Layer}
  <1>9. /\ \A k \in Layer \ arch.views : k \in S
        /\ \A k \in arch.views : arch.parent[k][1] \in S => k \in S
    BY <1>8, ParentOfView DEF IsView
  <1> HIDE DEF S
  <1>10. Layer \subseteq S
    BY <1>9, AllLayers
  <1>11. \A l : Buffer(l) = b[l]
    BY DEF Buffer, b, B
  <1> QED
    BY <1>8, <1>10, <1>11 DEF S

LEMMA BufferType ==
    ASSUME arch \in Architectures, NEW l \in Layer
    PROVE  Buffer(l) \in Layer
  BY BufferFacts

LEMMA NewDeltasFacts ==
    ASSUME arch \in Architectures, NEW st, st.has \in SUBSET Layer, NEW l \in Layer
    PROVE  /\ NewDeltas(l, st) \in SUBSET Layer /\ l \in NewDeltas(l, st) \cup st.has
           /\ NewDeltas(l, st) = IF l \in st.has THEN {}
                                ELSE IF IsView(l) THEN {l} \cup NewDeltas(arch.parent[l][1], st)
                                ELSE {l}
  <1> DEFINE N == arch.views \ st.has
             A == [k \in Layer |-> IF k \in st.has THEN {} ELSE {k}]
             G == [p \in Layer \X SUBSET Layer |-> {p[1]} \cup p[2]]
             B(f) == f = [k \in Layer |-> IF k \in st.has THEN {}
                                         ELSE IF IsView(k) THEN {k} \cup f[arch.parent[k][1]]
                                         ELSE {k}]
             b == CHOOSE f : B(f)
  <1>1. /\ N \in SUBSET arch.views /\ A \in [Layer -> SUBSET Layer]
        /\ G \in [Layer \X SUBSET Layer -> SUBSET Layer]
    OBVIOUS
  <1>2. /\ \A k \in Layer : \A x \in SUBSET Layer : G[<<k, x>>] = {k} \cup x
        /\ \A k \in Layer : A[k] = IF k \in st.has THEN {} ELSE {k}
    OBVIOUS
  <1> HIDE DEF G, A
  <1>3. PICK f \in [Layer -> SUBSET Layer] : ViewsOf(f, N, A, G)
    <2> HIDE DEF N
    <2> QED
      BY <1>1, ViewsExist
  <1>4. ASSUME NEW k \in Layer
        PROVE  f[k] = IF k \in st.has THEN {}
                      ELSE IF IsView(k) THEN {k} \cup f[arch.parent[k][1]] ELSE {k}
    <2>1. f[k] = IF k \in N THEN G[<<k, f[arch.parent[k][1]]>>] ELSE A[k]
      BY <1>3 DEF ViewsOf
    <2>2. k \in N => f[arch.parent[k][1]] \in SUBSET Layer
      BY <1>3, ParentOfView
    <2>3. CASE k \in N
      <3>1. f[k] = {k} \cup f[arch.parent[k][1]]
        BY <1>2, <2>1, <2>2, <2>3
      <3> QED
        BY <2>3, <3>1 DEF IsView
    <2>4. CASE k \notin N
      <3>1. f[k] = A[k]
        BY <2>1, <2>4
      <3>2. k \in st.has \/ ~ IsView(k)
        BY <2>4 DEF IsView
      <3> QED
        BY <1>2, <3>1, <3>2
    <2> QED
      BY <2>3, <2>4
  <1>5. B(f)
    <2> DEFINE g == [k \in Layer |-> IF k \in st.has THEN {}
                                     ELSE IF IsView(k) THEN {k} \cup f[arch.parent[k][1]]
                                     ELSE {k}]
    <2>1. \A k \in Layer : f[k] = g[k]
      BY <1>4
    <2>2. f \in [Layer -> SUBSET Layer] /\ DOMAIN g = Layer
      BY <1>3
    <2>3. g = [k \in Layer |-> g[k]]
      OBVIOUS
    <2>4. f = g
      <3> HIDE DEF g
      <3> QED
        BY Zenon, <2>1, <2>2, <2>3, SameFunction
    <2> QED
      BY <2>4
  <1>6. B(b)
    BY <1>5
  <1> HIDE DEF b
  <1>7. ASSUME NEW k \in Layer
        PROVE  b[k] = IF k \in st.has THEN {}
                      ELSE IF IsView(k) THEN {k} \cup b[arch.parent[k][1]] ELSE {k}
    BY <1>6
  <1> HIDE DEF B
  <1> DEFINE S == {k \in Layer : b[k] \in SUBSET Layer}
  <1>8. /\ \A k \in Layer \ arch.views : k \in S
        /\ \A k \in arch.views : arch.parent[k][1] \in S => k \in S
    BY <1>7, ParentOfView DEF IsView
  <1> HIDE DEF S
  <1>9. Layer \subseteq S
    BY <1>8, AllLayers
  <1>10. \A k : NewDeltas(k, st) = b[k]
    BY DEF NewDeltas, b, B
  <1>11. b[l] \in SUBSET Layer
    BY <1>9 DEF S
  <1>12. l \in b[l] \cup st.has
    BY <1>7
  <1>13. b[l] = IF l \in st.has THEN {}
                ELSE IF IsView(l) THEN {l} \cup b[arch.parent[l][1]] ELSE {l}
    BY <1>7
  <1> HIDE DEF b
  <1> QED
    BY <1>10, <1>11, <1>12, <1>13

-----------------------------------------------------------------------------
(* What is done for one layer.                                              *)

\* What the folds of a sweep work on.
States == [has : SUBSET Layer, content : [Layer -> Nat], size : [Layer -> Nat],
           batch : [DOMAIN arch.models -> Nat], gradient : [Layer -> Nat],
           broken : BOOLEAN]

\* The nets that there are.
NetsThere == arch \in Architectures /\ NetsInv /\ Net \subseteq DOMAIN arch.models

LEMMA NetOfType ==
    ASSUME NEW l \in InNets
    PROVE  NetOf(l) \in Net /\ l \in LayersOf(NetOf(l))
  BY DEF NetOf, InNets

LEMMA StateFields ==
    ASSUME NEW st \in States
    PROVE  /\ st.has \in SUBSET Layer /\ st.content \in [Layer -> Nat]
           /\ st.size \in [Layer -> Nat] /\ st.batch \in [DOMAIN arch.models -> Nat]
           /\ st.gradient \in [Layer -> Nat] /\ st.broken \in BOOLEAN
  BY DEF States

WithDelta(st, h, o, c, b) == [st EXCEPT !.has = h, !.content[o] = c, !.size[o] = b]
WithHas(st, h) == [st EXCEPT !.has = h]
WithContent(st, o, c) == [st EXCEPT !.content[o] = c]

LEMMA SetHas ==
    ASSUME NEW st \in States, NEW h \in SUBSET Layer
    PROVE  /\ WithHas(st, h) \in States
           /\ WithHas(st, h).has = h /\ WithHas(st, h).broken = st.broken
  BY DEF States, WithHas

LEMMA SetDelta ==
    ASSUME NEW st \in States, NEW h \in SUBSET Layer, NEW o \in Layer, NEW c \in Nat,
           NEW b \in Nat
    PROVE  /\ WithDelta(st, h, o, c, b) \in States
           /\ WithDelta(st, h, o, c, b).has = h
           /\ WithDelta(st, h, o, c, b).broken = st.broken
  <1> DEFINE x == [st.content EXCEPT ![o] = c]
             z == [st.size EXCEPT ![o] = b]
             old == [st EXCEPT !.has = h, !.content = x, !.size = z]
  <1>1. x \in [Layer -> Nat] /\ z \in [Layer -> Nat]
    BY StateFields
  <1>2. WithDelta(st, h, o, c, b) = old
    BY DEF States, WithDelta
  <1> HIDE DEF x, z
  <1>3. old \in States /\ old.has = h /\ old.broken = st.broken
    BY <1>1 DEF States
  <1> HIDE DEF old
  <1> QED
    BY <1>2, <1>3

\* mem_delta() makes what is missing and takes no delta away.
LEMMA MemDeltaFacts ==
    ASSUME NetsThere, NEW st \in States, NEW l \in Layer, NEW fill \in Nat
    PROVE  /\ MemDelta(st, l, fill) \in States
           /\ MemDelta(st, l, fill).has = st.has \cup NewDeltas(l, st)
           /\ MemDelta(st, l, fill).broken = st.broken
  <1> DEFINE o == Buffer(l)
             b == IF l \in InNets THEN st.batch[NetOf(l)] ELSE 1
             h == st.has \cup NewDeltas(l, st)
  <1>1. o \in Layer /\ h \in SUBSET Layer
    <2>1. st.has \in SUBSET Layer
      BY StateFields
    <2> QED
      BY <2>1, BufferType, NewDeltasFacts DEF NetsThere
  <1>2. b \in Nat
    BY NetOfType, StateFields DEF NetsThere
  <1>3. MemDelta(st, l, fill) = IF o \notin st.has THEN WithDelta(st, h, o, 0, b)
                                ELSE IF st.size[o] # b THEN WithDelta(st, h, o, fill, b)
                                ELSE WithHas(st, h)
    BY DEF MemDelta, WithDelta, WithHas
  <1> HIDE DEF o, b
  <1> QED
    BY <1>1, <1>2, <1>3, SetDelta, SetHas

LEMMA MemDeltaThere ==
    ASSUME NetsThere, NEW st \in States, NEW l \in Layer, NEW fill \in Nat
    PROVE  MemDelta(st, l, fill) \in States /\ st.has \cup {l} \subseteq MemDelta(st, l, fill).has
  BY MemDeltaFacts, NewDeltasFacts, StateFields DEF NetsThere

LEMMA SetContent ==
    ASSUME NEW st \in States, NEW o \in Layer, NEW c \in Nat
    PROVE  /\ WithContent(st, o, c) \in States
           /\ WithContent(st, o, c).has = st.has
           /\ WithContent(st, o, c).broken = st.broken
  <1> DEFINE x == [st.content EXCEPT ![o] = c]
             old == [st EXCEPT !.content = x]
  <1>1. x \in [Layer -> Nat]
    BY StateFields
  <1>2. WithContent(st, o, c) = old
    BY DEF States, WithContent
  <1> HIDE DEF x
  <1>3. old \in States /\ old.has = st.has /\ old.broken = st.broken
    BY <1>1 DEF States
  <1> HIDE DEF old
  <1> QED
    BY <1>2, <1>3

\* Freeing a layer's delta takes no other's away, and is no mistake if it was there.
LEMMA FreeDeltaFacts ==
    ASSUME NEW st \in States, NEW l \in Layer
    PROVE  /\ FreeDelta(st, l) \in States
           /\ FreeDelta(st, l).has = IF IsInput(l) THEN st.has ELSE st.has \ {l}
           /\ st.has \ {l} \subseteq FreeDelta(st, l).has
           /\ l \in st.has /\ ~ st.broken => ~ FreeDelta(st, l).broken
  <1>1. CASE IsInput(l)
    <2> DEFINE x == [st.content EXCEPT ![l] = 0]
               q == st.broken \/ l \notin st.has
               new == [st EXCEPT !.content = x, !.broken = q]
    <2>1. x \in [Layer -> Nat]
      BY StateFields
    <2>2. q \in BOOLEAN
      OBVIOUS
    <2>3. FreeDelta(st, l) = new
      BY <1>1 DEF FreeDelta
    <2>4. l \in st.has /\ ~ st.broken => ~ q
      OBVIOUS
    <2> HIDE DEF x, q
    <2>5. new \in States /\ new.has = st.has /\ new.broken = q
      BY <2>1, <2>2 DEF States
    <2> HIDE DEF new
    <2> QED
      BY <1>1, <2>3, <2>4, <2>5
  <1>2. CASE ~ IsInput(l)
    <2> DEFINE x == [st.content EXCEPT ![l] = 0]
               h == st.has \ {l}
               new == [st EXCEPT !.has = h, !.content = x]
    <2>1. x \in [Layer -> Nat] /\ h \in SUBSET Layer
      BY StateFields
    <2>2. FreeDelta(st, l) = new
      BY <1>2 DEF FreeDelta
    <2> HIDE DEF x
    <2>3. new \in States /\ new.has = h /\ new.broken = st.broken
      BY <2>1 DEF States
    <2> HIDE DEF new
    <2> QED
      BY <1>2, <2>2, <2>3
  <1> QED
    BY <1>1, <1>2

LEMMA BackLayerFacts ==
    ASSUME arch \in Architectures, NEW st \in States, NEW l \in Layer
    PROVE  /\ BackLayer(st, l) \in States
           /\ BackLayer(st, l).has = st.has
           /\ l \in st.has => BackLayer(st, l).broken = st.broken
  <1>1. CASE ~ HasWeights(l)
    BY <1>1 DEF BackLayer
  <1>2. CASE HasWeights(l) /\ l \notin st.has
    BY <1>2 DEF BackLayer, States
  <1>3. CASE HasWeights(l) /\ l \in st.has
    <2> DEFINE ps == arch.parent[l]
               C(k) == Cardinality({i \in DOMAIN ps : Buffer(ps[i]) = k})
               x == PassedOn(st, l)
               g == [st.gradient EXCEPT ![l] = @ + st.content[l]]
               new == [st EXCEPT !.content = x, !.gradient = g]
    <2>1. \A k \in Layer : C(k) \in Nat
      <3> SUFFICES ASSUME NEW k \in Layer PROVE C(k) \in Nat
        OBVIOUS
      <3>1. ps \in Seq(Nat)
        BY LayerFacts
      <3>2. IsFiniteSet(DOMAIN ps)
        BY <3>1, FS_Interval
      <3> HIDE DEF ps
      <3>3. IsFiniteSet({i \in DOMAIN ps : Buffer(ps[i]) = k})
        BY <3>2, FS_Subset
      <3> QED
        BY <3>3, FS_CardinalityType
    <2>2. x = [k \in Layer |-> st.content[k] + st.content[l] * C(k)]
      BY DEF PassedOn
    <2> HIDE DEF C
    <2>3. x \in [Layer -> Nat]
      <3>1. \A k \in Layer : st.content[k] + st.content[l] * C(k) \in Nat
        BY <2>1, StateFields
      <3> HIDE DEF x
      <3> QED
        BY <2>2, <3>1
    <2>4. g \in [Layer -> Nat]
      BY StateFields
    <2>5. BackLayer(st, l) = new
      BY <1>3 DEF BackLayer
    <2> HIDE DEF x, g
    <2>6. new \in States /\ new.has = st.has /\ new.broken = st.broken
      BY <2>3, <2>4 DEF States
    <2> HIDE DEF new
    <2> QED
      BY <2>5, <2>6
  <1> QED
    BY <1>1, <1>2, <1>3

LEMMA GreatestExists ==
    ASSUME NEW n \in Nat, NEW s \in SUBSET (1 .. n), s # {}
    PROVE  Max(s) \in s /\ Max(s) \in 1 .. n
  <1>1. s \in SUBSET Nat /\ \A k \in s : k <= n
    OBVIOUS
  <1>2. PICK k \in s : \A m \in s : m <= k
    BY <1>1, GreatestOfNaturals
  <1>3. \A y \in s : k >= y
    BY <1>1, <1>2
  <1> QED
    BY <1>3 DEF Max

-----------------------------------------------------------------------------
(* mem_delta() of a layer's parents.                                        *)

ParentsMem(st, l, fill) ==
    LET Mem(t, p) == MemDelta(t, p, fill)
    IN  FoldLeft(Mem, st, arch.parent[l])

LEMMA ParentsMemSteps ==
    ASSUME NetsThere, NEW st \in States, NEW l \in Layer, NEW fill \in Nat
    PROVE  \E f : /\ ParentsMem(st, l, fill) = f[1 .. Len(arch.parent[l])]
                  /\ f[{}] = st
                  /\ \A k \in 1 .. Len(arch.parent[l]) :
                         f[1 .. k] = MemDelta(f[1 .. k - 1], arch.parent[l][k], fill)
  <1> DEFINE ps == arch.parent[l]
             n == Len(ps)
             Q(f) == f = [s \in SUBSET DOMAIN ps |->
                             IF s = {} THEN st
                             ELSE MemDelta(f[s \ {Max(s)}], ps[Max(s)], fill)]
             G == [p \in States \X (1 .. n) |-> MemDelta(p[1], ps[p[2]], fill)]
             iter == CHOOSE f : Q(f)
  <1>1. n \in Nat /\ DOMAIN ps = 1 .. n /\ \A k \in 1 .. n : ps[k] \in Layer
    <2>1. ps \in Seq(Layer)
      BY LayerFacts DEF NetsThere
    <2> HIDE DEF ps
    <2> QED
      BY <2>1
  <1> HIDE DEF ps, n
  <1>2. /\ G \in [States \X (1 .. n) -> States]
        /\ \A t \in States, k \in 1 .. n : G[<<t, k>>] = MemDelta(t, ps[k], fill)
    BY <1>1, MemDeltaFacts
  <1> HIDE DEF G
  <1>3. PICK f \in [SUBSET (1 .. n) -> States] : FoldOf(f, n, st, G)
    BY <1>1, <1>2, FoldExists
  <1>4. ASSUME NEW s \in SUBSET (1 .. n)
        PROVE  f[s] = IF s = {} THEN st ELSE MemDelta(f[s \ {Max(s)}], ps[Max(s)], fill)
    <2>1. f[s] = IF s = {} THEN st ELSE G[<<f[s \ {Max(s)}], Max(s)>>]
      BY <1>3 DEF FoldOf
    <2>2. s # {} => Max(s) \in 1 .. n /\ f[s \ {Max(s)}] \in States
      BY <1>1, GreatestExists
    <2> QED
      BY <1>2, <2>1, <2>2
  <1>5. Q(f)
    <2>1. f = [s \in SUBSET (1 .. n) |-> f[s]]
      OBVIOUS
    <2> QED
      BY <1>1, <1>4, <2>1
  <1>6. Q(iter)
    BY <1>5
  <1>7. ParentsMem(st, l, fill) = iter[DOMAIN ps]
    BY DEF ParentsMem, FoldLeft, MapThenFoldSet, ps
  <1> HIDE DEF iter
  <1>8. \A s \in SUBSET (1 .. n) :
            iter[s] = IF s = {} THEN st ELSE MemDelta(iter[s \ {Max(s)}], ps[Max(s)], fill)
    BY <1>1, <1>6
  <1> HIDE DEF Q
  <1>9. \A k \in 1 .. n : iter[1 .. k] = MemDelta(iter[1 .. k - 1], ps[k], fill)
    BY <1>1, <1>8, FirstOnes
  <1>10. iter[{}] = st
    BY <1>8
  <1> QED
    BY <1>1, <1>7, <1>9, <1>10 DEF ps, n

LEMMA ParentsMemFacts ==
    ASSUME NetsThere, NEW st \in States, NEW l \in Layer, NEW fill \in Nat
    PROVE  /\ ParentsMem(st, l, fill) \in States
           /\ st.has \cup Elements(arch.parent[l]) \subseteq ParentsMem(st, l, fill).has
           /\ ParentsMem(st, l, fill).broken = st.broken
  <1> DEFINE ps == arch.parent[l]
             n == Len(ps)
  <1>1. n \in Nat /\ DOMAIN ps = 1 .. n /\ \A k \in 1 .. n : ps[k] \in Layer
    <2>1. ps \in Seq(Layer)
      BY LayerFacts DEF NetsThere
    <2> HIDE DEF ps
    <2> QED
      BY <2>1
  <1>2. PICK f : /\ ParentsMem(st, l, fill) = f[1 .. n] /\ f[{}] = st
                 /\ \A k \in 1 .. n : f[1 .. k] = MemDelta(f[1 .. k - 1], ps[k], fill)
    BY ParentsMemSteps
  <1> HIDE DEF ps, n
  <1> DEFINE Done(k) == /\ f[1 .. k] \in States /\ f[1 .. k].broken = st.broken
                        /\ st.has \subseteq f[1 .. k].has
                        /\ \A i \in 1 .. k : ps[i] \in f[1 .. k].has
             B == {k \in Nat : k <= n => Done(k)}
  <1>3. Done(0)
    <2>1. 1 .. 0 = {}
      OBVIOUS
    <2> QED
      BY <1>2, <2>1
  <1>4. ASSUME NEW k \in Nat, k + 1 <= n, Done(k) PROVE Done(k + 1)
    <2>1. k + 1 \in 1 .. n /\ (k + 1) - 1 = k
      BY <1>1, <1>4
    <2>2. f[1 .. k + 1] = MemDelta(f[1 .. k], ps[k + 1], fill) /\ ps[k + 1] \in Layer
      BY <1>1, <1>2, <2>1
    <2>3. PICK t \in States : t = f[1 .. k]
      BY <1>4
    <2>4. PICK p \in Layer : p = ps[k + 1]
      BY <2>2
    <2>5. /\ MemDelta(t, p, fill) \in States /\ MemDelta(t, p, fill).broken = t.broken
          /\ t.has \cup {p} \subseteq MemDelta(t, p, fill).has
      BY MemDeltaFacts, MemDeltaThere
    <2>6. \A i \in 1 .. k + 1 : i \in 1 .. k \/ i = k + 1
      OBVIOUS
    <2> QED
      BY <1>4, <2>2, <2>3, <2>4, <2>5, <2>6
  <1>5. Done(n)
    <2> HIDE DEF Done
    <2>1. 0 \in B
      BY <1>3
    <2>2. \A k \in Nat : k \in B => k + 1 \in B
      BY <1>1, <1>4
    <2> HIDE DEF B
    <2>3. n \in B
      BY <1>1, <2>1, <2>2, CountUp
    <2>4. n <= n
      BY <1>1
    <2> QED
      BY <2>3, <2>4 DEF B
  <1> QED
    BY <1>1, <1>2, <1>5 DEF Elements, ps, n

-----------------------------------------------------------------------------
(* The layers of nets that are there.                                       *)

LEMMA NetThere ==
    ASSUME NetsThere, NEW n \in Net
    PROVE  /\ Host(n) \in BuiltNet /\ SortedNet(Host(n)) /\ n \in DOMAIN arch.models
           /\ LayersOf(n) \in SUBSET Layer
           /\ Model(n).feeds \in Seq(Layer)
  <1>1. Host(n) \in BuiltNet /\ SortedNet(Host(n)) /\ n \in DOMAIN arch.models
    <2> DEFINE R == [host : BuiltNet, device : BuiltNet]
    <2>1. nets \in Seq(R)
      BY DEF NetsThere, NetsInv
    <2>2. nets[n] \in R
      <3> HIDE DEF R
      <3> QED
        BY <2>1 DEF Net
    <2> QED
      BY <2>2 DEF NetsThere, NetsInv, Net, Host
  <1>2. LayersOf(n) \in SUBSET Layer
    <2>1. Host(n).layers \in Seq(Layer)
      BY <1>1 DEF BuiltNet
    <2> QED
      BY <2>1, ElementsOf DEF LayersOf
  <1>3. Model(n).feeds \in Seq(Layer)
    <2> DEFINE M == [in : Seq(DOMAIN arch.parent), out : Seq(DOMAIN arch.parent),
                     losses : Nat, mem : {0, 1}, isLoss : BOOLEAN,
                     feeds : Seq(DOMAIN arch.parent)]
    <2>1. arch.models \in Seq(M)
      BY ArchitectureAssumption DEF NetsThere
    <2>2. arch.models[n] \in M
      <3> HIDE DEF M
      <3> QED
        BY <1>1, <2>1
    <2> QED
      BY <2>2 DEF Model, Layer
  <1> QED
    BY <1>1, <1>2, <1>3

-----------------------------------------------------------------------------
(* do_delta().                                                              *)

Written(s, i, n, fill) ==
    LET l == Host(n).lout[i]
        t == MemDelta(s, l, fill)
    IN  IF i <= Model(n).losses THEN [t EXCEPT !.content[Buffer(l)] = 1] ELSE t

LEMMA WrittenFacts ==
    ASSUME NetsThere, NEW n \in Net, NEW fill \in Nat, NEW s \in States,
           NEW i \in DOMAIN Host(n).lout
    PROVE  /\ Written(s, i, n, fill) \in States
           /\ s.has \cup {Host(n).lout[i]} \subseteq Written(s, i, n, fill).has
           /\ Written(s, i, n, fill).broken = s.broken
  <1> DEFINE l == Host(n).lout[i]
             t == MemDelta(s, l, fill)
  <1>1. l \in Layer
    <2>1. Host(n).lout \in Seq(Layer)
      BY NetThere DEF BuiltNet
    <2> QED
      BY <2>1
  <1>2. t \in States /\ s.has \cup {l} \subseteq t.has /\ t.broken = s.broken
    BY <1>1, MemDeltaFacts, MemDeltaThere
  <1>3. Buffer(l) \in Layer /\ 1 \in Nat
    BY <1>1, BufferType DEF NetsThere
  <1>4. Written(s, i, n, fill) = IF i <= Model(n).losses THEN WithContent(t, Buffer(l), 1) ELSE t
    BY DEF Written, WithContent
  <1> HIDE DEF t, l
  <1> QED
    BY <1>2, <1>3, <1>4, SetContent DEF l

LEMMA DoDeltaSteps ==
    ASSUME NetsThere, NEW n \in Net, NEW fill \in Nat, NEW st \in States
    PROVE  \E f : /\ DoDelta(st, n, fill) = f[1 .. Len(Host(n).lout)]
                  /\ f[{}] = st
                  /\ \A k \in 1 .. Len(Host(n).lout) :
                         f[1 .. k] = Written(f[1 .. k - 1], k, n, fill)
  <1> DEFINE m == Len(Host(n).lout)
             ps == [i \in DOMAIN Host(n).lout |-> i]
             Q(f) == f = [s \in SUBSET DOMAIN ps |->
                             IF s = {} THEN st
                             ELSE Written(f[s \ {Max(s)}], ps[Max(s)], n, fill)]
             G == [p \in States \X (1 .. m) |-> Written(p[1], ps[p[2]], n, fill)]
             iter == CHOOSE f : Q(f)
  <1>1. /\ m \in Nat /\ DOMAIN ps = 1 .. m /\ DOMAIN Host(n).lout = 1 .. m
        /\ \A k \in 1 .. m : ps[k] = k
    <2>1. Host(n).lout \in Seq(Layer)
      BY NetThere DEF BuiltNet
    <2> QED
      BY <2>1
  <1> HIDE DEF ps, m
  <1>2. /\ G \in [States \X (1 .. m) -> States]
        /\ \A t \in States, k \in 1 .. m : G[<<t, k>>] = Written(t, ps[k], n, fill)
    BY <1>1, WrittenFacts
  <1> HIDE DEF G
  <1>3. PICK f \in [SUBSET (1 .. m) -> States] : FoldOf(f, m, st, G)
    BY <1>1, <1>2, FoldExists
  <1>4. ASSUME NEW s \in SUBSET (1 .. m)
        PROVE  f[s] = IF s = {} THEN st ELSE Written(f[s \ {Max(s)}], ps[Max(s)], n, fill)
    <2>1. f[s] = IF s = {} THEN st ELSE G[<<f[s \ {Max(s)}], Max(s)>>]
      BY <1>3 DEF FoldOf
    <2>2. s # {} => Max(s) \in 1 .. m /\ f[s \ {Max(s)}] \in States
      BY <1>1, GreatestExists
    <2> QED
      BY <1>2, <2>1, <2>2
  <1>5. Q(f)
    <2>1. f = [s \in SUBSET (1 .. m) |-> f[s]]
      OBVIOUS
    <2> QED
      BY <1>1, <1>4, <2>1
  <1>6. Q(iter)
    BY <1>5
  <1>7. DoDelta(st, n, fill) = iter[DOMAIN ps]
    BY DEF DoDelta, Written, FoldLeft, MapThenFoldSet, ps
  <1> HIDE DEF iter
  <1>8. \A s \in SUBSET (1 .. m) :
            iter[s] = IF s = {} THEN st ELSE Written(iter[s \ {Max(s)}], ps[Max(s)], n, fill)
    BY <1>1, <1>6
  <1> HIDE DEF Q
  <1>9. ASSUME NEW k \in 1 .. m
        PROVE  iter[1 .. k] = Written(iter[1 .. k - 1], k, n, fill)
    <2>1. iter[1 .. k] = Written(iter[(1 .. k) \ {k}], ps[k], n, fill)
      BY <1>1, <1>8, FirstOnes
    <2> QED
      BY <1>1, <2>1, FirstOnes
  <1>10. iter[{}] = st
    BY <1>8
  <1> QED
    BY <1>1, <1>7, <1>9, <1>10 DEF m

\* Every output gets its delta.
LEMMA DoDeltaFacts ==
    ASSUME NetsThere, NEW n \in Net, NEW fill \in Nat, NEW st \in States
    PROVE  /\ DoDelta(st, n, fill) \in States
           /\ st.has \cup Elements(Host(n).lout) \subseteq DoDelta(st, n, fill).has
           /\ DoDelta(st, n, fill).broken = st.broken
  <1> DEFINE ps == Host(n).lout
             m == Len(ps)
  <1>1. m \in Nat /\ DOMAIN ps = 1 .. m
    <2>1. ps \in Seq(Layer)
      BY NetThere DEF BuiltNet
    <2> QED
      BY <2>1
  <1>2. PICK f : /\ DoDelta(st, n, fill) = f[1 .. m] /\ f[{}] = st
                 /\ \A k \in 1 .. m : f[1 .. k] = Written(f[1 .. k - 1], k, n, fill)
    BY DoDeltaSteps
  <1> DEFINE Done(k) == /\ f[1 .. k] \in States /\ f[1 .. k].broken = st.broken
                        /\ st.has \subseteq f[1 .. k].has
                        /\ \A i \in 1 .. k : ps[i] \in f[1 .. k].has
             B == {k \in Nat : k <= m => Done(k)}
  <1>3. Done(0)
    <2>1. 1 .. 0 = {}
      OBVIOUS
    <2> QED
      BY <1>2, <2>1
  <1>4. ASSUME NEW k \in Nat, k + 1 <= m, Done(k) PROVE Done(k + 1)
    <2>1. k + 1 \in 1 .. m /\ (k + 1) - 1 = k
      BY <1>1, <1>4
    <2>2. f[1 .. k + 1] = Written(f[1 .. k], k + 1, n, fill)
      BY <1>1, <1>2, <2>1
    <2>3. PICK t \in States : t = f[1 .. k]
      BY <1>4
    <2>4. PICK i \in DOMAIN Host(n).lout : i = k + 1
      BY <1>1, <2>1
    <2>5. /\ Written(t, i, n, fill) \in States /\ Written(t, i, n, fill).broken = t.broken
          /\ t.has \cup {ps[i]} \subseteq Written(t, i, n, fill).has
      BY WrittenFacts
    <2>6. \A j \in 1 .. k + 1 : j \in 1 .. k \/ j = k + 1
      OBVIOUS
    <2> HIDE DEF ps
    <2> QED
      BY <1>4, <2>2, <2>3, <2>4, <2>5, <2>6
  <1> HIDE DEF ps, m
  <1>5. Done(m)
    <2> HIDE DEF Done
    <2>1. 0 \in B
      BY <1>3
    <2>2. \A k \in Nat : k \in B => k + 1 \in B
      BY <1>1, <1>4
    <2> HIDE DEF B
    <2>3. m \in B
      BY <1>1, <2>1, <2>2, CountUp
    <2>4. m <= m
      BY <1>1
    <2> QED
      BY <2>3, <2>4 DEF B
  <1> QED
    BY <1>1, <1>2, <1>5 DEF Elements, ps, m

-----------------------------------------------------------------------------
(* do_backward().                                                           *)

\* Every layer is visited once and after its children.
LEMMA BackwardOrder ==
    ASSUME NetsThere, NEW n \in Net
    PROVE  /\ Host(n).backward \in Seq(Layer)
           /\ Elements(Host(n).backward) = LayersOf(n)
           /\ \A i, j \in DOMAIN Host(n).backward :
                  Host(n).backward[i] = Host(n).backward[j] => i = j
           /\ \A i, j \in DOMAIN Host(n).backward :
                  Host(n).backward[j] \in Elements(arch.parent[Host(n).backward[i]]) => i < j
  <1> DEFINE bw == Host(n).backward
             S == LayersOf(n)
  <1>1. bw \in Seq(Layer) /\ Sorts("bts", bw, S)
    BY NetThere DEF BuiltNet, SortedNet, LayersOf
  <1> HIDE DEF bw, S
  <1>2. Elements(bw) = S /\ Len(bw) = Cardinality(S)
    BY <1>1 DEF Sorts
  <1>3. \A i, j \in DOMAIN bw : bw[i] = bw[j] => i = j
    <2> DEFINE m == Len(bw)
    <2>1. m \in Nat /\ bw \in [1 .. m -> S] /\ DOMAIN bw = 1 .. m
      BY <1>1, <1>2 DEF Elements
    <2>2. IsFiniteSet(1 .. m) /\ Cardinality(1 .. m) = Cardinality(S)
      <3>1. Cardinality(1 .. m) = m
        BY <2>1, FS_Interval
      <3> QED
        BY <1>2, <2>1, <3>1, FS_Interval
    <2>3. bw \in Surjection(1 .. m, S)
      BY <1>2, <2>1 DEF Surjection, Elements
    <2> HIDE DEF m
    <2>4. bw \in Injection(1 .. m, S)
      BY <2>2, <2>3, FS_SurjSameCardinalityImpliesInj
    <2> QED
      BY <2>1, <2>4 DEF Injection, IsInjective
  <1>4. \A i \in DOMAIN bw : Position(bw, bw[i]) = i
    BY <1>3 DEF Position
  <1>5. ASSUME NEW i \in DOMAIN bw, NEW j \in DOMAIN bw, bw[j] \in Elements(arch.parent[bw[i]])
        PROVE  i < j
    <2>1. PICK k \in DOMAIN arch.parent[bw[i]] : bw[j] = arch.parent[bw[i]][k]
      BY <1>5 DEF Elements
    <2>2. bw[i] \in Layer /\ bw[i] \in S /\ bw[j] \in S
      BY <1>1, <1>2 DEF Elements
    <2> DEFINE e == <<bw[i], k>>
    <2>3. e \in Edge /\ Child(e) = bw[i] /\ Parent(e) = bw[j]
      BY <2>1, <2>2 DEF Edge, Child, Parent
    <2> HIDE DEF e
    <2>4. Position(bw, bw[i]) < Position(bw, bw[j])
      BY <1>1, <2>2, <2>3 DEF Sorts, Before, After
    <2> QED
      BY <1>4, <2>4
  <1> QED
    BY <1>1, <1>2, <1>3, <1>5 DEF bw, S

VisitedLayer(s, l, n, fill) ==
    LET t == BackLayer(ParentsMem(s, l, fill), l)
    IN  IF s.broken \/ t.broken THEN [s EXCEPT !.broken = TRUE]
        ELSE IF Model(n).mem > 0 THEN FreeDelta(t, l) ELSE t

\* A layer that has its delta is visited well, its parents have theirs then.
LEMMA VisitedFacts ==
    ASSUME NetsThere, NEW n \in Net, NEW fill \in Nat, NEW s \in States, NEW l \in Layer
    PROVE  /\ VisitedLayer(s, l, n, fill) \in States
           /\ l \in s.has /\ ~ s.broken =>
                  /\ ~ VisitedLayer(s, l, n, fill).broken
                  /\ (s.has \cup Elements(arch.parent[l])) \ {l}
                         \subseteq VisitedLayer(s, l, n, fill).has
  <1> DEFINE u == ParentsMem(s, l, fill)
             t == BackLayer(u, l)
             x == [s EXCEPT !.broken = TRUE]
  <1>1. /\ u \in States /\ s.has \cup Elements(arch.parent[l]) \subseteq u.has
        /\ u.broken = s.broken
    BY ParentsMemFacts
  <1> HIDE DEF u
  <1>2. t \in States /\ t.has = u.has /\ (l \in u.has => t.broken = u.broken)
    BY <1>1, BackLayerFacts DEF NetsThere
  <1>3. x \in States
    BY DEF States
  <1>4. VisitedLayer(s, l, n, fill) = IF s.broken \/ t.broken THEN x
                                      ELSE IF Model(n).mem > 0 THEN FreeDelta(t, l) ELSE t
    BY DEF VisitedLayer, u
  <1> HIDE DEF t, x
  <1>5. FreeDelta(t, l) \in States /\ t.has \ {l} \subseteq FreeDelta(t, l).has
        /\ (l \in t.has /\ ~ t.broken => ~ FreeDelta(t, l).broken)
    BY <1>2, FreeDeltaFacts
  <1>6. VisitedLayer(s, l, n, fill) \in States
    BY <1>2, <1>3, <1>4, <1>5
  <1>7. ASSUME l \in s.has, ~ s.broken
        PROVE  /\ ~ VisitedLayer(s, l, n, fill).broken
               /\ (s.has \cup Elements(arch.parent[l])) \ {l}
                      \subseteq VisitedLayer(s, l, n, fill).has
    <2>1. ~ t.broken /\ l \in t.has /\ s.has \cup Elements(arch.parent[l]) \subseteq t.has
      BY <1>1, <1>2, <1>7
    <2>2. VisitedLayer(s, l, n, fill) = IF Model(n).mem > 0 THEN FreeDelta(t, l) ELSE t
      BY <1>4, <1>7, <2>1
    <2> QED
      BY <1>5, <2>1, <2>2
  <1> QED
    BY <1>6, <1>7

LEMMA DoBackwardSteps ==
    ASSUME NetsThere, NEW n \in Net, NEW fill \in Nat, NEW st \in States
    PROVE  \E f : /\ DoBackward(st, n, fill) = f[1 .. Len(Host(n).backward)]
                  /\ f[{}] = st
                  /\ \A k \in 1 .. Len(Host(n).backward) :
                         f[1 .. k] = VisitedLayer(f[1 .. k - 1], Host(n).backward[k], n, fill)
  <1> DEFINE ps == Host(n).backward
             m == Len(ps)
             Q(f) == f = [s \in SUBSET DOMAIN ps |->
                             IF s = {} THEN st
                             ELSE VisitedLayer(f[s \ {Max(s)}], ps[Max(s)], n, fill)]
             G == [p \in States \X (1 .. m) |-> VisitedLayer(p[1], ps[p[2]], n, fill)]
             iter == CHOOSE f : Q(f)
  <1>1. m \in Nat /\ DOMAIN ps = 1 .. m /\ \A k \in 1 .. m : ps[k] \in Layer
    <2>1. ps \in Seq(Layer)
      BY BackwardOrder
    <2> HIDE DEF ps
    <2> QED
      BY <2>1
  <1> HIDE DEF ps, m
  <1>2. /\ G \in [States \X (1 .. m) -> States]
        /\ \A t \in States, k \in 1 .. m : G[<<t, k>>] = VisitedLayer(t, ps[k], n, fill)
    BY <1>1, VisitedFacts
  <1> HIDE DEF G
  <1>3. PICK f \in [SUBSET (1 .. m) -> States] : FoldOf(f, m, st, G)
    BY <1>1, <1>2, FoldExists
  <1>4. ASSUME NEW s \in SUBSET (1 .. m)
        PROVE  f[s] = IF s = {} THEN st
                      ELSE VisitedLayer(f[s \ {Max(s)}], ps[Max(s)], n, fill)
    <2>1. f[s] = IF s = {} THEN st ELSE G[<<f[s \ {Max(s)}], Max(s)>>]
      BY <1>3 DEF FoldOf
    <2>2. s # {} => Max(s) \in 1 .. m /\ f[s \ {Max(s)}] \in States
      BY <1>1, GreatestExists
    <2> QED
      BY <1>2, <2>1, <2>2
  <1>5. Q(f)
    <2>1. f = [s \in SUBSET (1 .. m) |-> f[s]]
      OBVIOUS
    <2> QED
      BY <1>1, <1>4, <2>1
  <1>6. Q(iter)
    BY <1>5
  <1>7. DoBackward(st, n, fill) = iter[DOMAIN ps]
    BY DEF DoBackward, VisitedLayer, ParentsMem, FoldLeft, MapThenFoldSet, ps
  <1> HIDE DEF iter
  <1>8. \A s \in SUBSET (1 .. m) :
            iter[s] = IF s = {} THEN st
                      ELSE VisitedLayer(iter[s \ {Max(s)}], ps[Max(s)], n, fill)
    BY <1>1, <1>6
  <1> HIDE DEF Q
  <1>9. ASSUME NEW k \in 1 .. m
        PROVE  iter[1 .. k] = VisitedLayer(iter[1 .. k - 1], ps[k], n, fill)
    <2>1. iter[1 .. k] = VisitedLayer(iter[(1 .. k) \ {k}], ps[k], n, fill)
      BY <1>1, <1>8, FirstOnes
    <2> QED
      BY <1>1, <2>1, FirstOnes
  <1>10. iter[{}] = st
    BY <1>8
  <1> QED
    BY <1>1, <1>7, <1>9, <1>10 DEF ps, m

\* When the outputs have deltas and every other layer leads somewhere, a sweep
\* finds every delta.
LEMMA DoBackwardFacts ==
    ASSUME NetsThere, NEW n \in Net, NEW fill \in Nat, NEW st \in States
    PROVE  /\ DoBackward(st, n, fill) \in States
           /\ /\ ~ HasDeadEnd(n) /\ ~ st.broken
              /\ Elements(Host(n).lout) \subseteq st.has
              => ~ DoBackward(st, n, fill).broken
  <1> DEFINE ps == Host(n).backward
             m == Len(ps)
             Good == /\ ~ HasDeadEnd(n) /\ ~ st.broken
                     /\ Elements(Host(n).lout) \subseteq st.has
  <1>1. m \in Nat /\ DOMAIN ps = 1 .. m /\ \A k \in 1 .. m : ps[k] \in Layer
    <2>1. ps \in Seq(Layer)
      BY BackwardOrder
    <2> HIDE DEF ps
    <2> QED
      BY <2>1
  <1>2. PICK f : /\ DoBackward(st, n, fill) = f[1 .. m] /\ f[{}] = st
                 /\ \A k \in 1 .. m :
                        f[1 .. k] = VisitedLayer(f[1 .. k - 1], ps[k], n, fill)
    BY DoBackwardSteps
  <1>3. /\ Elements(ps) = LayersOf(n)
        /\ \A i, j \in 1 .. m : ps[i] = ps[j] => i = j
        /\ \A i, j \in 1 .. m : ps[j] \in Elements(arch.parent[ps[i]]) => i < j
    BY <1>1, BackwardOrder
  <1> HIDE DEF ps, m
  \* The layers that have their deltas after k visits.
  <1> DEFINE Due(k, j) == \/ ps[j] \in Elements(Host(n).lout)
                          \/ \E i \in 1 .. k : ps[j] \in Elements(arch.parent[ps[i]])
             Done(k) == /\ f[1 .. k] \in States
                        /\ Good => /\ ~ f[1 .. k].broken
                                   /\ \A j \in 1 .. m :
                                          k < j /\ Due(k, j) => ps[j] \in f[1 .. k].has
             B == {k \in Nat : k <= m => Done(k)}
  <1>4. Done(0)
    <2>1. 1 .. 0 = {}
      OBVIOUS
    <2> HIDE DEF Good
    <2>2. f[1 .. 0] = st
      BY <1>2, <2>1
    <2>3. Good => ~ st.broken /\ Elements(Host(n).lout) \subseteq st.has
      BY DEF Good
    <2> QED
      BY <2>1, <2>2, <2>3
  <1>5. ASSUME NEW k \in Nat, k + 1 <= m, Done(k) PROVE Done(k + 1)
    <2>1. k + 1 \in 1 .. m /\ (k + 1) - 1 = k
      BY <1>1, <1>5
    <2>2. PICK s \in States : s = f[1 .. k]
      BY <1>5
    <2>3. PICK l \in Layer : l = ps[k + 1]
      BY <1>1, <2>1
    <2> DEFINE t == VisitedLayer(s, l, n, fill)
    <2>4. f[1 .. k + 1] = t
      BY <1>2, <2>1, <2>2, <2>3
    <2>5. /\ t \in States
          /\ l \in s.has /\ ~ s.broken =>
                 ~ t.broken /\ (s.has \cup Elements(arch.parent[l])) \ {l} \subseteq t.has
      BY VisitedFacts
    <2> HIDE DEF t
    <2>6. ASSUME Good
          PROVE  /\ ~ t.broken
                 /\ \A j \in 1 .. m : k + 1 < j /\ Due(k + 1, j) => ps[j] \in t.has
      <3>1. ~ s.broken /\ \A j \in 1 .. m : k < j /\ Due(k, j) => ps[j] \in s.has
        BY <1>5, <2>2, <2>6
      <3>2. Due(k, k + 1)
        <4>1. ps[k + 1] \in LayersOf(n)
          BY <1>1, <1>3, <2>1 DEF Elements
        <4>2. CASE ps[k + 1] \notin Elements(Host(n).lout)
          <5>1. PICK c \in LayersOf(n) : ps[k + 1] \in Elements(arch.parent[c])
            BY <2>6, <4>1, <4>2 DEF HasDeadEnd
          <5>2. PICK i \in 1 .. m : ps[i] = c
            BY <1>1, <1>3, <5>1 DEF Elements
          <5>3. i < k + 1
            BY <1>3, <2>1, <5>1, <5>2
          <5>4. i \in 1 .. k
            BY <5>3
          <5> QED
            BY <5>1, <5>2, <5>4
        <4> QED
          BY <4>2
      <3>3. l \in s.has
        <4>1. k < k + 1
          OBVIOUS
        <4> HIDE DEF Due
        <4> QED
          BY <2>1, <2>3, <3>1, <3>2, <4>1
      <3>4. ASSUME NEW j \in 1 .. m, k + 1 < j, Due(k + 1, j) PROVE ps[j] \in t.has
        <4>1. ps[j] # l
          <5>1. j # k + 1
            BY <3>4
          <5> QED
            BY <1>3, <2>1, <2>3, <5>1
        <4>2. Due(k, j) \/ ps[j] \in Elements(arch.parent[l])
          <5>1. \A i \in 1 .. k + 1 : i \in 1 .. k \/ i = k + 1
            OBVIOUS
          <5> QED
            BY <2>3, <3>4, <5>1
        <4>3. k < j
          BY <3>4
        <4>4. ps[j] \in s.has \cup Elements(arch.parent[l])
          <5> HIDE DEF Due
          <5> QED
            BY <3>1, <4>2, <4>3
        <4> QED
          BY <2>5, <3>1, <3>3, <4>1, <4>4
      <3> HIDE DEF Due
      <3> QED
        BY <2>5, <3>1, <3>3, <3>4
    <2> HIDE DEF Good, Due
    <2> QED
      BY <2>4, <2>5, <2>6
  <1>6. Done(m)
    <2> HIDE DEF Done
    <2>1. 0 \in B
      BY <1>4
    <2>2. \A k \in Nat : k \in B => k + 1 \in B
      BY <1>1, <1>5
    <2> HIDE DEF B
    <2>3. m \in B
      BY <1>1, <2>1, <2>2, CountUp
    <2>4. m <= m
      BY <1>1
    <2> QED
      BY <2>3, <2>4 DEF B
  <1> QED
    BY <1>2, <1>6

-----------------------------------------------------------------------------
(* The copies at the end of Net::backward(), and what is done before a sweep. *)

Passing(n) == /\ netinput[n] \in Seq(Layer)
              /\ netinput[n] # <<>> => Len(netinput[n]) = Len(Host(n).lin)

CopiedOne(s, i, n, fill) ==
    LET in == Host(n).lin[i]
        to == netinput[n][i]
        t == MemDelta(MemDelta(s, in, fill), to, fill)
    IN  IF to \in detached THEN s
        ELSE [t EXCEPT !.content[Buffer(to)] = t.content[Buffer(in)]]

LEMMA CopiedFacts ==
    ASSUME NetsThere, NEW n \in Net, Passing(n), NEW fill \in Nat, NEW s \in States,
           NEW i \in DOMAIN netinput[n]
    PROVE  /\ CopiedOne(s, i, n, fill) \in States
           /\ CopiedOne(s, i, n, fill).broken = s.broken
  <1> DEFINE in == Host(n).lin[i]
             to == netinput[n][i]
             u == MemDelta(s, in, fill)
             t == MemDelta(u, to, fill)
  <1>1. in \in Layer /\ to \in Layer
    <2>1. Host(n).lin \in Seq(Layer)
      BY NetThere DEF BuiltNet
    <2>2. netinput[n] \in Seq(Layer) /\ netinput[n] # <<>>
      BY DEF Passing
    <2>3. i \in DOMAIN Host(n).lin
      BY <2>1, <2>2 DEF Passing
    <2> QED
      BY <2>1, <2>2, <2>3
  <1>2. u \in States /\ u.broken = s.broken
    BY <1>1, MemDeltaFacts
  <1> HIDE DEF u
  <1>3. t \in States /\ t.broken = s.broken
    BY <1>1, <1>2, MemDeltaFacts
  <1>4. Buffer(to) \in Layer /\ Buffer(in) \in Layer
    BY <1>1, BufferType DEF NetsThere
  <1>5. CopiedOne(s, i, n, fill) =
            IF to \in detached THEN s ELSE WithContent(t, Buffer(to), t.content[Buffer(in)])
    BY DEF CopiedOne, WithContent, u
  <1> HIDE DEF t, to, in
  <1>6. PICK c \in Nat : c = t.content[Buffer(in)]
    BY <1>3, <1>4, StateFields
  <1>7. WithContent(t, Buffer(to), c) \in States /\ WithContent(t, Buffer(to), c).broken = t.broken
    BY <1>3, <1>4, SetContent
  <1>8. CopiedOne(s, i, n, fill) = IF to \in detached THEN s ELSE WithContent(t, Buffer(to), c)
    BY <1>5, <1>6
  <1> QED
    BY <1>3, <1>7, <1>8

LEMMA CopyDeltasSteps ==
    ASSUME NetsThere, NEW n \in Net, Passing(n), NEW fill \in Nat, NEW st \in States
    PROVE  \E f : /\ CopyDeltas(st, n, fill) = f[1 .. Len(netinput[n])]
                  /\ f[{}] = st
                  /\ \A k \in 1 .. Len(netinput[n]) :
                         f[1 .. k] = CopiedOne(f[1 .. k - 1], k, n, fill)
  <1> DEFINE m == Len(netinput[n])
             ps == [i \in DOMAIN netinput[n] |-> i]
             Q(f) == f = [s \in SUBSET DOMAIN ps |->
                             IF s = {} THEN st
                             ELSE CopiedOne(f[s \ {Max(s)}], ps[Max(s)], n, fill)]
             G == [p \in States \X (1 .. m) |-> CopiedOne(p[1], ps[p[2]], n, fill)]
             iter == CHOOSE f : Q(f)
  <1>1. /\ m \in Nat /\ DOMAIN ps = 1 .. m /\ DOMAIN netinput[n] = 1 .. m
        /\ \A k \in 1 .. m : ps[k] = k
    <2>1. netinput[n] \in Seq(Layer)
      BY DEF Passing
    <2> QED
      BY <2>1
  <1> HIDE DEF ps, m
  <1>2. /\ G \in [States \X (1 .. m) -> States]
        /\ \A t \in States, k \in 1 .. m : G[<<t, k>>] = CopiedOne(t, ps[k], n, fill)
    BY <1>1, CopiedFacts
  <1> HIDE DEF G
  <1>3. PICK f \in [SUBSET (1 .. m) -> States] : FoldOf(f, m, st, G)
    BY <1>1, <1>2, FoldExists
  <1>4. ASSUME NEW s \in SUBSET (1 .. m)
        PROVE  f[s] = IF s = {} THEN st ELSE CopiedOne(f[s \ {Max(s)}], ps[Max(s)], n, fill)
    <2>1. f[s] = IF s = {} THEN st ELSE G[<<f[s \ {Max(s)}], Max(s)>>]
      BY <1>3 DEF FoldOf
    <2>2. s # {} => Max(s) \in 1 .. m /\ f[s \ {Max(s)}] \in States
      BY <1>1, GreatestExists
    <2> QED
      BY <1>2, <2>1, <2>2
  <1>5. Q(f)
    <2>1. f = [s \in SUBSET (1 .. m) |-> f[s]]
      OBVIOUS
    <2> QED
      BY <1>1, <1>4, <2>1
  <1>6. Q(iter)
    BY <1>5
  <1>7. CopyDeltas(st, n, fill) = iter[DOMAIN ps]
    BY DEF CopyDeltas, CopiedOne, FoldLeft, MapThenFoldSet, ps
  <1> HIDE DEF iter
  <1>8. \A s \in SUBSET (1 .. m) :
            iter[s] = IF s = {} THEN st ELSE CopiedOne(iter[s \ {Max(s)}], ps[Max(s)], n, fill)
    BY <1>1, <1>6
  <1> HIDE DEF Q
  <1>9. ASSUME NEW k \in 1 .. m
        PROVE  iter[1 .. k] = CopiedOne(iter[1 .. k - 1], k, n, fill)
    <2>1. iter[1 .. k] = CopiedOne(iter[(1 .. k) \ {k}], ps[k], n, fill)
      BY <1>1, <1>8, FirstOnes
    <2> QED
      BY <1>1, <2>1, FirstOnes
  <1>10. iter[{}] = st
    BY <1>8
  <1> QED
    BY <1>1, <1>7, <1>9, <1>10 DEF m

LEMMA CopyDeltasFacts ==
    ASSUME NetsThere, NEW n \in Net, Passing(n), NEW fill \in Nat, NEW st \in States
    PROVE  CopyDeltas(st, n, fill) \in States /\ CopyDeltas(st, n, fill).broken = st.broken
  <1> DEFINE m == Len(netinput[n])
  <1>1. m \in Nat /\ DOMAIN netinput[n] = 1 .. m
    <2>1. netinput[n] \in Seq(Layer)
      BY DEF Passing
    <2> QED
      BY <2>1
  <1>2. PICK f : /\ CopyDeltas(st, n, fill) = f[1 .. m] /\ f[{}] = st
                 /\ \A k \in 1 .. m : f[1 .. k] = CopiedOne(f[1 .. k - 1], k, n, fill)
    BY CopyDeltasSteps
  <1> HIDE DEF m
  <1> DEFINE Done(k) == f[1 .. k] \in States /\ f[1 .. k].broken = st.broken
             B == {k \in Nat : k <= m => Done(k)}
  <1>3. Done(0)
    <2>1. 1 .. 0 = {}
      OBVIOUS
    <2> QED
      BY <1>2, <2>1
  <1>4. ASSUME NEW k \in Nat, k + 1 <= m, Done(k) PROVE Done(k + 1)
    <2>1. k + 1 \in 1 .. m /\ (k + 1) - 1 = k
      BY <1>1, <1>4
    <2>2. f[1 .. k + 1] = CopiedOne(f[1 .. k], k + 1, n, fill)
      BY <1>2, <2>1
    <2>3. PICK t \in States : t = f[1 .. k]
      BY <1>4
    <2>4. PICK i \in DOMAIN netinput[n] : i = k + 1
      BY <1>1, <2>1
    <2>5. CopiedOne(t, i, n, fill) \in States /\ CopiedOne(t, i, n, fill).broken = t.broken
      BY CopiedFacts
    <2> QED
      BY <1>4, <2>2, <2>3, <2>4, <2>5
  <1>5. Done(m)
    <2> HIDE DEF Done
    <2>1. 0 \in B
      BY <1>3
    <2>2. \A k \in Nat : k \in B => k + 1 \in B
      BY <1>1, <1>4
    <2> HIDE DEF B
    <2>3. m \in B
      BY <1>1, <2>1, <2>2, CountUp
    <2>4. m <= m
      BY <1>1
    <2> QED
      BY <2>3, <2>4 DEF B
  <1> QED
    BY <1>2, <1>5

LEMMA ResetFacts ==
    ASSUME NEW n, NEW st \in States
    PROVE  /\ Reset(st, n) \in States /\ Reset(st, n).broken = st.broken
           /\ Reset(st, n).has = st.has
  <1>1. CASE Model(n).mem > 0
    BY <1>1 DEF Reset
  <1>2. CASE ~ (Model(n).mem > 0)
    <2> DEFINE Z(l) == \E k \in LayersOf(n) \cap st.has : Buffer(k) = l
               x == [l \in Layer |-> IF Z(l) THEN 0 ELSE st.content[l]]
               new == [st EXCEPT !.content = x]
    <2>1. Reset(st, n) = new
      BY <1>2 DEF Reset
    <2> HIDE DEF Z
    <2>2. x \in [Layer -> Nat]
      BY StateFields
    <2> HIDE DEF x
    <2>3. new \in States /\ new.broken = st.broken /\ new.has = st.has
      BY <2>2 DEF States
    <2> HIDE DEF new
    <2> QED
      BY <2>1, <2>3
  <1> QED
    BY <1>1, <1>2

LEMMA ResizedFacts ==
    ASSUME NEW n \in DOMAIN arch.models, NEW st \in States, NEW b \in Nat
    PROVE  /\ Resized(st, n, b) \in States /\ Resized(st, n, b).broken = st.broken
           /\ Resized(st, n, b).has = st.has
  <1> DEFINE x == [st.batch EXCEPT ![n] = b]
             new == [st EXCEPT !.batch = x]
  <1>1. x \in [DOMAIN arch.models -> Nat]
    BY StateFields
  <1>2. Resized(st, n, b) = IF b = st.batch[n] THEN st ELSE Reset(new, n)
    BY DEF Resized
  <1> HIDE DEF x
  <1>3. new \in States /\ new.broken = st.broken /\ new.has = st.has
    BY <1>1 DEF States
  <1> HIDE DEF new
  <1> QED
    BY <1>2, <1>3, ResetFacts

LEMMA ZeroGradsFacts ==
    ASSUME NEW n, NEW st \in States
    PROVE  /\ ZeroGrads(st, n) \in States /\ ZeroGrads(st, n).broken = st.broken
           /\ ZeroGrads(st, n).has = st.has
  <1> DEFINE x == [l \in Layer |-> IF l \in LayersOf(n) THEN 0 ELSE st.gradient[l]]
             new == [st EXCEPT !.gradient = x]
  <1>1. x \in [Layer -> Nat]
    BY StateFields
  <1>2. ZeroGrads(st, n) = new
    BY DEF ZeroGrads
  <1> HIDE DEF x
  <1>3. new \in States /\ new.broken = st.broken /\ new.has = st.has
    BY <1>1 DEF States
  <1> HIDE DEF new
  <1> QED
    BY <1>2, <1>3

-----------------------------------------------------------------------------
(* A crash has a cause.                                                     *)

Calling == [net : Net, call : {"target", "loss", "chain"}]

\* What was fed to the nets came from layers of nets, and sweeps go on to nets.
ChainInv == /\ netinput \in [DOMAIN arch.models -> Seq(InNets)]
            /\ \A n \in DOMAIN arch.models : netinput[n] # <<>> =>
                   n \in Net /\ Len(netinput[n]) = Len(Host(n).lin)

SweepInv == State \in States /\ ChainInv /\ todo \in Seq(Calling)

CrashInv == ProgramInv /\ CountInv /\ SweepInv /\ CrashHasCause

LEMMA CrashInvNets == ASSUME ProgramInv, CountInv PROVE NetsThere
  <1>1. /\ arch \in Architectures /\ NetsInv
        /\ nets \in Seq([host : BuiltNet, device : BuiltNet])
    BY DEF ProgramInv, NetsKept, GraphInv, NetsInv
  <1>2. arch.models \in Seq([in : Seq(DOMAIN arch.parent), out : Seq(DOMAIN arch.parent),
                             losses : Nat, mem : {0, 1}, isLoss : BOOLEAN,
                             feeds : Seq(DOMAIN arch.parent)])
    BY <1>1, ArchitectureAssumption
  <1>3. /\ Len(nets) \in Nat /\ Net = 1 .. Len(nets) /\ Len(arch.models) \in Nat
        /\ DOMAIN arch.models = 1 .. Len(arch.models)
    BY <1>1, <1>2 DEF Net
  <1>4. Len(nets) <= Len(arch.models)
    BY DEF CountInv
  <1> QED
    BY <1>1, <1>3, <1>4 DEF NetsThere

LEMMA InNetsType == ASSUME NetsThere PROVE InNets \in SUBSET Layer
  <1>1. \A n \in Net : LayersOf(n) \in SUBSET Layer
    BY NetThere
  <1> QED
    BY <1>1 DEF InNets

LEMMA PassingThere == ASSUME NetsThere, ChainInv, NEW n \in Net PROVE Passing(n)
  <1>1. n \in DOMAIN arch.models /\ InNets \in SUBSET Layer
    BY InNetsType DEF NetsThere
  <1>2. netinput[n] \in Seq(InNets)
    BY <1>1 DEF ChainInv
  <1>3. netinput[n] \in Seq(Layer)
    BY <1>1, <1>2
  <1> QED
    BY <1>1, <1>3 DEF ChainInv, Passing

\* The nets a sweep goes on to.
LEMMA NextNetsType ==
    ASSUME NetsThere, ChainInv, NEW n \in Net
    PROVE  NextNets(n) \in Seq(Calling)
  <1> DEFINE from == Kept(netinput[n], Layer \ detached)
             all == [i \in DOMAIN from |-> NetOf(from[i])]
             firsts == {i \in DOMAIN all : \A j \in 1 .. i - 1 : all[j] # all[i]}
             ids == [i \in DOMAIN all |-> i]
             new == Kept(ids, firsts)
  <1>1. from \in Seq(InNets)
    <2>1. netinput[n] \in Seq(InNets)
      BY DEF ChainInv, NetsThere
    <2> QED
      BY <2>1, KeptType
  <1> HIDE DEF from
  <1>2. DOMAIN from = 1 .. Len(from) /\ Len(from) \in Nat
    BY <1>1
  <1>3. /\ DOMAIN all = DOMAIN from /\ ids \in Seq(DOMAIN from)
        /\ \A i \in DOMAIN from : all[i] \in Net
    <2>1. \A i \in DOMAIN from : NetOf(from[i]) \in Net
      BY <1>1, NetOfType
    <2>2. ids \in [1 .. Len(from) -> DOMAIN from]
      BY <1>2
    <2> QED
      BY <1>2, <2>1, <2>2
  <1> HIDE DEF all, ids, firsts
  <1>4. new \in Seq(DOMAIN from)
    BY <1>3, KeptType
  <1> HIDE DEF new
  <1>5. NextNets(n) = [i \in DOMAIN new |-> [net |-> all[new[i]], call |-> "chain"]]
    BY DEF NextNets, new, ids, firsts, all, from
  <1>6. /\ DOMAIN new = 1 .. Len(new) /\ Len(new) \in Nat
        /\ \A i \in DOMAIN new : new[i] \in DOMAIN from
    BY <1>4
  <1>7. \A i \in DOMAIN new : [net |-> all[new[i]], call |-> "chain"] \in Calling
    BY <1>3, <1>6 DEF Calling
  <1> HIDE DEF Calling
  <1> QED
    BY <1>5, <1>6, <1>7

LEMMA SameNetsThere ==
    ASSUME UNCHANGED <<arch, nets>>
    PROVE  /\ States' = States /\ Net' = Net /\ InNets' = InNets /\ Calling' = Calling
           /\ \A n : Host(n)' = Host(n) /\ LayersOf(n)' = LayersOf(n)
           /\ \A n : HasDeadEnd(n)' <=> HasDeadEnd(n)
           /\ NoRemainder' <=> NoRemainder
  BY DEF States, Net, InNets, Calling, Host, LayersOf, HasDeadEnd, NoRemainder, Layer

LEMMA BecomesTyped ==
    ASSUME UNCHANGED <<arch, nets>>, NEW st \in States, Becomes(st)
    PROVE  (State \in States)'
  <1>1. /\ has' = st.has /\ size' = st.size /\ gradient' = st.gradient /\ batch' = st.batch
        /\ content' = [l \in Layer |-> IF l \in st.has THEN st.content[l] ELSE 0]
    BY DEF Becomes
  <1>2. content' \in [Layer -> Nat]
    BY <1>1, StateFields
  <1>3. States' = States
    BY SameNetsThere
  <1>4. State' = [has |-> has', content |-> content', size |-> size', batch |-> batch',
                  gradient |-> gradient', broken |-> FALSE]
    BY DEF State
  <1>5. State' \in States
    BY <1>1, <1>2, <1>4, StateFields DEF States
  <1> QED
    BY <1>3, <1>5

LEMMA StateKept ==
    ASSUME State \in States, UNCHANGED <<arch, nets, has, content, size, batch, gradient>>
    PROVE  (State \in States)'
  BY SameNetsThere DEF State

\* A net's inputs are forgotten, or come from the layers it goes on from.
LEMMA ChainStep ==
    ASSUME NetsThere, ChainInv, UNCHANGED <<arch, nets>>, NEW n \in Net, NEW s,
           s = <<>> \/ (CanChain(n) /\ s = Model(n).feeds),
           netinput' = [netinput EXCEPT ![n] = s]
    PROVE  ChainInv'
  <1>1. n \in DOMAIN arch.models
    BY DEF NetsThere
  <1>2. s \in Seq(InNets) /\ (s # <<>> => Len(s) = Len(Host(n).lin))
    <2>1. CASE s = <<>>
      BY <2>1
    <2>2. CASE CanChain(n) /\ s = Model(n).feeds
      <3>1. s \in Seq(Layer) /\ Elements(s) \subseteq InNets
        BY <2>2, NetThere DEF CanChain
      <3>2. \A i \in 1 .. Len(s) : s[i] \in InNets
        BY <3>1 DEF Elements
      <3> QED
        BY <2>2, <3>1, <3>2 DEF CanChain
    <2> QED
      BY <2>1, <2>2
  <1>3. netinput' \in [DOMAIN arch.models -> Seq(InNets)]
    BY <1>1, <1>2 DEF ChainInv
  <1>4. ASSUME NEW m \in DOMAIN arch.models, netinput'[m] # <<>>
        PROVE  m \in Net /\ Len(netinput'[m]) = Len(Host(m).lin)
    <2>1. CASE m = n
      BY <1>1, <1>2, <1>4, <2>1 DEF ChainInv
    <2>2. CASE m # n
      BY <1>1, <1>4, <2>2 DEF ChainInv
    <2> QED
      BY <2>1, <2>2
  <1>5. Net' = Net /\ InNets' = InNets /\ \A m : Host(m)' = Host(m)
    BY SameNetsThere
  <1> QED
    BY <1>3, <1>4, <1>5 DEF ChainInv

LEMMA ChainKept ==
    ASSUME ChainInv, UNCHANGED <<arch, nets, netinput>>
    PROVE  ChainInv'
  BY SameNetsThere DEF ChainInv

LEMMA FeedingType ==
    ASSUME NetsThere, State \in States, NEW n \in Net, CanChain(n)
    PROVE  FeedingBatch(n) \in Nat
  <1>1. Model(n).feeds \in Seq(Layer) /\ Model(n).feeds # <<>>
    BY NetThere DEF CanChain
  <1>2. Model(n).feeds[1] \in InNets
    BY <1>1 DEF CanChain, Elements
  <1>3. NetOf(Model(n).feeds[1]) \in DOMAIN arch.models
    BY <1>2, NetOfType DEF NetsThere
  <1>4. batch \in [DOMAIN arch.models -> Nat]
    BY StateFields DEF State
  <1> QED
    BY <1>3, <1>4 DEF FeedingBatch

\* The calls that change what there is of a net's deltas, but do not crash.
LEMMA CalledSweepInv ==
    ASSUME NetsThere, SweepInv, Called
    PROVE  SweepInv'
  <1>0. UNCHANGED <<arch, nets>> /\ phase = "built"
    BY CalledKeeps DEF graphVars, buildVars
  <1>1. State \in States /\ ChainInv /\ todo \in Seq(Calling)
    BY DEF SweepInv
  <1>2. ASSUME (State \in States)', ChainInv', todo' \in Seq(Calling) PROVE SweepInv'
    BY <1>0, <1>2, SameNetsThere DEF SweepInv
  <1>3. ASSUME NEW n \in Net, ZeroCall(n) PROVE SweepInv'
    <2>1. /\ gradient' = ZeroGrads(State, n).gradient
          /\ UNCHANGED <<has, content, size, batch, netinput, todo>>
      BY <1>3 DEF ZeroCall, deltaVars, chainVars
    <2>2. ZeroGrads(State, n) \in States
      BY <1>1, ZeroGradsFacts
    <2>3. gradient' \in [Layer -> Nat]
      BY <2>1, <2>2, StateFields
    <2>4. (State \in States)'
      <3>1. /\ has \in SUBSET Layer /\ content \in [Layer -> Nat] /\ size \in [Layer -> Nat]
            /\ batch \in [DOMAIN arch.models -> Nat]
        BY <1>1, StateFields DEF State
      <3>2. [has |-> has, content |-> content, size |-> size, batch |-> batch,
             gradient |-> gradient', broken |-> FALSE] \in States
        BY <2>3, <3>1 DEF States
      <3> QED
        BY <1>0, <2>1, <3>2, SameNetsThere DEF State
    <2> QED
      BY <1>0, <1>1, <1>2, <2>1, <2>4, ChainKept
  <1>4. ASSUME NEW n \in Net, ForwardChain(n) PROVE SweepInv'
    <2> DEFINE b == FeedingBatch(n)
               st == Resized(Reset(State, n), n, b)
    <2>1. /\ CanChain(n) /\ Becomes(st) /\ todo' = todo
          /\ netinput' = [netinput EXCEPT ![n] = Model(n).feeds]
      BY <1>4 DEF ForwardChain, Feed
    <2>2. n \in DOMAIN arch.models /\ b \in Nat /\ Reset(State, n) \in States
      BY <1>1, <2>1, FeedingType, ResetFacts DEF NetsThere
    <2>3. st \in States
      BY <2>2, ResizedFacts
    <2> HIDE DEF st
    <2> QED
      BY <1>0, <1>1, <1>2, <2>1, <2>3, BecomesTyped, ChainStep
  <1>5. ASSUME NEW n \in Net, Backward(n) PROVE SweepInv'
    <2>1. /\ UNCHANGED <<has, content, size, batch, gradient, netinput>>
          /\ todo' = <<[net |-> n, call |-> "target"]>>
      BY <1>5 DEF Backward, deltaVars, chainVars
    <2>2. todo' \in Seq(Calling)
      BY <2>1 DEF Calling
    <2> QED
      BY <1>0, <1>1, <1>2, <2>1, <2>2, StateKept, ChainKept
  <1>6. ASSUME NEW n \in Net, Optimize(n) PROVE SweepInv'
    <2>1. /\ UNCHANGED <<has, content, size, batch, gradient, netinput>>
          /\ todo' = <<[net |-> n, call |-> "loss"]>>
      BY <1>6 DEF Optimize, deltaVars, chainVars
    <2>2. todo' \in Seq(Calling)
      BY <2>1 DEF Calling
    <2> QED
      BY <1>0, <1>1, <1>2, <2>1, <2>2, StateKept, ChainKept
  <1>7. ASSUME NEW n \in Net, NEW b \in arch.sizes, Forward(n, b) PROVE SweepInv'
    <2> DEFINE st == Resized(Reset(State, n), n, b)
    <2>1. Becomes(st) /\ UNCHANGED <<todo, netinput>>
      BY <1>7 DEF Forward, Feed
    <2>2. n \in DOMAIN arch.models /\ b \in Nat /\ Reset(State, n) \in States
      BY <1>1, TrainingAssumption, ResetFacts DEF NetsThere
    <2>3. st \in States
      BY <2>2, ResizedFacts
    <2> HIDE DEF st
    <2> QED
      BY <1>0, <1>1, <1>2, <2>1, <2>3, BecomesTyped, ChainKept
  <1>8. ASSUME NEW n \in Net, NEW b \in arch.sizes, EvalBatch(n, b) PROVE SweepInv'
    <2> DEFINE st == Resized(State, n, b)
               more == ZeroGrads(Reset(st, n), n)
    <2>1. (Becomes(st) \/ Becomes(more)) /\ UNCHANGED <<todo, netinput>>
      BY <1>8 DEF EvalBatch, EvalTooFew, EvalAll
    <2>2. n \in DOMAIN arch.models /\ b \in Nat
      BY TrainingAssumption DEF NetsThere
    <2>3. st \in States
      BY <1>1, <2>2, ResizedFacts
    <2> HIDE DEF st
    <2>4. more \in States
      BY <2>3, ResetFacts, ZeroGradsFacts
    <2> HIDE DEF more
    <2> QED
      BY <1>0, <1>1, <1>2, <2>1, <2>3, <2>4, BecomesTyped, ChainKept
  <1>9. ASSUME NEW n \in Net, NEW fill \in Fill, Compute(n, fill) PROVE SweepInv'
    <2> DEFINE b == FeedingBatch(n)
               st == Resized(ZeroGrads(Reset(State, n), n), n, b)
               more == DoDelta(st, n, fill)
    <2>1. /\ CanChain(n) /\ (Becomes(st) \/ Becomes(more)) /\ todo' = todo
          /\ netinput' = [netinput EXCEPT ![n] = Model(n).feeds]
      BY <1>9 DEF Compute, Feed
    <2>2. /\ n \in DOMAIN arch.models /\ b \in Nat /\ fill \in Nat
          /\ ZeroGrads(Reset(State, n), n) \in States
      BY <1>1, <2>1, FeedingType, ResetFacts, ZeroGradsFacts, FillAssumption DEF NetsThere
    <2>3. st \in States
      BY <2>2, ResizedFacts
    <2> HIDE DEF st
    <2>4. more \in States
      BY <2>2, <2>3, DoDeltaFacts
    <2> HIDE DEF more
    <2> QED
      BY <1>0, <1>1, <1>2, <2>1, <2>3, <2>4, BecomesTyped, ChainStep
  <1>10. ASSUME NEW l, Detach(l) PROVE SweepInv'
    <2>1. UNCHANGED <<has, content, size, batch, gradient, netinput, todo>>
      BY <1>10 DEF Detach, deltaVars, gradVars
    <2> QED
      BY <1>0, <1>1, <1>2, <2>1, StateKept, ChainKept
  <1> QED
    BY <1>3, <1>4, <1>5, <1>6, <1>7, <1>8, <1>9, <1>10 DEF Called

\* One net's sweep crashes only if the net has a layer that leads nowhere.
LEMMA SweepStepInv ==
    ASSUME NetsThere, SweepInv, NEW fill \in Fill, SweepStep(fill)
    PROVE  SweepInv' /\ (phase' = "crashed" => \E n \in Net : HasDeadEnd(n))
  <1>0. UNCHANGED <<arch, nets>> /\ phase = "built" /\ todo # <<>> /\ Sweep(fill)
    BY DEF SweepStep
  <1>1. State \in States /\ ChainInv /\ todo \in Seq(Calling)
    BY DEF SweepInv
  <1> DEFINE n == Head(todo).net
             goesOn == Head(todo).call # "target"
             outs == DoDelta(State, n, fill)
             swept == DoBackward(outs, n, fill)
             copied == CopyDeltas(swept, n, fill)
             st == IF goesOn /\ ~ swept.broken THEN copied ELSE swept
  <1>2. /\ Becomes(st)
        /\ phase' = IF st.broken THEN "crashed" ELSE phase
        /\ todo' = (IF goesOn THEN NextNets(n) ELSE <<>>) \o Tail(todo)
        /\ netinput' = IF goesOn THEN [netinput EXCEPT ![n] = <<>>] ELSE netinput
    BY <1>0 DEF Sweep
  <1>3. n \in Net /\ fill \in Nat /\ Tail(todo) \in Seq(Calling)
    <2>1. Head(todo) \in Calling /\ Tail(todo) \in Seq(Calling)
      <3> HIDE DEF Calling
      <3> QED
        BY <1>0, <1>1
    <2> QED
      BY <2>1, FillAssumption DEF Calling
  <1>4. Passing(n)
    BY <1>1, <1>3, PassingThere
  <1> HIDE DEF n, goesOn
  <1>5. /\ outs \in States /\ outs.broken = State.broken
        /\ Elements(Host(n).lout) \subseteq outs.has
    BY <1>1, <1>3, DoDeltaFacts
  <1>6. ~ outs.broken
    BY <1>5 DEF State
  <1> HIDE DEF outs
  <1>7. swept \in States /\ (~ HasDeadEnd(n) => ~ swept.broken)
    BY <1>3, <1>5, <1>6, DoBackwardFacts
  <1> HIDE DEF swept
  <1>8. copied \in States /\ copied.broken = swept.broken
    BY <1>3, <1>4, <1>7, CopyDeltasFacts
  <1> HIDE DEF copied
  <1>9. st \in States /\ (~ HasDeadEnd(n) => ~ st.broken)
    BY <1>7, <1>8
  <1> HIDE DEF st
  <1>10. (State \in States)'
    BY <1>0, <1>2, <1>9, BecomesTyped
  <1>11. ChainInv'
    BY <1>0, <1>1, <1>2, <1>3, ChainStep, ChainKept
  <1>12. todo' \in Seq(Calling)
    <2>1. NextNets(n) \in Seq(Calling)
      BY <1>1, <1>3, NextNetsType
    <2> HIDE DEF Calling
    <2> QED
      BY <1>2, <1>3, <2>1
  <1>13. phase' = "crashed" => HasDeadEnd(n)
    BY <1>0, <1>2, <1>9
  <1> QED
    BY <1>0, <1>3, <1>10, <1>11, <1>12, <1>13, SameNetsThere DEF SweepInv

\* train_batch() crashes only so, or for an lsb of 0.
LEMMA TrainBatchInv ==
    ASSUME NetsThere, SweepInv, NEW n \in Net, NEW b \in arch.sizes, NEW fill \in Fill,
           TrainBatch(n, b, fill)
    PROVE  SweepInv' /\ (phase' = "crashed" => NoRemainder \/ HasDeadEnd(n))
  <1>0. /\ UNCHANGED <<arch, nets, netinput, todo>> /\ phase = "built"
        /\ TrainTooFew(n, b) \/ TrainAll(n, b, fill)
    BY DEF TrainBatch, Call
  <1>1. State \in States /\ ChainInv /\ todo \in Seq(Calling)
    BY DEF SweepInv
  <1>2. n \in DOMAIN arch.models /\ b \in Nat /\ fill \in Nat
    BY TrainingAssumption, FillAssumption DEF NetsThere
  <1> DEFINE sized == Resized(State, n, b)
             st == ZeroGrads(Reset(sized, n), n)
             outs == DoDelta(st, n, fill)
             trained == DoBackward(outs, n, fill)
  <1>3. sized \in States /\ sized.broken = State.broken
    BY <1>1, <1>2, ResizedFacts
  <1>4. ASSUME (State \in States)' PROVE SweepInv'
    BY <1>0, <1>1, <1>4, ChainKept, SameNetsThere DEF SweepInv
  <1>5. CASE TrainTooFew(n, b)
    <2>1. Becomes(sized) /\ phase' = phase
      BY <1>5 DEF TrainTooFew
    <2> HIDE DEF sized
    <2> QED
      BY <1>0, <1>3, <1>4, <2>1, BecomesTyped
  <1>6. CASE TrainAll(n, b, fill)
    <2>1. /\ Becomes(trained)
          /\ phase' = IF trained.broken \/ NoRemainder THEN "crashed" ELSE phase
      BY <1>6 DEF TrainAll
    <2>2. ~ sized.broken
      BY <1>3 DEF State
    <2> HIDE DEF sized
    <2>3. st \in States /\ ~ st.broken
      BY <1>3, <2>2, ResetFacts, ZeroGradsFacts
    <2> HIDE DEF st
    <2>4. outs \in States /\ ~ outs.broken /\ Elements(Host(n).lout) \subseteq outs.has
      BY <1>2, <2>3, DoDeltaFacts
    <2> HIDE DEF outs
    <2>5. trained \in States /\ (~ HasDeadEnd(n) => ~ trained.broken)
      BY <1>2, <2>4, DoBackwardFacts
    <2> HIDE DEF trained
    <2>6. (State \in States)'
      BY <1>0, <2>1, <2>5, BecomesTyped
    <2> QED
      BY <1>0, <1>4, <2>1, <2>5, <2>6
  <1> QED
    BY <1>0, <1>5, <1>6

LEMMA UpdateInv ==
    ASSUME SweepInv, NEW n \in Net, Update(n)
    PROVE  SweepInv' /\ (phase' = "crashed" => NoRemainder)
  <1>1. /\ UNCHANGED <<arch, nets, has, content, size, batch, gradient, netinput, todo>>
        /\ phase = "built" /\ phase' \in {phase, IF NoRemainder THEN "crashed" ELSE phase}
    BY DEF Update, Call, backVars, deltaVars, gradVars, chainVars
  <1>2. (State \in States)' /\ ChainInv'
    BY <1>1, StateKept, ChainKept DEF SweepInv
  <1> QED
    BY <1>1, <1>2, SameNetsThere DEF SweepInv

\* Building a net leaves the nets before it, and what was fed to them.
LEMMA BuildSweepInv ==
    ASSUME NetsThere, SweepInv, Build
    PROVE  SweepInv'
  <1>1. /\ arch' = arch /\ UNCHANGED <<has, content, size, batch, gradient, netinput, todo>>
        /\ nets' = nets \/ \E x : nets' = Append(nets, x)
    BY DEF Build, GraphStep, StartModel, Walk, TurnBack, WalkBack, Collect, Visit, Resort,
           SortedForward, Split, Built, BeginSort, backVars, deltaVars, gradVars, chainVars
  <1>2. Net \subseteq Net' /\ \A n \in Net : nets'[n] = nets[n]
    <2> DEFINE R == [host : BuiltNet, device : BuiltNet]
    <2>1. nets \in Seq(R)
      BY DEF NetsThere, NetsInv
    <2> HIDE DEF R
    <2>2. ASSUME NEW x, nets' = Append(nets, x)
          PROVE  Net \subseteq Net' /\ \A n \in Net : nets'[n] = nets[n]
      BY <2>1, <2>2 DEF Net
    <2> QED
      BY <1>1, <2>2 DEF Net
  <1>3. \A n \in Net : Host(n)' = Host(n) /\ LayersOf(n)' = LayersOf(n)
    BY <1>2 DEF Host, LayersOf
  <1>4. InNets \subseteq InNets' /\ Calling \subseteq Calling'
    BY <1>2, <1>3 DEF InNets, Calling
  <1>5. (State \in States)'
    BY <1>1 DEF SweepInv, State, States, Layer
  <1>6. ChainInv'
    <2>1. netinput \in [DOMAIN arch.models -> Seq(InNets)]
      BY DEF SweepInv, ChainInv
    <2>2. Seq(InNets) \subseteq Seq(InNets')
      BY <1>4
    <2>3. netinput \in [DOMAIN arch.models -> Seq(InNets')]
      BY <2>1, <2>2
    <2> QED
      BY <1>1, <1>2, <1>3, <2>3 DEF SweepInv, ChainInv
  <1>7. (todo \in Seq(Calling))'
    <2>1. todo \in Seq(Calling) /\ todo' = todo
      BY <1>1 DEF SweepInv
    <2> HIDE DEF Calling
    <2> QED
      BY <1>4, <2>1
  <1> QED
    BY <1>5, <1>6, <1>7 DEF SweepInv

LEMMA NextCrashInv == CrashInv /\ [Next]_vars => CrashInv'
  <1> SUFFICES ASSUME CrashInv, [Next]_vars PROVE CrashInv'
    OBVIOUS
  <1>1. ProgramInv /\ CountInv /\ SweepInv /\ CrashHasCause /\ NetsThere
    BY CrashInvNets DEF CrashInv
  <1>2. ProgramInv' /\ CountInv'
    BY <1>1, NextProgramInv, NextCountInv
  <1>3. CASE Build
    <2>1. phase' # "crashed"
      BY <1>3 DEF Build, GraphStep, StartModel, Walk, TurnBack, WalkBack, Collect, Visit,
                  Resort, SortedForward, Split, Built, BeginSort, Idle, Sorting
    <2> QED
      BY <1>1, <1>2, <1>3, <2>1, BuildSweepInv DEF CrashInv, CrashHasCause
  <1>4. CASE UNCHANGED vars
    <2>1. UNCHANGED <<arch, nets, phase, has, content, size, batch, gradient, netinput, todo>>
      BY <1>4 DEF vars, graphVars, buildVars, backVars, deltaVars, gradVars, chainVars
    <2>2. (State \in States)' /\ ChainInv'
      BY <1>1, <2>1, StateKept, ChainKept DEF SweepInv
    <2> QED
      BY <1>1, <1>2, <2>1, <2>2, SameNetsThere DEF CrashInv, SweepInv, CrashHasCause
  <1>5. CASE Next /\ ~ Build
    <2>1. UNCHANGED <<arch, nets>> /\ phase = "built"
      BY <1>5, CallsKeepGraph DEF GraphKept
    <2>2. SweepInv' /\ (phase' = "crashed" => NoRemainder \/ \E n \in Net : HasDeadEnd(n))
      <3>1. CASE Called
        <4>1. phase' = "built"
          BY <3>1, CalledKeeps DEF graphVars, buildVars
        <4> QED
          BY <1>1, <3>1, <4>1, CalledSweepInv
      <3>2. ASSUME NEW fill \in Fill, SweepStep(fill)
            PROVE  SweepInv' /\ (phase' = "crashed" => \E n \in Net : HasDeadEnd(n))
        BY <1>1, <3>2, SweepStepInv
      <3>3. ASSUME NEW n \in Net, Update(n)
            PROVE  SweepInv' /\ (phase' = "crashed" => NoRemainder)
        BY <1>1, <3>3, UpdateInv
      <3>4. ASSUME NEW n \in Net, NEW b \in arch.sizes, NEW fill \in Fill,
                   TrainBatch(n, b, fill)
            PROVE  SweepInv' /\ (phase' = "crashed" => NoRemainder \/ HasDeadEnd(n))
        BY <1>1, <3>4, TrainBatchInv
      <3> QED
        BY <1>5, <3>1, <3>2, <3>3, <3>4, NextCases
    <2> QED
      BY <1>2, <2>1, <2>2, SameNetsThere DEF CrashInv, CrashHasCause
  <1> QED
    BY <1>3, <1>4, <1>5

LEMMA SpecCrashInv == Spec => []CrashInv
  <1>1. Init => CrashInv
    <2> SUFFICES ASSUME Init PROVE CrashInv
      OBVIOUS
    <2>1. GraphInit /\ BackInit /\ GraphInv /\ phase = "model" /\ nets = <<>>
      BY InitGraphInv DEF Init, GraphInit
    <2>2. ProgramInv /\ CrashHasCause
      BY <2>1 DEF ProgramInv, CrashHasCause
    <2>3. CountInv
      <3>1. Len(nets) = 0
        BY <2>1
      <3>2. arch.models \in Seq([in : Seq(DOMAIN arch.parent), out : Seq(DOMAIN arch.parent),
                                 losses : Nat, mem : {0, 1}, isLoss : BOOLEAN,
                                 feeds : Seq(DOMAIN arch.parent)])
        BY <2>1, ArchitectureAssumption DEF GraphInit
      <3>3. Len(arch.models) \in Nat
        BY <3>2
      <3> QED
        BY <2>1, <3>1, <3>3 DEF CountInv, Sorting
    <2>4. SweepInv
      <3>1. /\ has = {} /\ todo = <<>>
            /\ content = [l \in Layer |-> 0] /\ size = [l \in Layer |-> 0]
            /\ gradient = [l \in Layer |-> 0]
            /\ netinput = [n \in DOMAIN arch.models |-> <<>>]
            /\ batch = [n \in DOMAIN arch.models |-> 1]
        BY <2>1 DEF BackInit
      <3>2. State \in States
        BY <3>1 DEF State, States
      <3>3. ChainInv
        BY <3>1 DEF ChainInv
      <3> QED
        BY <3>1, <3>2, <3>3 DEF SweepInv
    <2> QED
      BY <2>2, <2>3, <2>4 DEF CrashInv
  <1> QED
    BY <1>1, NextCrashInv, PTL DEF Spec

\* Whatever nets a program builds and in whatever order it trains them: a sweep
\* finds every delta it needs, also where mem_level frees deltas on the way,
\* unless one of the net's layers leads nowhere; and nothing else breaks but the
\* division by an lsb of 0.
THEOREM SweepsFindTheirDeltas == Spec => []CrashHasCause
  <1>1. CrashInv => CrashHasCause
    BY DEF CrashInv
  <1> QED
    BY <1>1, SpecCrashInv, PTL
=============================================================================
