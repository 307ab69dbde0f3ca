---------------------------- MODULE SweepProofs ----------------------------
(***************************************************************************)
(* Proofs about Backprop and Training, for all programs: what the sums over *)
(* paths are, that the state of a program keeps its types, and what a       *)
(* backward sweep leaves: that the gradients of a program that zeroes them   *)
(* between its sweeps are the sums over the paths from what feeds them.      *)
(***************************************************************************)
EXTENDS NetProofs

-----------------------------------------------------------------------------
(* Sums over sets.                                                          *)

Some(s) == CHOOSE x \in s : TRUE

\* f is the function that MapThenSumSet() defines for the numbers F of S.
SumOf(f, S, F) ==
    \A s \in SUBSET S : f[s] = IF s = {} THEN 0 ELSE F[Some(s)] + f[s \ {Some(s)}]

LEMMA SomeFacts ==
    ASSUME NEW S, IsFiniteSet(S), NEW s \in SUBSET S, s # {}
    PROVE  /\ Some(s) \in s /\ s \ {Some(s)} \in SUBSET S
           /\ Cardinality(s) \in Nat \ {0}
           /\ Cardinality(s \ {Some(s)}) = Cardinality(s) - 1
  <1>1. Some(s) \in s
    BY DEF Some
  <1>2. IsFiniteSet(s)
    BY FS_Subset
  <1>3. Cardinality(s) \in Nat /\ Cardinality(s) # 0
    BY <1>2, FS_CardinalityType, FS_EmptySet
  <1>4. Cardinality(s \ {Some(s)}) = Cardinality(s) - 1
    BY <1>1, <1>2, FS_RemoveElement
  <1> QED
    BY <1>1, <1>3, <1>4

LEMMA SumExists ==
    ASSUME NEW S, IsFiniteSet(S), NEW F \in [S -> Nat]
    PROVE  \E f \in [SUBSET S -> Nat] : SumOf(f, S, F)
  <1> DEFINE Step(f, s) == IF s = {} THEN 0 ELSE F[Some(s)] + f[s \ {Some(s)}]
             Upto(k) == \E f \in [SUBSET S -> Nat] :
                            \A s \in SUBSET S : Cardinality(s) <= k => f[s] = Step(f, s)
             B == {k \in Nat : Upto(k)}
  <1>1. \A s \in SUBSET S : /\ Cardinality(s) \in Nat /\ (Cardinality(s) = 0 <=> s = {})
                            /\ Cardinality(s) <= Cardinality(S)
    BY FS_Subset, FS_CardinalityType, FS_EmptySet
  <1>2. Upto(0)
    <2> DEFINE f == [s \in SUBSET S |-> 0]
    <2>1. f \in [SUBSET S -> Nat] /\ \A s \in SUBSET S : f[s] = 0
      OBVIOUS
    <2> HIDE DEF f
    <2>2. \A s \in SUBSET S : Cardinality(s) <= 0 => f[s] = Step(f, s)
      BY <1>1, <2>1
    <2> QED
      BY <2>1, <2>2
  <1>3. ASSUME NEW k \in Nat, Upto(k) PROVE Upto(k + 1)
    <2>1. PICK f \in [SUBSET S -> Nat] :
              \A s \in SUBSET S : Cardinality(s) <= k => f[s] = Step(f, s)
      BY <1>3
    <2>2. \A s \in SUBSET S : Step(f, s) \in Nat
      <3> SUFFICES ASSUME NEW s \in SUBSET S PROVE Step(f, s) \in Nat
        OBVIOUS
      <3>1. CASE s = {}
        BY <3>1
      <3>2. CASE s # {}
        <4>1. Some(s) \in S /\ s \ {Some(s)} \in SUBSET S
          BY <3>2, SomeFacts
        <4>2. F[Some(s)] \in Nat /\ f[s \ {Some(s)}] \in Nat
          BY <4>1
        <4> QED
          BY <3>2, <4>2
      <3> QED
        BY <3>1, <3>2
    <2> DEFINE h == [s \in SUBSET S |-> Step(f, s)]
    <2>3. h \in [SUBSET S -> Nat] /\ \A s \in SUBSET S : h[s] = Step(f, s)
      <3> HIDE DEF Step
      <3> QED
        BY <2>2
    <2> HIDE DEF h
    <2>4. ASSUME NEW s \in SUBSET S, Cardinality(s) <= k + 1 PROVE h[s] = Step(h, s)
      <3>1. CASE s = {}
        BY <2>3, <3>1
      <3>2. CASE s # {}
        <4>1. /\ s \ {Some(s)} \in SUBSET S /\ Cardinality(s) \in Nat
              /\ Cardinality(s \ {Some(s)}) = Cardinality(s) - 1
          BY <3>2, SomeFacts
        <4>2. Cardinality(s \ {Some(s)}) <= k
          BY <2>4, <4>1
        <4>3. h[s \ {Some(s)}] = f[s \ {Some(s)}]
          <5> HIDE DEF Step
          <5> QED
            BY <2>1, <2>3, <4>1, <4>2
        <4> QED
          BY <2>3, <3>2, <4>3
      <3> QED
        BY <3>1, <3>2
    <2> HIDE DEF Step
    <2> QED
      BY <2>3, <2>4
  <1>4. Upto(Cardinality(S))
    <2>1. 0 \in B /\ \A k \in Nat : k \in B => k + 1 \in B
      <3> HIDE DEF Upto
      <3> QED
        BY <1>2, <1>3
    <2> HIDE DEF B
    <2>2. Cardinality(S) \in B
      BY <2>1, CountUp, FS_CardinalityType
    <2> HIDE DEF Upto
    <2> QED
      BY <2>2 DEF B
  <1>5. PICK f \in [SUBSET S -> Nat] :
            \A s \in SUBSET S : Cardinality(s) <= Cardinality(S) => f[s] = Step(f, s)
    BY <1>4
  <1>6. \A s \in SUBSET S : f[s] = Step(f, s)
    <2> HIDE DEF Step
    <2> QED
      BY <1>1, <1>5
  <1> QED
    BY <1>6 DEF SumOf

\* There is only one.
LEMMA OneSum ==
    ASSUME NEW S, IsFiniteSet(S), NEW f, NEW g, NEW F, NEW G, SumOf(f, S, F), SumOf(g, S, G),
           \A x \in S : F[x] = G[x]
    PROVE  f[S] = g[S]
  <1> DEFINE Same(k) == \A s \in SUBSET S : Cardinality(s) = k => f[s] = g[s]
             B == {k \in Nat : Same(k)}
  <1>1. \A s \in SUBSET S : Cardinality(s) = 0 <=> s = {}
    BY FS_Subset, FS_EmptySet
  <1>2. Same(0)
    <2> SUFFICES ASSUME NEW s \in SUBSET S, Cardinality(s) = 0 PROVE f[s] = g[s]
      OBVIOUS
    <2>1. s = {}
      BY <1>1
    <2> QED
      BY <2>1 DEF SumOf
  <1>3. ASSUME NEW k \in Nat, Same(k) PROVE Same(k + 1)
    <2> SUFFICES ASSUME NEW s \in SUBSET S, Cardinality(s) = k + 1 PROVE f[s] = g[s]
      OBVIOUS
    <2>1. s # {}
      BY <1>1
    <2>2. /\ Some(s) \in S /\ s \ {Some(s)} \in SUBSET S
          /\ Cardinality(s \ {Some(s)}) = k
      BY <2>1, SomeFacts
    <2>3. f[s \ {Some(s)}] = g[s \ {Some(s)}]
      BY <1>3, <2>2
    <2> QED
      BY <2>1, <2>2, <2>3 DEF SumOf
  <1>4. Same(Cardinality(S))
    <2>1. 0 \in B /\ \A k \in Nat : k \in B => k + 1 \in B
      <3> HIDE DEF Same
      <3> QED
        BY <1>2, <1>3
    <2> HIDE DEF B
    <2>2. Cardinality(S) \in B
      BY <2>1, CountUp, FS_CardinalityType
    <2> HIDE DEF Same
    <2> QED
      BY <2>2 DEF B
  <1> QED
    BY <1>4

-----------------------------------------------------------------------------
(* Paths().                                                                 *)

\* What Paths() adds up for layer l of the programs' graph: over edges of nets,
\* over inputs copied from l, and over the losses on l.
EdgesOf(l, through) == {e \in Edge : /\ Parent(e) = l
                                     /\ \E m \in through : {l, Child(e)} \subseteq LayersOf(m)}
CopiesOf(l, through) == {c \in UNION {{k} \X Sources(k) : k \in through} :
                            link[c[1]][c[2]] = l /\ NetOf(l) \in through}
LossesOn(l, n) == {i \in {j \in 1 .. Model(n).losses : j <= Len(Host(n).lout)} :
                      Host(n).lout[i] = l}
CopyTo(c) == Host(c[1]).lin[c[2]]
EdgeSum(p, S) == MapThenSumSet(LAMBDA e : p[Child(e)], S)
CopySum(p, S) == MapThenSumSet(LAMBDA c : p[Host(c[1]).lin[c[2]]], S)

PathsAt(p, l, n, through) ==
    Cardinality(LossesOn(l, n)) + EdgeSum(p, EdgesOf(l, through))
                                + CopySum(p, CopiesOf(l, through))

LEMMA PathsChosen ==
    ASSUME NEW n, NEW through
    PROVE  Paths(n, through) = CHOOSE p : p = [l \in Layer |-> PathsAt(p, l, n, through)]
  BY DEF Paths, PathsAt, LossesOn, EdgeSum, CopySum, EdgesOf, CopiesOf

LEMMA EdgeSumFacts ==
    ASSUME NEW S, IsFiniteSet(S), NEW p, \A e \in S : p[Child(e)] \in Nat
    PROVE  \E f \in [SUBSET S -> Nat] : /\ SumOf(f, S, [e \in S |-> p[Child(e)]])
                                        /\ EdgeSum(p, S) = f[S]
  <1> DEFINE F == [e \in S |-> p[Child(e)]]
             Q(f) == f = [s \in SUBSET S |->
                             IF s = {} THEN 0 ELSE p[Child(Some(s))] + f[s \ {Some(s)}]]
             iter == CHOOSE f : Q(f)
  <1>1. F \in [S -> Nat] /\ \A e \in S : F[e] = p[Child(e)]
    OBVIOUS
  <1>2. PICK f \in [SUBSET S -> Nat] : SumOf(f, S, F)
    <2> HIDE DEF F
    <2> QED
      BY <1>1, SumExists
  <1>3. ASSUME NEW s \in SUBSET S, s # {} PROVE F[Some(s)] = p[Child(Some(s))]
    <2>1. Some(s) \in S
      BY <1>3, SomeFacts
    <2> HIDE DEF F
    <2> QED
      BY <1>1, <2>1
  <1> HIDE DEF F
  <1>4. \A s \in SUBSET S :
            f[s] = IF s = {} THEN 0 ELSE p[Child(Some(s))] + f[s \ {Some(s)}]
    BY <1>2, <1>3 DEF SumOf
  <1>5. Q(f)
    <2>1. f = [s \in SUBSET S |-> f[s]]
      OBVIOUS
    <2> QED
      BY <1>4, <2>1
  <1>6. Q(iter)
    BY <1>5
  <1>7. EdgeSum(p, S) = iter[S]
    BY DEF EdgeSum, MapThenSumSet, MapThenFoldSet, Some
  <1> HIDE DEF iter
  <1>8. \A s \in SUBSET S :
            iter[s] = IF s = {} THEN 0 ELSE p[Child(Some(s))] + iter[s \ {Some(s)}]
    BY <1>6
  <1> HIDE DEF Q
  <1>9. SumOf(iter, S, F)
    BY <1>3, <1>8 DEF SumOf
  <1>10. iter[S] = f[S]
    BY <1>2, <1>9, OneSum
  <1> QED
    BY <1>2, <1>7, <1>10 DEF F

LEMMA CopySumFacts ==
    ASSUME NEW S, IsFiniteSet(S), NEW p, \A c \in S : p[CopyTo(c)] \in Nat
    PROVE  \E f \in [SUBSET S -> Nat] : /\ SumOf(f, S, [c \in S |-> p[CopyTo(c)]])
                                        /\ CopySum(p, S) = f[S]
  <1> DEFINE F == [c \in S |-> p[CopyTo(c)]]
             Q(f) == f = [s \in SUBSET S |->
                             IF s = {} THEN 0 ELSE p[CopyTo(Some(s))] + f[s \ {Some(s)}]]
             iter == CHOOSE f : Q(f)
  <1>1. F \in [S -> Nat] /\ \A c \in S : F[c] = p[CopyTo(c)]
    OBVIOUS
  <1>2. PICK f \in [SUBSET S -> Nat] : SumOf(f, S, F)
    <2> HIDE DEF F
    <2> QED
      BY <1>1, SumExists
  <1>3. ASSUME NEW s \in SUBSET S, s # {} PROVE F[Some(s)] = p[CopyTo(Some(s))]
    <2>1. Some(s) \in S
      BY <1>3, SomeFacts
    <2> HIDE DEF F
    <2> QED
      BY <1>1, <2>1
  <1> HIDE DEF F
  <1>4. \A s \in SUBSET S :
            f[s] = IF s = {} THEN 0 ELSE p[CopyTo(Some(s))] + f[s \ {Some(s)}]
    BY <1>2, <1>3 DEF SumOf
  <1>5. Q(f)
    <2>1. f = [s \in SUBSET S |-> f[s]]
      OBVIOUS
    <2> QED
      BY <1>4, <2>1
  <1>6. Q(iter)
    BY <1>5
  <1>7. CopySum(p, S) = iter[S]
    BY DEF CopySum, CopyTo, MapThenSumSet, MapThenFoldSet, Some
  <1> HIDE DEF iter
  <1>8. \A s \in SUBSET S :
            iter[s] = IF s = {} THEN 0 ELSE p[CopyTo(Some(s))] + iter[s \ {Some(s)}]
    BY <1>6
  <1> HIDE DEF Q
  <1>9. SumOf(iter, S, F)
    BY <1>3, <1>8 DEF SumOf
  <1>10. iter[S] = f[S]
    BY <1>2, <1>9, OneSum
  <1> QED
    BY <1>2, <1>7, <1>10 DEF F

\* No layer is in two nets, a net has the parents of its layers, and nets go on
\* from nets that were built before them.
NetsApart ==
    /\ \A n, m \in Net : n # m => LayersOf(n) \cap LayersOf(m) = {}
    /\ \A n \in Net : \A l \in LayersOf(n) : Elements(arch.parent[l]) \subseteq LayersOf(n)
    /\ \A n \in Net : \A l \in Elements(Model(n).feeds) :
           \A m \in Net : l \in LayersOf(m) => m < n

\* What the nets went on from.
LinkInv ==
    /\ link \in [DOMAIN arch.models -> Seq(InNets)]
    /\ \A n \in DOMAIN arch.models :
           link[n] # <<>> => /\ n \in Net /\ Len(link[n]) = Len(Host(n).lin)
                             /\ Elements(link[n]) \subseteq Elements(Model(n).feeds)

\* Inputs and outputs of a net are layers of it.
EndsInv == \A n \in Net :
    Elements(Host(n).lin) \subseteq LayersOf(n) /\ Elements(Host(n).lout) \subseteq LayersOf(n)

\* Paths lead to layers of lower rank.
Rank(l) == IF l \in InNets
           THEN (Len(nets) - NetOf(l)) * (Len(arch.parent) + 1) + (Len(arch.parent) - l)
           ELSE 0
Ranks == Len(nets) * (Len(arch.parent) + 1) + Len(arch.parent) + 1

LEMMA NetNumbers ==
    ASSUME NetsThere
    PROVE  Len(nets) \in Nat /\ Net = 1 .. Len(nets) /\ IsFiniteSet(Net)
  <1> DEFINE R == [host : BuiltNet, device : BuiltNet]
  <1>1. nets \in Seq(R)
    BY DEF NetsThere, NetsInv
  <1> HIDE DEF R
  <1>2. Len(nets) \in Nat /\ Net = 1 .. Len(nets)
    BY <1>1 DEF Net
  <1> QED
    BY <1>2, FS_Interval

LEMMA NetOfApart ==
    ASSUME NetsApart, NEW n \in Net, NEW l \in LayersOf(n)
    PROVE  l \in InNets /\ NetOf(l) = n
  <1>1. l \in InNets
    BY DEF InNets
  <1>2. NetOf(l) \in Net /\ l \in LayersOf(NetOf(l))
    BY <1>1, NetOfType
  <1> QED
    BY <1>1, <1>2 DEF NetsApart

LEMMA RankOf ==
    ASSUME NetsThere, NetsApart, NEW n \in Net, NEW l \in LayersOf(n)
    PROVE  /\ l \in 1 .. Len(arch.parent) /\ Len(arch.parent) \in Nat
           /\ Rank(l) = (Len(nets) - n) * (Len(arch.parent) + 1) + (Len(arch.parent) - l)
           /\ Rank(l) \in Nat /\ Rank(l) < Ranks /\ Len(nets) - n \in Nat
  <1>1. NetOf(l) = n /\ l \in InNets
    BY NetOfApart
  <1>2. l \in 1 .. Len(arch.parent) /\ Len(arch.parent) \in Nat
    <2>1. l \in Layer
      BY NetThere
    <2> QED
      BY <2>1, LayerFacts DEF NetsThere
  <1>3. Len(nets) \in Nat /\ n \in Nat /\ Len(nets) - n \in Nat /\ Len(nets) - n <= Len(nets)
    BY NetNumbers
  <1>4. /\ (Len(nets) - n) * (Len(arch.parent) + 1) \in Nat
        /\ (Len(nets) - n) * (Len(arch.parent) + 1) <= Len(nets) * (Len(arch.parent) + 1)
    <2>1. Len(arch.parent) + 1 \in Nat
      BY <1>2
    <2> QED
      BY <1>3, <2>1, TimesIsMonotonic
  <1>5. Len(nets) * (Len(arch.parent) + 1) \in Nat
    BY <1>2, <1>3
  <1>6. Rank(l) = (Len(nets) - n) * (Len(arch.parent) + 1) + (Len(arch.parent) - l)
    BY <1>1 DEF Rank
  <1> DEFINE x == (Len(nets) - n) * (Len(arch.parent) + 1)
             y == Len(nets) * (Len(arch.parent) + 1)
  <1>7. Rank(l) = x + (Len(arch.parent) - l) /\ Ranks = y + Len(arch.parent) + 1
    BY <1>6 DEF Ranks
  <1>8. x \in Nat /\ y \in Nat /\ x <= y
    BY <1>4, <1>5
  <1> HIDE DEF x, y
  <1>9. Rank(l) \in Nat /\ Rank(l) < Ranks
    BY <1>2, <1>7, <1>8
  <1> QED
    BY <1>2, <1>3, <1>6, <1>9

LEMMA RankType ==
    ASSUME NetsThere, NetsApart, NEW l \in Layer
    PROVE  Rank(l) \in Nat /\ Rank(l) < Ranks
  <1>1. CASE l \in InNets
    <2>1. NetOf(l) \in Net /\ l \in LayersOf(NetOf(l))
      BY <1>1, NetOfType
    <2> QED
      BY <2>1, RankOf
  <1>2. CASE l \notin InNets
    <2>1. Len(arch.parent) \in Nat /\ Len(nets) \in Nat
      BY LayerFacts, NetNumbers DEF NetsThere
    <2>2. Len(nets) * (Len(arch.parent) + 1) \in Nat
      BY <2>1
    <2> QED
      BY <1>2, <2>1, <2>2 DEF Rank, Ranks
  <1> QED
    BY <1>1, <1>2

\* Within a net a later layer has a lower rank, and so has every layer of a later net.
LEMMA RanksFall ==
    ASSUME NetsThere, NetsApart, NEW n \in Net, NEW m \in Net, NEW l \in LayersOf(n),
           NEW k \in LayersOf(m), n < m \/ (n = m /\ l < k)
    PROVE  Rank(k) < Rank(l)
  <1> DEFINE q == Len(arch.parent) + 1
             a == Len(nets) - n
             b == Len(nets) - m
  <1>1. /\ l \in 1 .. Len(arch.parent) /\ k \in 1 .. Len(arch.parent)
        /\ Len(arch.parent) \in Nat /\ q \in Nat /\ a \in Nat /\ b \in Nat
        /\ Rank(l) = a * q + (Len(arch.parent) - l)
        /\ Rank(k) = b * q + (Len(arch.parent) - k)
    BY RankOf
  <1>2. CASE n < m
    <2>1. b + 1 <= a
      BY <1>2, NetNumbers
    <2> HIDE DEF a, b
    <2>2. (b + 1) * q <= a * q /\ b * q \in Nat /\ a * q \in Nat
      <3>1. b + 1 \in Nat
        BY <1>1
      <3> HIDE DEF q
      <3> QED
        BY <1>1, <2>1, <3>1, TimesIsMonotonic
    <2>3. (b + 1) * q = b * q + q
      <3> HIDE DEF q
      <3> QED
        BY <1>1
    <2> DEFINE x == a * q
               y == b * q
    <2>4. y + q <= x /\ x \in Nat /\ y \in Nat
      BY <2>2, <2>3
    <2>5. Rank(l) = x + (Len(arch.parent) - l) /\ Rank(k) = y + (Len(arch.parent) - k)
      BY <1>1
    <2> HIDE DEF x, y
    <2> QED
      BY <1>1, <2>4, <2>5
  <1>3. CASE n = m /\ l < k
    <2> DEFINE x == a * q
    <2>1. x \in Nat
      BY <1>1
    <2>2. Rank(l) = x + (Len(arch.parent) - l) /\ Rank(k) = x + (Len(arch.parent) - k)
      BY <1>1, <1>3
    <2> HIDE DEF x
    <2> QED
      BY <1>1, <1>3, <2>1, <2>2
  <1> QED
    BY <1>2, <1>3

LEMMA CopiesAreFinite ==
    ASSUME NetsThere, LinkInv
    PROVE  IsFiniteSet(UNION {{k} \X Sources(k) : k \in Net})
  <1>1. ASSUME NEW k \in Net PROVE IsFiniteSet({k} \X Sources(k))
    <2>1. link[k] \in Seq(InNets)
      BY NetThere DEF LinkInv
    <2>2. IsFiniteSet(1 .. Len(link[k])) /\ Sources(k) \subseteq 1 .. Len(link[k])
      BY <2>1, FS_Interval DEF Sources
    <2> QED
      BY <2>2, FS_Subset, FS_Singleton, FS_Product
  <1> DEFINE T == {{k} \X Sources(k) : k \in Net}
             f == [k \in Net |-> {k} \X Sources(k)]
  <1>2. f \in Surjection(Net, T)
    BY DEF Surjection
  <1>3. IsFiniteSet(T)
    BY <1>2, NetNumbers, FS_Surjection
  <1>4. \A x \in T : IsFiniteSet(x)
    BY <1>1
  <1> HIDE DEF T
  <1>5. IsFiniteSet(UNION T)
    BY <1>3, <1>4, FS_UNION
  <1> QED
    BY <1>5 DEF T

LEMMA PathsGoDown ==
    ASSUME NetsThere, NetsApart, LinkInv, EndsInv, NEW through \in SUBSET Net, NEW l \in Layer
    PROVE  /\ IsFiniteSet(EdgesOf(l, through)) /\ IsFiniteSet(CopiesOf(l, through))
           /\ \A e \in EdgesOf(l, through) : Child(e) \in Layer /\ Rank(Child(e)) < Rank(l)
           /\ \A c \in CopiesOf(l, through) : CopyTo(c) \in Layer /\ Rank(CopyTo(c)) < Rank(l)
  <1>1. IsFiniteSet(EdgesOf(l, through))
    <2>1. EdgesOf(l, through) \subseteq Edge
      BY DEF EdgesOf
    <2> QED
      BY <2>1, EdgesAreFinite, FS_Subset DEF NetsThere
  <1>2. IsFiniteSet(CopiesOf(l, through))
    <2>1. CopiesOf(l, through) \subseteq UNION {{k} \X Sources(k) : k \in Net}
      BY DEF CopiesOf
    <2> QED
      BY <2>1, CopiesAreFinite, FS_Subset
  <1>3. ASSUME NEW e \in EdgesOf(l, through)
        PROVE  Child(e) \in Layer /\ Rank(Child(e)) < Rank(l)
    <2>1. e \in Edge /\ Parent(e) = l /\ \E m \in through : {l, Child(e)} \subseteq LayersOf(m)
      BY DEF EdgesOf
    <2>2. PICK m \in Net : l \in LayersOf(m) /\ Child(e) \in LayersOf(m)
      BY <2>1
    <2>3. Child(e) \in Layer /\ l < Child(e)
      BY <2>1, EdgeFacts DEF NetsThere
    <2> QED
      BY <2>2, <2>3, RanksFall
  <1>4. ASSUME NEW c \in CopiesOf(l, through)
        PROVE  CopyTo(c) \in Layer /\ Rank(CopyTo(c)) < Rank(l)
    <2>1. /\ c[1] \in through /\ c[2] \in Sources(c[1]) /\ link[c[1]][c[2]] = l
          /\ NetOf(l) \in through
      BY DEF CopiesOf
    <2>2. PICK n \in Net : n = c[1]
      BY <2>1
    <2>3. PICK i \in DOMAIN link[n] : i = c[2]
      BY <2>1, <2>2 DEF Sources
    <2>4. link[n] \in Seq(InNets) /\ n \in DOMAIN arch.models
      BY NetThere DEF LinkInv
    <2>5. link[n] # <<>>
      BY <2>4
    <2>6. /\ Len(link[n]) = Len(Host(n).lin) /\ link[n][i] = l
          /\ l \in Elements(Model(n).feeds) /\ l \in InNets
      <3>1. /\ Len(link[n]) = Len(Host(n).lin)
            /\ Elements(link[n]) \subseteq Elements(Model(n).feeds)
        BY <2>4, <2>5 DEF LinkInv
      <3>2. link[n][i] = l /\ l \in InNets
        BY <2>1, <2>2, <2>3, <2>4
      <3>3. l \in Elements(link[n])
        BY <2>3, <3>2 DEF Elements
      <3> QED
        BY <3>1, <3>2, <3>3
    <2>7. i \in DOMAIN Host(n).lin
      <3>1. Host(n).lin \in Seq(Layer)
        BY NetThere DEF BuiltNet
      <3> QED
        BY <2>4, <2>6, <3>1
    <2>8. CopyTo(c) = Host(n).lin[i] /\ CopyTo(c) \in LayersOf(n)
      BY <2>2, <2>3, <2>7 DEF CopyTo, EndsInv, Elements
    <2>9. NetOf(l) \in Net /\ l \in LayersOf(NetOf(l)) /\ NetOf(l) < n
      BY <2>6, NetOfType DEF NetsApart
    <2>10. Rank(CopyTo(c)) < Rank(l)
      BY <2>8, <2>9, RanksFall
    <2> QED
      BY <2>8, <2>10, NetThere
  <1> QED
    BY <1>1, <1>2, <1>3, <1>4

LEMMA LossesCounted ==
    ASSUME NetsThere, NEW n \in Net, NEW l
    PROVE  Cardinality(LossesOn(l, n)) \in Nat
  <1>1. Model(n).losses \in Nat
    <2> DEFINE M == [in : Seq(DOMAIN arch.parent), out : Seq(DOMAIN arch.parent),
                     losses : Nat, mem : {0, 1}, isLoss : BOOLEAN,
                     feeds : Seq(DOMAIN arch.parent)]
    <2>1. arch.models \in Seq(M)
      BY ArchitectureAssumption DEF NetsThere
    <2>2. arch.models[n] \in M
      <3> HIDE DEF M
      <3> QED
        BY <2>1 DEF NetsThere
    <2> QED
      BY <2>2 DEF Model
  <1>2. IsFiniteSet(1 .. Model(n).losses) /\ LossesOn(l, n) \subseteq 1 .. Model(n).losses
    BY <1>1, FS_Interval DEF LossesOn
  <1> QED
    BY <1>2, FS_Subset, FS_CardinalityType

\* The paths from a layer are known when those from the layers after it are.
LEMMA PathsAtFacts ==
    ASSUME NetsThere, NetsApart, LinkInv, EndsInv, NEW through \in SUBSET Net, NEW n \in Net,
           NEW l \in Layer, NEW p,
           \A k \in Layer : Rank(k) < Rank(l) => p[k] \in Nat
    PROVE  /\ PathsAt(p, l, n, through) \in Nat
           /\ \A q : (\A k \in Layer : Rank(k) < Rank(l) => q[k] = p[k])
                         => PathsAt(q, l, n, through) = PathsAt(p, l, n, through)
  <1> DEFINE es == EdgesOf(l, through)
             cs == CopiesOf(l, through)
  <1>1. /\ IsFiniteSet(es) /\ IsFiniteSet(cs)
        /\ \A e \in es : Child(e) \in Layer /\ Rank(Child(e)) < Rank(l)
        /\ \A c \in cs : CopyTo(c) \in Layer /\ Rank(CopyTo(c)) < Rank(l)
    BY PathsGoDown
  <1>2. \A q : PathsAt(q, l, n, through) =
                   Cardinality(LossesOn(l, n)) + EdgeSum(q, es) + CopySum(q, cs)
    BY DEF PathsAt
  <1> HIDE DEF es, cs
  <1>3. (\A e \in es : p[Child(e)] \in Nat) /\ (\A c \in cs : p[CopyTo(c)] \in Nat)
    BY <1>1
  <1>4. PICK f \in [SUBSET es -> Nat] :
            SumOf(f, es, [e \in es |-> p[Child(e)]]) /\ EdgeSum(p, es) = f[es]
    BY <1>1, <1>3, EdgeSumFacts
  <1>5. PICK g \in [SUBSET cs -> Nat] :
            SumOf(g, cs, [c \in cs |-> p[CopyTo(c)]]) /\ CopySum(p, cs) = g[cs]
    BY <1>1, <1>3, CopySumFacts
  <1>6. PathsAt(p, l, n, through) \in Nat
    BY <1>2, <1>4, <1>5, LossesCounted
  <1>7. ASSUME NEW q, \A k \in Layer : Rank(k) < Rank(l) => q[k] = p[k]
        PROVE  PathsAt(q, l, n, through) = PathsAt(p, l, n, through)
    <2>1. (\A e \in es : q[Child(e)] = p[Child(e)]) /\ (\A c \in cs : q[CopyTo(c)] = p[CopyTo(c)])
      BY <1>1, <1>7
    <2>2. PICK u \in [SUBSET es -> Nat] :
              SumOf(u, es, [e \in es |-> q[Child(e)]]) /\ EdgeSum(q, es) = u[es]
      BY <1>1, <1>3, <2>1, EdgeSumFacts
    <2>3. PICK v \in [SUBSET cs -> Nat] :
              SumOf(v, cs, [c \in cs |-> q[CopyTo(c)]]) /\ CopySum(q, cs) = v[cs]
      BY <1>1, <1>3, <2>1, CopySumFacts
    <2>4. [e \in es |-> q[Child(e)]] = [e \in es |-> p[Child(e)]]
          /\ [c \in cs |-> q[CopyTo(c)]] = [c \in cs |-> p[CopyTo(c)]]
      BY <2>1
    <2>5. u[es] = f[es] /\ v[cs] = g[cs]
      BY <1>1, <1>4, <1>5, <2>2, <2>3, <2>4, OneSum
    <2> QED
      BY <1>2, <1>4, <1>5, <2>2, <2>3, <2>5
  <1> QED
    BY <1>6, <1>7

\* There are as many paths from every layer as there are, and no more.
LEMMA PathsThere ==
    ASSUME NetsThere, NetsApart, LinkInv, EndsInv, NEW through \in SUBSET Net, NEW n \in Net
    PROVE  /\ Paths(n, through) \in [Layer -> Nat]
           /\ \A l \in Layer : Paths(n, through)[l] = PathsAt(Paths(n, through), l, n, through)
  <1> DEFINE At(p, l) == PathsAt(p, l, n, through)
             Upto(k) == \E p \in [Layer -> Nat] :
                            \A l \in Layer : Rank(l) < k => p[l] = At(p, l)
             B == {k \in Nat : Upto(k)}
  <1>1. /\ \A l \in Layer : Rank(l) \in Nat /\ Rank(l) < Ranks
        /\ Ranks \in Nat
    <2>1. Len(arch.parent) \in Nat /\ Len(nets) \in Nat
      BY LayerFacts, NetNumbers DEF NetsThere
    <2>2. Len(nets) * (Len(arch.parent) + 1) \in Nat
      BY <2>1
    <2> QED
      BY <2>1, <2>2, RankType DEF Ranks
  <1>2. Upto(0)
    <2> DEFINE p == [l \in Layer |-> 0]
    <2>1. p \in [Layer -> Nat]
      OBVIOUS
    <2>2. \A l \in Layer : ~ (Rank(l) < 0)
      BY <1>1
    <2> HIDE DEF p, At
    <2> QED
      BY <2>1, <2>2
  <1>3. ASSUME NEW k \in Nat, Upto(k) PROVE Upto(k + 1)
    <2>1. PICK p \in [Layer -> Nat] : \A l \in Layer : Rank(l) < k => p[l] = At(p, l)
      BY <1>3
    <2>2. \A l \in Layer : At(p, l) \in Nat
      BY <2>1, PathsAtFacts
    <2> DEFINE h == [l \in Layer |-> IF Rank(l) = k THEN At(p, l) ELSE p[l]]
    <2> HIDE DEF At
    <2>3. /\ h \in [Layer -> Nat]
          /\ \A l \in Layer : h[l] = IF Rank(l) = k THEN At(p, l) ELSE p[l]
      BY <2>1, <2>2
    <2> HIDE DEF h
    <2>4. ASSUME NEW l \in Layer, Rank(l) < k + 1 PROVE h[l] = At(h, l)
      <3>1. \A j \in Layer : Rank(j) < Rank(l) => h[j] = p[j]
        BY <1>1, <2>3, <2>4
      <3>2. At(h, l) = At(p, l)
        BY <2>1, <3>1, PathsAtFacts DEF At
      <3> QED
        BY <1>1, <2>1, <2>3, <2>4, <3>2
    <2> QED
      BY <2>3, <2>4
  <1>4. Upto(Ranks)
    <2>1. 0 \in B /\ \A k \in Nat : k \in B => k + 1 \in B
      <3> HIDE DEF Upto
      <3> QED
        BY <1>2, <1>3
    <2> HIDE DEF B
    <2>2. Ranks \in B
      BY <1>1, <2>1, CountUp
    <2> HIDE DEF Upto
    <2> QED
      BY <2>2 DEF B
  <1> DEFINE Q(p) == p = [l \in Layer |-> At(p, l)]
             r == CHOOSE p : Q(p)
  <1>5. \E p : Q(p)
    <2>1. PICK p \in [Layer -> Nat] : \A l \in Layer : Rank(l) < Ranks => p[l] = At(p, l)
      BY <1>4
    <2> HIDE DEF At
    <2>2. p = [l \in Layer |-> p[l]] /\ \A l \in Layer : p[l] = At(p, l)
      BY <1>1, <2>1
    <2>3. p = [l \in Layer |-> At(p, l)]
      BY <2>2
    <2> QED
      BY <2>3
  <1>6. Q(r)
    <2> HIDE DEF Q
    <2> QED
      BY <1>5
  <1>7. Paths(n, through) = r
    BY PathsChosen
  <1> HIDE DEF r
  <1>8. DOMAIN r = Layer /\ r = [l \in Layer |-> r[l]] /\ \A l \in Layer : r[l] = At(r, l)
    <2> HIDE DEF At
    <2> QED
      BY <1>6
  <1> HIDE DEF Q
  <1> DEFINE Typed(k) == \A l \in Layer : Rank(l) < k => r[l] \in Nat
             C == {k \in Nat : Typed(k)}
  <1>9. Typed(0)
    BY <1>1
  <1>10. ASSUME NEW k \in Nat, Typed(k) PROVE Typed(k + 1)
    <2> SUFFICES ASSUME NEW l \in Layer, Rank(l) < k + 1 PROVE r[l] \in Nat
      OBVIOUS
    <2>1. \A j \in Layer : Rank(j) < Rank(l) => r[j] \in Nat
      BY <1>1, <1>10
    <2>2. At(r, l) \in Nat
      BY <2>1, PathsAtFacts
    <2> QED
      BY <1>8, <2>2
  <1>11. Typed(Ranks)
    <2>1. 0 \in C /\ \A k \in Nat : k \in C => k + 1 \in C
      <3> HIDE DEF Typed
      <3> QED
        BY <1>9, <1>10
    <2> HIDE DEF C
    <2>2. Ranks \in C
      BY <1>1, <2>1, CountUp
    <2> HIDE DEF Typed
    <2> QED
      BY <2>2 DEF C
  <1>12. \A l \in Layer : r[l] \in Nat
    BY <1>1, <1>11
  <1>13. \A l \in Layer : r[l] = PathsAt(r, l, n, through)
    BY <1>8
  <1> HIDE DEF At
  <1> QED
    BY <1>7, <1>8, <1>12, <1>13

LEMMA PathsType ==
    ASSUME NetsThere, NetsApart, LinkInv, EndsInv, NEW through \in SUBSET Net, NEW n \in Net
    PROVE  Paths(n, through) \in [Layer -> Nat]
  BY PathsThere

LEMMA MoreDueType ==
    ASSUME NetsThere, NetsApart, LinkInv, EndsInv, NEW through \in SUBSET Net, NEW n \in Net,
           NEW from \in [Layer -> Nat]
    PROVE  MoreDue(from, n, through) \in [Layer -> Nat]
  <1>1. PICK p \in [Layer -> Nat] : p = Paths(n, through)
    BY PathsType
  <1>2. MoreDue(from, n, through) = [l \in Layer |-> from[l] + IF HasWeights(l) THEN p[l] ELSE 0]
    BY <1>1 DEF MoreDue
  <1> QED
    BY <1>2

-----------------------------------------------------------------------------
(* The inputs and outputs of a net are collected with its layers.            *)

LEMMA EndsCollected ==
    ASSUME arch \in Architectures, NEW cr, NEW h, BuiltFrom(cr, h)
    PROVE  Elements(h.lin) \subseteq Elements(h.layers) /\ Elements(h.lout) \subseteq Elements(h.layers)
  <1>1. PICK c \in Seq(Layer) : /\ CollectedFrom(cr, h.lin, h.lout, c)
                                /\ Elements(h.layers) = Elements(c)
    BY DEF BuiltFrom, OrderedFrom
  <1>2. PICK f \in Seq(Layer), b \in Seq(Layer) :
            /\ WalkOf(Succ(cr, h.lout), h.lin, <<>>, f) /\ WalkOf(Pred(cr), h.lout, <<>>, b)
            /\ c = f \o Kept(b, Elements(b) \ Elements(f))
    BY <1>1 DEF CollectedFrom
  <1>3. Elements(<<>>) = {}
    BY DEF Elements
  <1>4. Elements(h.lin) \subseteq Elements(f) /\ Elements(h.lout) \subseteq Elements(b)
    <2>1. /\ Closed(Succ(cr, h.lout), h.lin, <<>>, f) /\ Closed(Pred(cr), h.lout, <<>>, b)
      BY <1>2 DEF WalkOf
    <2> QED
      BY <1>3, <2>1 DEF Closed
  <1>5. Elements(c) = Elements(f) \cup Elements(b)
    BY <1>2, CollectedElements
  <1> QED
    BY <1>1, <1>4, <1>5

LEMMA SameEnds == ASSUME EndsInv, UNCHANGED <<arch, nets>> PROVE EndsInv'
  <1>1. Net' = Net /\ \A n : Host(n)' = Host(n) /\ LayersOf(n)' = LayersOf(n)
    BY SameNetsThere
  <1>2. \A n : /\ Elements(Host(n).lin)' = Elements(Host(n).lin)
               /\ Elements(Host(n).lout)' = Elements(Host(n).lout)
    BY <1>1 DEF Elements
  <1> QED
    BY <1>1, <1>2 DEF EndsInv

LEMMA BuiltEnds == ASSUME GraphInv, PastInv, EndsInv, Built PROVE EndsInv'
  <1> DEFINE h == IF twin = NoNet THEN Finished ELSE twin
             R == [host : BuiltNet, device : BuiltNet]
  <1>1. /\ phase = "bts" /\ Unvisited = {} /\ arch' = arch
        /\ nets' = Append(nets, [host |-> h, device |-> Finished])
    BY DEF Built
  <1>2. \E cr : BuiltFrom(cr, h)
    <2>1. CASE twin = NoNet
      BY <1>1, <2>1, FinishedPast
    <2>2. CASE twin # NoNet
      BY <2>2 DEF PastInv, TwinPast
    <2> QED
      BY <2>1, <2>2
  <1> HIDE DEF h
  <1>3. /\ Elements(h.lin) \subseteq Elements(h.layers)
        /\ Elements(h.lout) \subseteq Elements(h.layers)
    BY <1>2, EndsCollected DEF GraphInv
  <1>4. nets \in Seq(R)
    BY DEF GraphInv, NetsInv
  <1> HIDE DEF R
  <1>5. ASSUME NEW n \in DOMAIN nets' PROVE nets'[n].host = h \/ (n \in Net /\ nets'[n] = nets[n])
    BY <1>1, <1>4 DEF Net
  <1>6. ASSUME NEW n \in DOMAIN nets'
        PROVE  /\ Elements(nets'[n].host.lin) \subseteq Elements(nets'[n].host.layers)
               /\ Elements(nets'[n].host.lout) \subseteq Elements(nets'[n].host.layers)
    BY <1>3, <1>5 DEF EndsInv, Host, LayersOf
  <1> QED
    BY <1>6 DEF EndsInv, Host, LayersOf, Net, Elements

LEMMA NextEndsInv == ProgramInv /\ PastInv /\ EndsInv /\ [Next]_vars => EndsInv'
  <1> SUFFICES ASSUME ProgramInv, PastInv, EndsInv, [Next]_vars PROVE EndsInv'
    OBVIOUS
  <1>1. CASE Build
    <2>1. GraphStep /\ phase # "crashed"
      BY <1>1 DEF Build, GraphStep, StartModel, Walk, TurnBack, WalkBack, Collect, Visit,
                  Resort, SortedForward, Split, Built, Sorting
    <2>2. CASE Built
      BY <2>1, <2>2, BuiltEnds DEF ProgramInv
    <2>3. CASE ~ Built
      <3>1. UNCHANGED <<arch, nets>>
        BY <2>1, <2>3 DEF GraphStep, StartModel, Walk, TurnBack, WalkBack, Collect, Visit,
                          Resort, SortedForward, Split
      <3> QED
        BY <3>1, SameEnds
    <2> QED
      BY <2>2, <2>3
  <1>2. CASE Next /\ ~ Build
    BY <1>2, CallsKeepGraph, SameEnds DEF GraphKept
  <1>3. CASE UNCHANGED vars
    BY <1>3, SameEnds DEF vars, graphVars, buildVars
  <1> QED
    BY <1>1, <1>2, <1>3

-----------------------------------------------------------------------------
(* A view has a delta only if the layer has whose memory it shows.           *)

\* A set that has the parent of each of its views.
ClosedUp(S) == \A v \in S \cap arch.views : arch.parent[v][1] \in S

ViewsBacked(h) == \A v \in h \cap arch.views : Buffer(v) \in h

LEMMA ParentsAreUp ==
    ASSUME arch \in Architectures, NEW l \in arch.views
    PROVE  arch.parent[l][1] \in Elements(arch.parent[l]) /\ l \in Layer
  <1>1. l \in Layer /\ Len(arch.parent[l]) = 1
    BY BackpropAssumption DEF Layer
  <1>2. arch.parent[l] \in Seq(Nat)
    BY <1>1, LayerFacts
  <1>3. 1 \in DOMAIN arch.parent[l]
    BY <1>1, <1>2
  <1> QED
    BY <1>1, <1>3 DEF Elements

LEMMA BufferUp ==
    ASSUME arch \in Architectures, NEW S \in SUBSET Layer, ClosedUp(S), NEW l \in S
    PROVE  Buffer(l) \in S
  <1> DEFINE T == {k \in Layer : k \in S => Buffer(k) \in S}
  <1>1. \A k \in Layer \ arch.views : k \in T
    BY BufferFacts DEF IsView
  <1>2. \A k \in arch.views : arch.parent[k][1] \in T => k \in T
    BY BufferFacts, ParentOfView DEF IsView, ClosedUp
  <1> HIDE DEF T
  <1>3. Layer \subseteq T
    BY <1>1, <1>2, AllLayers
  <1> QED
    BY <1>3 DEF T

\* What NewDeltas() makes is on the way from a view to its memory.
LEMMA NewDeltasUp ==
    ASSUME arch \in Architectures, NEW st, st.has \in SUBSET Layer, NEW l \in Layer
    PROVE  /\ \A S \in SUBSET Layer : l \in S /\ ClosedUp(S) => NewDeltas(l, st) \subseteq S
           /\ \A k \in NewDeltas(l, st) : Buffer(k) = Buffer(l)
           /\ ViewsBacked(st.has) => Buffer(l) \in st.has \cup NewDeltas(l, st)
  <1>0. /\ \A k \in Layer : NewDeltas(k, st) = IF k \in st.has THEN {}
                                ELSE IF IsView(k) THEN {k} \cup NewDeltas(arch.parent[k][1], st)
                                ELSE {k}
        /\ \A k \in arch.views : arch.parent[k][1] \in Layer /\ k \in Layer
        /\ \A k \in Layer : Buffer(k) = IF IsView(k) THEN Buffer(arch.parent[k][1]) ELSE k
    BY NewDeltasFacts, ParentOfView, BufferFacts
  <1>1. ASSUME NEW S \in SUBSET Layer, l \in S, ClosedUp(S) PROVE NewDeltas(l, st) \subseteq S
    <2> DEFINE T == {k \in Layer : k \in S => NewDeltas(k, st) \subseteq S}
    <2>1. \A k \in Layer \ arch.views : k \in T
      BY <1>0 DEF IsView
    <2>2. \A k \in arch.views : arch.parent[k][1] \in T => k \in T
      BY <1>0, <1>1 DEF IsView, ClosedUp
    <2> HIDE DEF T
    <2>3. Layer \subseteq T
      BY <2>1, <2>2, AllLayers
    <2> QED
      BY <1>1, <2>3 DEF T
  <1>2. \A k \in NewDeltas(l, st) : Buffer(k) = Buffer(l)
    <2> DEFINE T == {k \in Layer : \A j \in NewDeltas(k, st) : Buffer(j) = Buffer(k)}
    <2>1. \A k \in Layer \ arch.views : k \in T
      BY <1>0 DEF IsView
    <2>2. \A k \in arch.views : arch.parent[k][1] \in T => k \in T
      BY <1>0 DEF IsView
    <2> HIDE DEF T
    <2>3. Layer \subseteq T
      BY <2>1, <2>2, AllLayers
    <2> QED
      BY <2>3 DEF T
  <1>3. ASSUME ViewsBacked(st.has) PROVE Buffer(l) \in st.has \cup NewDeltas(l, st)
    <2> DEFINE T == {k \in Layer : Buffer(k) \in st.has \cup NewDeltas(k, st)}
    <2>1. \A k \in Layer \ arch.views : k \in T
      BY <1>0 DEF IsView
    <2>2. \A k \in arch.views : arch.parent[k][1] \in T => k \in T
      BY <1>0, <1>3 DEF IsView, ViewsBacked
    <2> HIDE DEF T
    <2>3. Layer \subseteq T
      BY <2>1, <2>2, AllLayers
    <2> QED
      BY <2>3 DEF T
  <1> QED
    BY <1>1, <1>2, <1>3

\* Deltas are of layers of nets, and those of views have memory.
Backed(st) == st.has \subseteq InNets /\ ViewsBacked(st.has)

LEMMA NetIsClosed ==
    ASSUME NetsThere, NetsApart, NEW n \in Net
    PROVE  LayersOf(n) \in SUBSET Layer /\ ClosedUp(LayersOf(n)) /\ LayersOf(n) \subseteq InNets
  BY NetThere, ParentsAreUp DEF NetsApart, ClosedUp, NetsThere, InNets

LEMMA MemDeltaBacked ==
    ASSUME NetsThere, NetsApart, NEW st \in States, Backed(st), NEW l \in InNets,
           NEW fill \in Nat
    PROVE  /\ MemDelta(st, l, fill) \in States /\ Backed(MemDelta(st, l, fill))
           /\ MemDelta(st, l, fill).broken = st.broken
           /\ \A S \in SUBSET Layer : l \in S /\ ClosedUp(S) =>
                  MemDelta(st, l, fill).has \subseteq st.has \cup S
  <1>1. l \in Layer /\ st.has \in SUBSET Layer /\ arch \in Architectures
    BY InNetsType, StateFields DEF NetsThere
  <1>2. PICK n \in Net : l \in LayersOf(n)
    BY DEF InNets
  <1> DEFINE t == MemDelta(st, l, fill)
             new == NewDeltas(l, st)
  <1>3. t \in States /\ t.has = st.has \cup new /\ t.broken = st.broken
    BY <1>1, MemDeltaFacts
  <1>4. /\ \A S \in SUBSET Layer : l \in S /\ ClosedUp(S) => new \subseteq S
        /\ \A k \in new : Buffer(k) = Buffer(l)
        /\ Buffer(l) \in st.has \cup new
    BY <1>1, NewDeltasUp DEF Backed
  <1> HIDE DEF t, new
  <1>5. new \subseteq InNets
    BY <1>2, <1>4, NetIsClosed
  <1>6. Backed(t)
    BY <1>3, <1>4, <1>5 DEF Backed, ViewsBacked
  <1> QED
    BY <1>3, <1>4, <1>6 DEF t

LEMMA ParentsMemBacked ==
    ASSUME NetsThere, NetsApart, NEW st \in States, Backed(st), NEW l \in InNets,
           NEW fill \in Nat
    PROVE  /\ Backed(ParentsMem(st, l, fill))
           /\ \A S \in SUBSET Layer : Elements(arch.parent[l]) \subseteq S /\ ClosedUp(S) =>
                  ParentsMem(st, l, fill).has \subseteq st.has \cup S
  <1> DEFINE ps == arch.parent[l]
             n == Len(ps)
  <1>0. l \in Layer
    BY InNetsType
  <1>1. n \in Nat /\ DOMAIN ps = 1 .. n /\ \A k \in 1 .. n : ps[k] \in InNets
    <2>1. ps \in Seq(Layer)
      BY <1>0, LayerFacts DEF NetsThere
    <2>2. Elements(ps) \subseteq InNets
      BY DEF InNets, NetsApart
    <2> HIDE DEF ps
    <2> QED
      BY <2>1, <2>2 DEF Elements
  <1>2. PICK f : /\ ParentsMem(st, l, fill) = f[1 .. n] /\ f[{}] = st
                 /\ \A k \in 1 .. n : f[1 .. k] = MemDelta(f[1 .. k - 1], ps[k], fill)
    BY <1>0, ParentsMemSteps
  <1>3. \A k \in 1 .. n : ps[k] \in Elements(arch.parent[l])
    BY <1>1 DEF Elements
  <1> HIDE DEF ps, n
  <1> DEFINE Room(h) == \A S \in SUBSET Layer :
                            Elements(arch.parent[l]) \subseteq S /\ ClosedUp(S) => h \subseteq st.has \cup S
             Done(k) == f[1 .. k] \in States /\ Backed(f[1 .. k]) /\ Room(f[1 .. k].has)
             B == {k \in Nat : k <= n => Done(k)}
  <1>4. Done(0)
    <2>1. 1 .. 0 = {}
      OBVIOUS
    <2> QED
      BY <1>2, <2>1
  <1>5. ASSUME NEW k \in Nat, k + 1 <= n, Done(k) PROVE Done(k + 1)
    <2>1. k + 1 \in 1 .. n /\ (k + 1) - 1 = k
      BY <1>1, <1>5
    <2>2. f[1 .. k + 1] = MemDelta(f[1 .. k], ps[k + 1], fill)
      BY <1>1, <1>2, <2>1
    <2>3. PICK t \in States : t = f[1 .. k] /\ Backed(t) /\ Room(t.has)
      BY <1>5
    <2>4. PICK p \in InNets : p = ps[k + 1] /\ p \in Elements(arch.parent[l])
      BY <1>1, <1>3, <2>1
    <2> DEFINE u == MemDelta(t, p, fill)
    <2>5. /\ u \in States /\ Backed(u)
          /\ \A S \in SUBSET Layer : p \in S /\ ClosedUp(S) => u.has \subseteq t.has \cup S
      BY <2>3, MemDeltaBacked
    <2>6. f[1 .. k + 1] = u
      BY <2>2, <2>3, <2>4
    <2> HIDE DEF u
    <2>7. Room(u.has)
      BY <2>3, <2>4, <2>5
    <2> HIDE DEF Room
    <2> QED
      BY <2>5, <2>6, <2>7
  <1>6. Done(n)
    <2> HIDE DEF Done
    <2>1. 0 \in B
      BY <1>4
    <2>2. \A k \in Nat : k \in B => k + 1 \in B
      BY <1>1, <1>5
    <2> HIDE DEF B
    <2>3. n \in B
      BY <1>1, <2>1, <2>2, CountUp
    <2>4. n <= n
      BY <1>1
    <2> QED
      BY <2>3, <2>4 DEF B
  <1> QED
    BY <1>2, <1>6

LEMMA DoDeltaBacked ==
    ASSUME NetsThere, NetsApart, EndsInv, NEW n \in Net, NEW fill \in Nat, NEW st \in States,
           Backed(st)
    PROVE  Backed(DoDelta(st, n, fill))
  <1> DEFINE ps == Host(n).lout
             m == Len(ps)
  <1>1. m \in Nat /\ DOMAIN ps = 1 .. m /\ \A k \in 1 .. m : ps[k] \in InNets
    <2>1. ps \in Seq(Layer)
      BY NetThere DEF BuiltNet
    <2>2. Elements(ps) \subseteq InNets
      BY DEF EndsInv, InNets
    <2> HIDE DEF ps
    <2> QED
      BY <2>1, <2>2 DEF Elements
  <1>2. PICK f : /\ DoDelta(st, n, fill) = f[1 .. m] /\ f[{}] = st
                 /\ \A k \in 1 .. m : f[1 .. k] = Written(f[1 .. k - 1], k, n, fill)
    BY DoDeltaSteps
  <1> DEFINE Done(k) == f[1 .. k] \in States /\ Backed(f[1 .. k])
             B == {k \in Nat : k <= m => Done(k)}
  <1>3. Done(0)
    <2>1. 1 .. 0 = {}
      OBVIOUS
    <2> QED
      BY <1>2, <2>1
  <1>4. ASSUME NEW k \in Nat, k + 1 <= m, Done(k) PROVE Done(k + 1)
    <2>1. k + 1 \in 1 .. m /\ (k + 1) - 1 = k
      BY <1>1, <1>4
    <2>2. f[1 .. k + 1] = Written(f[1 .. k], k + 1, n, fill)
      BY <1>1, <1>2, <2>1
    <2>3. PICK t \in States : t = f[1 .. k] /\ Backed(t)
      BY <1>4
    <2>4. PICK i \in DOMAIN Host(n).lout : i = k + 1
      BY <1>1, <2>1
    <2>5. PICK l \in InNets : l = ps[i]
      BY <1>1
    <2> DEFINE u == MemDelta(t, l, fill)
    <2>6. u \in States /\ Backed(u)
      BY <2>3, MemDeltaBacked
    <2>7. Written(t, i, n, fill) = IF i <= Model(n).losses THEN WithContent(u, Buffer(l), 1) ELSE u
      BY <2>5 DEF Written, WithContent
    <2> HIDE DEF u
    <2>8. Buffer(l) \in Layer /\ 1 \in Nat
      BY InNetsType, BufferType DEF NetsThere
    <2>9. Written(t, i, n, fill) \in States /\ Written(t, i, n, fill).has = u.has
      BY <2>6, <2>7, <2>8, SetContent
    <2> HIDE DEF ps
    <2> QED
      BY <2>2, <2>3, <2>4, <2>6, <2>9 DEF Backed
  <1> HIDE DEF ps, m
  <1>5. Done(m)
    <2> HIDE DEF Done
    <2>1. 0 \in B
      BY <1>3
    <2>2. \A k \in Nat : k \in B => k + 1 \in B
      BY <1>1, <1>4
    <2> HIDE DEF B
    <2>3. m \in B
      BY <1>1, <2>1, <2>2, CountUp
    <2>4. m <= m
      BY <1>1
    <2> QED
      BY <2>3, <2>4 DEF B
  <1> QED
    BY <1>2, <1>5

LEMMA CopyDeltasBacked ==
    ASSUME NetsThere, NetsApart, EndsInv, ChainInv, NEW n \in Net, NEW fill \in Nat,
           NEW st \in States, Backed(st)
    PROVE  Backed(CopyDeltas(st, n, fill))
  <1> DEFINE m == Len(netinput[n])
  <1>0. Passing(n)
    BY PassingThere
  <1>1. m \in Nat /\ DOMAIN netinput[n] = 1 .. m /\ \A k \in 1 .. m : netinput[n][k] \in InNets
    <2>1. netinput[n] \in Seq(InNets)
      BY DEF ChainInv, NetsThere
    <2> QED
      BY <2>1
  <1>2. PICK f : /\ CopyDeltas(st, n, fill) = f[1 .. m] /\ f[{}] = st
                 /\ \A k \in 1 .. m : f[1 .. k] = CopiedOne(f[1 .. k - 1], k, n, fill)
    BY <1>0, CopyDeltasSteps
  <1>3. \A k \in 1 .. m : Host(n).lin[k] \in InNets
    <2>1. Host(n).lin \in Seq(Layer) /\ Elements(Host(n).lin) \subseteq InNets
      BY NetThere DEF BuiltNet, EndsInv, InNets
    <2>2. \A k \in 1 .. m : k \in DOMAIN Host(n).lin
      BY <1>0, <1>1, <2>1 DEF Passing
    <2> QED
      BY <2>1, <2>2 DEF Elements
  <1> HIDE DEF m
  <1> DEFINE Done(k) == f[1 .. k] \in States /\ Backed(f[1 .. k])
             B == {k \in Nat : k <= m => Done(k)}
  <1>4. Done(0)
    <2>1. 1 .. 0 = {}
      OBVIOUS
    <2> QED
      BY <1>2, <2>1
  <1>5. ASSUME NEW k \in Nat, k + 1 <= m, Done(k) PROVE Done(k + 1)
    <2>1. k + 1 \in 1 .. m /\ (k + 1) - 1 = k
      BY <1>1, <1>5
    <2>2. f[1 .. k + 1] = CopiedOne(f[1 .. k], k + 1, n, fill)
      BY <1>2, <2>1
    <2>3. PICK s \in States : s = f[1 .. k] /\ Backed(s)
      BY <1>5
    <2>4. PICK in \in InNets : in = Host(n).lin[k + 1]
      BY <1>3, <2>1
    <2>5. PICK to \in InNets : to = netinput[n][k + 1]
      BY <1>1, <2>1
    <2> DEFINE u == MemDelta(s, in, fill)
               t == MemDelta(u, to, fill)
    <2>6. u \in States /\ Backed(u)
      BY <2>3, MemDeltaBacked
    <2>7. CopiedOne(s, k + 1, n, fill) =
              IF to \in detached THEN s ELSE WithContent(t, Buffer(to), t.content[Buffer(in)])
      BY <2>4, <2>5 DEF CopiedOne, WithContent
    <2> HIDE DEF u
    <2>8. t \in States /\ Backed(t)
      BY <2>6, MemDeltaBacked
    <2> HIDE DEF t
    <2>9. Buffer(to) \in Layer /\ Buffer(in) \in Layer
      BY InNetsType, BufferType DEF NetsThere
    <2>10. PICK c \in Nat : c = t.content[Buffer(in)]
      BY <2>8, <2>9, StateFields
    <2>11. WithContent(t, Buffer(to), c) \in States /\ WithContent(t, Buffer(to), c).has = t.has
      BY <2>8, <2>9, SetContent
    <2>12. CopiedOne(s, k + 1, n, fill) = IF to \in detached THEN s
                                          ELSE WithContent(t, Buffer(to), c)
      BY <2>7, <2>10
    <2> QED
      BY <2>2, <2>3, <2>8, <2>11, <2>12 DEF Backed
  <1>6. Done(m)
    <2> HIDE DEF Done
    <2>1. 0 \in B
      BY <1>4
    <2>2. \A k \in Nat : k \in B => k + 1 \in B
      BY <1>1, <1>5
    <2> HIDE DEF B
    <2>3. m \in B
      BY <1>1, <2>1, <2>2, CountUp
    <2>4. m <= m
      BY <1>1
    <2> QED
      BY <2>3, <2>4 DEF B
  <1> QED
    BY <1>2, <1>6

\* What a backward sweep of net n visits from position k on.
From(n, k) == {l \in Layer : \E j \in DOMAIN Host(n).backward :
                                 k <= j /\ Host(n).backward[j] = l}

LEMMA FromClosed ==
    ASSUME NetsThere, NetsApart, NEW n \in Net, NEW k \in Nat
    PROVE  /\ From(n, k) \in SUBSET Layer /\ ClosedUp(From(n, k))
           /\ k \in DOMAIN Host(n).backward =>
                  Elements(arch.parent[Host(n).backward[k]]) \subseteq From(n, k + 1)
  <1> DEFINE ps == Host(n).backward
  <1>1. /\ ps \in Seq(Layer) /\ Elements(ps) = LayersOf(n)
        /\ \A i, j \in DOMAIN ps : ps[j] \in Elements(arch.parent[ps[i]]) => i < j
    BY BackwardOrder
  <1>2. \A j \in DOMAIN ps : ps[j] \in LayersOf(n) /\ ps[j] \in Layer /\ j \in Nat
    BY <1>1 DEF Elements
  <1> HIDE DEF ps
  <1>3. ASSUME NEW j \in DOMAIN ps, NEW p \in Elements(arch.parent[ps[j]])
        PROVE  \E i \in DOMAIN ps : ps[i] = p /\ j < i
    <2>1. p \in Elements(ps)
      BY <1>1, <1>2, <1>3 DEF NetsApart
    <2>2. PICK i \in DOMAIN ps : ps[i] = p
      BY <2>1 DEF Elements
    <2> QED
      BY <1>1, <1>3, <2>2
  <1>4. ASSUME NEW v \in From(n, k) \cap arch.views PROVE arch.parent[v][1] \in From(n, k)
    <2>1. PICK j \in DOMAIN ps : k <= j /\ ps[j] = v
      BY <1>4 DEF From, ps
    <2>2. arch.parent[v][1] \in Elements(arch.parent[v])
      BY ParentsAreUp DEF NetsThere
    <2>3. PICK i \in DOMAIN ps : ps[i] = arch.parent[v][1] /\ j < i
      BY <1>3, <2>1, <2>2
    <2>4. k <= i /\ ps[i] \in Layer
      BY <1>2, <2>1, <2>3
    <2> QED
      BY <2>3, <2>4 DEF From, ps
  <1>5. ASSUME k \in DOMAIN ps, NEW p \in Elements(arch.parent[ps[k]]) PROVE p \in From(n, k + 1)
    <2>1. PICK i \in DOMAIN ps : ps[i] = p /\ k < i
      BY <1>3, <1>5
    <2>2. k + 1 <= i /\ ps[i] \in Layer
      BY <1>2, <2>1
    <2> QED
      BY <2>1, <2>2 DEF From, ps
  <1> QED
    BY <1>4, <1>5 DEF ClosedUp, From, ps

\* Among the first k layers of the sweep only inputs have a delta.
Freed(st, n, k) ==
    Model(n).mem > 0 /\ ~ st.broken =>
        \A j \in DOMAIN Host(n).backward : j <= k =>
            IsInput(Host(n).backward[j]) \/ Host(n).backward[j] \notin st.has

LEMMA VisitBacked ==
    ASSUME NetsThere, NetsApart, NEW n \in Net, NEW fill \in Nat, NEW s \in States, Backed(s),
           NEW k \in Nat, Freed(s, n, k), k + 1 \in DOMAIN Host(n).backward
    PROVE  /\ Backed(VisitedLayer(s, Host(n).backward[k + 1], n, fill))
           /\ Freed(VisitedLayer(s, Host(n).backward[k + 1], n, fill), n, k + 1)
  <1> DEFINE ps == Host(n).backward
             Rest == From(n, k + 2)
  <1>1. /\ ps \in Seq(Layer) /\ Elements(ps) = LayersOf(n)
        /\ \A i, j \in DOMAIN ps : ps[i] = ps[j] => i = j
    BY BackwardOrder
  <1>2. \A j \in DOMAIN ps : ps[j] \in LayersOf(n) /\ ps[j] \in Layer /\ j \in Nat
    BY <1>1 DEF Elements
  <1>3. PICK l \in Layer : l = ps[k + 1] /\ l \in LayersOf(n) /\ l \in InNets
    BY <1>2 DEF InNets
  <1>4. /\ Rest \in SUBSET Layer /\ ClosedUp(Rest) /\ Elements(arch.parent[l]) \subseteq Rest
    <2>1. k + 1 \in Nat /\ (k + 1) + 1 = k + 2 /\ k + 2 \in Nat
      OBVIOUS
    <2> QED
      BY <1>3, <2>1, FromClosed
  <1>5. \A j \in DOMAIN ps : ps[j] \in Rest => k + 2 <= j
    BY <1>1 DEF From
  <1> DEFINE u == ParentsMem(s, l, fill)
             t == BackLayer(u, l)
             v == VisitedLayer(s, l, n, fill)
  <1>6. u \in States /\ Backed(u) /\ u.has \subseteq s.has \cup Rest
    BY SMTT(30), <1>3, <1>4, ParentsMemBacked, ParentsMemFacts
  <1> HIDE DEF u
  <1>7. t \in States /\ t.has = u.has
    BY <1>6, BackLayerFacts DEF NetsThere
  <1>8. v = IF s.broken \/ t.broken THEN [s EXCEPT !.broken = TRUE]
            ELSE IF Model(n).mem > 0 THEN FreeDelta(t, l) ELSE t
    BY DEF VisitedLayer, u, t
  <1>9. Backed(t)
    BY <1>6, <1>7 DEF Backed
  <1> HIDE DEF t, v, Rest
  <1> SUFFICES Backed(v) /\ Freed(v, n, k + 1)
    BY <1>3 DEF v
  <1>10. CASE s.broken \/ t.broken
    <2>1. v.has = s.has /\ v.broken = TRUE
      BY <1>8, <1>10 DEF States
    <2> QED
      BY <2>1 DEF Backed, Freed
  <1>11. CASE ~ (s.broken \/ t.broken) /\ ~ (Model(n).mem > 0)
    BY <1>8, <1>9, <1>11 DEF Freed
  <1>12. CASE ~ (s.broken \/ t.broken) /\ Model(n).mem > 0
    <2>1. v.has = IF IsInput(l) THEN t.has ELSE t.has \ {l}
      BY <1>7, <1>8, <1>12, FreeDeltaFacts
    <2>2. ASSUME NEW j \in DOMAIN ps, j <= k + 1, ~ IsInput(ps[j]) PROVE ps[j] \notin v.has
      <3>1. CASE j = k + 1
        BY <1>3, <2>1, <2>2, <3>1
      <3>2. CASE j # k + 1
        <4>1. j <= k /\ ~ (k + 2 <= j)
          BY <1>2, <2>2, <3>2
        <4>2. ps[j] \notin s.has
          BY <1>12, <2>2, <4>1 DEF Freed
        <4> QED
          BY <1>5, <1>6, <1>7, <2>1, <4>1, <4>2
      <3> QED
        BY <3>1, <3>2
    <2>3. Freed(v, n, k + 1)
      BY <2>2 DEF Freed
    <2>4. ASSUME NEW w \in v.has \cap arch.views, ~ IsInput(l), Buffer(w) = l PROVE FALSE
      <3>1. w \in t.has /\ w # l /\ w \in Layer
        BY <1>7, <2>1, <2>4, StateFields
      <3>2. PICK m \in Net : w \in LayersOf(m)
        BY <1>9, <3>1 DEF Backed, InNets
      <3>3. l \in LayersOf(m)
        BY <2>4, <3>2, NetIsClosed, BufferUp DEF NetsThere
      <3>4. w \in Elements(ps)
        BY <1>1, <1>3, <3>2, <3>3 DEF NetsApart
      <3>5. PICK j \in DOMAIN ps : ps[j] = w
        BY <3>4 DEF Elements
      <3>6. w \in From(n, j) /\ j \in Nat
        BY <1>2, <3>1, <3>5 DEF From
      <3>7. l \in From(n, j)
        BY <2>4, <3>6, FromClosed, BufferUp DEF NetsThere
      <3>8. PICK i \in DOMAIN ps : j <= i /\ ps[i] = l
        BY <3>7 DEF From
      <3>9. i = k + 1
        BY <1>1, <1>3, <3>8
      <3>10. j <= k + 1
        BY <3>8, <3>9
      <3>11. ~ IsInput(w)
        <4>1. Len(arch.parent[w]) = 1
          BY <2>4, BackpropAssumption DEF NetsThere
        <4> QED
          BY <4>1 DEF IsInput
      <3> QED
        BY <2>2, <2>4, <3>5, <3>10, <3>11
    <2>5. ViewsBacked(v.has)
      BY <1>9, <2>1, <2>4 DEF ViewsBacked, Backed
    <2> QED
      BY <1>9, <2>1, <2>3, <2>5 DEF Backed
  <1> QED
    BY <1>10, <1>11, <1>12

LEMMA DoBackwardBacked ==
    ASSUME NetsThere, NetsApart, NEW n \in Net, NEW fill \in Nat, NEW st \in States, Backed(st)
    PROVE  Backed(DoBackward(st, n, fill))
  <1> DEFINE m == Len(Host(n).backward)
  <1>1. /\ m \in Nat /\ DOMAIN Host(n).backward = 1 .. m
        /\ \A k \in 1 .. m : Host(n).backward[k] \in Layer
    <2>1. Host(n).backward \in Seq(Layer)
      BY BackwardOrder
    <2> QED
      BY <2>1
  <1>2. PICK f : /\ DoBackward(st, n, fill) = f[1 .. m] /\ f[{}] = st
                 /\ \A k \in 1 .. m :
                        f[1 .. k] = VisitedLayer(f[1 .. k - 1], Host(n).backward[k], n, fill)
    BY DoBackwardSteps
  <1> HIDE DEF m
  <1> DEFINE Done(k) == f[1 .. k] \in States /\ Backed(f[1 .. k]) /\ Freed(f[1 .. k], n, k)
             B == {k \in Nat : k <= m => Done(k)}
  <1>3. Done(0)
    <2>1. 1 .. 0 = {} /\ \A j \in 1 .. m : ~ (j <= 0)
      BY <1>1
    <2>2. Freed(st, n, 0)
      BY <1>1, <2>1 DEF Freed
    <2> QED
      BY <1>2, <2>1, <2>2
  <1>4. ASSUME NEW k \in Nat, k + 1 <= m, Done(k) PROVE Done(k + 1)
    <2>1. k + 1 \in 1 .. m /\ (k + 1) - 1 = k
      BY <1>1, <1>4
    <2>2. f[1 .. k + 1] = VisitedLayer(f[1 .. k], Host(n).backward[k + 1], n, fill)
      BY <1>2, <2>1
    <2>3. PICK s \in States : s = f[1 .. k] /\ Backed(s) /\ Freed(s, n, k)
      BY <1>4
    <2>4. PICK l \in Layer : l = Host(n).backward[k + 1]
      BY <1>1, <2>1
    <2>5. VisitedLayer(s, l, n, fill) \in States
      BY <2>3, VisitedFacts
    <2>6. /\ Backed(VisitedLayer(s, l, n, fill))
          /\ Freed(VisitedLayer(s, l, n, fill), n, k + 1)
      BY <1>1, <2>1, <2>3, <2>4, VisitBacked
    <2> QED
      BY <2>2, <2>3, <2>4, <2>5, <2>6
  <1>5. Done(m)
    <2> HIDE DEF Done
    <2>1. 0 \in B
      BY <1>3
    <2>2. \A k \in Nat : k \in B => k + 1 \in B
      BY <1>1, <1>4
    <2> HIDE DEF B
    <2>3. m \in B
      BY <1>1, <2>1, <2>2, CountUp
    <2>4. m <= m
      BY <1>1
    <2> QED
      BY <2>3, <2>4 DEF B
  <1> QED
    BY <1>2, <1>5

-----------------------------------------------------------------------------
(* What the calls leave besides the deltas.                                  *)

\* How a call marks layers, sizes slices, and links nets.
LEMMA CallsMark ==
    ASSUME NetsThere, SweepInv, Next, ~ Build
    PROVE  /\ slices' = slices \/ \E n \in Net, b \in Nat : Resize(n, b)
           /\ used' = used \/ \E n \in Net : used' \in {used \cup LayersOf(n), used \ LayersOf(n)}
           /\ \/ detached' = detached
              \/ \E n \in Net : detached' = detached \ LayersOf(n)
              \/ \E n \in Net : \E l \in Elements(Model(n).feeds) : detached' = detached \cup {l}
           /\ \/ link' = link
              \/ \E n \in Net : \E s : /\ s = <<>> \/ (CanChain(n) /\ s = Model(n).feeds)
                                       /\ link' = [link EXCEPT ![n] = s]
  <1> DEFINE Sized == slices' = slices \/ \E n \in Net, b \in Nat : Resize(n, b)
             Used == used' = used
                     \/ \E n \in Net : used' \in {used \cup LayersOf(n), used \ LayersOf(n)}
             Detached == \/ detached' = detached
                         \/ \E n \in Net : detached' = detached \ LayersOf(n)
                         \/ \E n \in Net : \E l \in Elements(Model(n).feeds) :
                                detached' = detached \cup {l}
             Linked == \/ link' = link
                       \/ \E n \in Net : \E s : /\ s = <<>> \/ (CanChain(n) /\ s = Model(n).feeds)
                                                /\ link' = [link EXCEPT ![n] = s]
             All == Sized /\ Used /\ Detached /\ Linked
  <1>0. \A b \in arch.sizes : b \in Nat
    BY TrainingAssumption DEF NetsThere
  <1>1. ASSUME NEW n \in Net, NEW b \in Nat, NEW s, Feed(n, b, s),
               s = <<>> \/ (CanChain(n) /\ s = Model(n).feeds)
        PROVE  All
    BY <1>1 DEF Feed
  <1>2. ASSUME UNCHANGED <<slices, used, detached, link>> PROVE All
    BY <1>2
  <1>3. ASSUME NEW n \in Net, CanChain(n) PROVE FeedingBatch(n) \in Nat
    BY <1>3, FeedingType DEF SweepInv
  <1>4. ASSUME Called PROVE All
    <2>1. ASSUME NEW n \in Net, ZeroCall(n) \/ Backward(n) \/ Optimize(n) PROVE All
      <3>1. UNCHANGED <<slices, used, detached, link>>
        BY <2>1 DEF ZeroCall, Backward, Optimize, chainVars
      <3> QED
        BY <1>2, <3>1
    <2>2. ASSUME NEW n \in Net, ForwardChain(n) PROVE All
      BY <1>1, <1>3, <2>2 DEF ForwardChain
    <2>3. ASSUME NEW n \in Net, NEW b \in arch.sizes, Forward(n, b) PROVE All
      BY <1>0, <1>1, <2>3 DEF Forward
    <2>4. ASSUME NEW n \in Net, NEW fill \in Fill, Compute(n, fill) PROVE All
      BY <1>1, <1>3, <2>4 DEF Compute
    <2>5. ASSUME NEW n \in Net, NEW b \in arch.sizes, EvalBatch(n, b) PROVE All
      <3>1. Sized /\ Detached
        BY <1>0, <2>5 DEF EvalBatch, Reattached
      <3>2. Used /\ Linked
        BY <2>5 DEF EvalBatch, EvalTooFew, EvalAll
      <3> QED
        BY <3>1, <3>2
    <2>6. ASSUME NEW n \in Net, NEW l \in Elements(Model(n).feeds), Detach(l) PROVE All
      BY <2>6 DEF Detach
    <2> HIDE DEF Sized, Used, Detached, Linked, All
    <2> QED
      BY <1>4, <2>1, <2>2, <2>3, <2>4, <2>5, <2>6 DEF Called
  <1>5. ASSUME NEW fill \in Fill, SweepStep(fill) PROVE All
    <2> DEFINE n == Head(todo).net
    <2>1. n \in Net
      <3>1. Head(todo) \in Calling
        <4> HIDE DEF Calling
        <4> QED
          BY <1>5 DEF SweepStep, SweepInv
      <3> QED
        BY <3>1 DEF Calling
    <2>2. /\ slices' = slices /\ used' = used \cup LayersOf(n) /\ detached' = detached
          /\ link' = link \/ link' = [link EXCEPT ![n] = <<>>]
      BY <1>5 DEF SweepStep, Sweep
    <2> HIDE DEF n
    <2> QED
      BY <2>1, <2>2
  <1>6. ASSUME NEW n \in Net, Update(n) PROVE All
    BY <1>2, <1>6 DEF Update, backVars, chainVars
  <1>7. ASSUME NEW n \in Net, NEW b \in arch.sizes, NEW fill \in Fill, TrainBatch(n, b, fill)
        PROVE  All
    <2>1. Sized /\ Detached
      BY <1>0, <1>7 DEF TrainBatch, Reattached
    <2>2. Used /\ Linked
      BY <1>7 DEF TrainBatch, TrainTooFew, TrainAll
    <2> QED
      BY <2>1, <2>2
  <1>8. All
    <2> HIDE DEF Sized, Used, Detached, Linked, All
    <2> QED
      BY <1>4, <1>5, <1>6, <1>7, NextCases
  <1> QED
    BY <1>8

LEMMA SlicesType ==
    ASSUME NEW c \in Nat \ {0}, NEW b \in Nat, NEW old \in [1 .. c -> Nat \ {0}]
    PROVE  Slices(b, old) \in [1 .. c -> Nat \ {0}]
  <1>1. Len(old) = c /\ DOMAIN old = 1 .. c
    <2>1. old \in Seq(Nat)
      OBVIOUS
    <2> QED
      BY <2>1
  <1>2. b \div c \in Nat /\ b % c \in Nat /\ (b >= c => b \div c # 0)
    <2>1. /\ b \div c \in Nat /\ b % c \in 0 .. c - 1
          /\ b = c * (b \div c) + (b % c)
      BY Quotients
    <2>2. b % c \in Nat /\ b % c < c
      BY <2>1
    <2>3. ASSUME b >= c, b \div c = 0 PROVE FALSE
      <3>1. c * (b \div c) = 0
        BY <2>3
      <3>2. b = b % c
        BY <2>1, <2>2, <3>1
      <3> QED
        BY <2>2, <2>3, <3>2
    <2> QED
      BY <2>1, <2>2, <2>3
  <1>3. ASSUME NEW d \in 1 .. c
        PROVE  (IF b < c THEN (IF d <= b THEN 1 ELSE old[d])
                ELSE b \div c + (IF d = c THEN b % c ELSE 0)) \in Nat \ {0}
    <2> DEFINE q == b \div c
               r == b % c
    <2>1. q \in Nat /\ r \in Nat /\ (b >= c => q # 0) /\ old[d] \in Nat \ {0}
      BY <1>2
    <2> HIDE DEF q, r
    <2>2. (IF b < c THEN (IF d <= b THEN 1 ELSE old[d])
           ELSE q + (IF d = c THEN r ELSE 0)) \in Nat \ {0}
      BY <2>1
    <2> QED
      BY <2>2 DEF q, r
  <1>4. Slices(b, old) = [d \in 1 .. c |->
            IF b < c THEN (IF d <= b THEN 1 ELSE old[d])
            ELSE b \div c + (IF d = c THEN b % c ELSE 0)]
    BY <1>1 DEF Slices
  <1> QED
    BY <1>3, <1>4

MarksInv == /\ used \in SUBSET Layer /\ detached \in SUBSET Layer
            /\ slices \in [DOMAIN arch.models -> [1 .. arch.devices -> Nat \ {0}]]

LEMMA MarksStep ==
    ASSUME NetsThere, SweepInv, MarksInv, Next, ~ Build
    PROVE  MarksInv'
  <1>0. UNCHANGED <<arch, nets>> /\ arch.devices \in Nat \ {0}
    BY CallsKeepGraph, ArchitectureAssumption DEF GraphKept, NetsThere
  <1>1. used' \in SUBSET Layer
    BY CallsMark, NetThere DEF MarksInv
  <1>2. detached' \in SUBSET Layer
    <2>1. \A n \in Net : Elements(Model(n).feeds) \subseteq Layer
      BY NetThere, ElementsOf
    <2> QED
      BY <2>1, CallsMark DEF MarksInv
  <1>3. slices' \in [DOMAIN arch.models -> [1 .. arch.devices -> Nat \ {0}]]
    <2> DEFINE S == [1 .. arch.devices -> Nat \ {0}]
    <2>1. ASSUME NEW n \in Net, NEW b \in Nat, Resize(n, b)
          PROVE  slices' \in [DOMAIN arch.models -> S]
      <3>1. n \in DOMAIN arch.models /\ slices[n] \in S
        BY DEF NetsThere, MarksInv
      <3>2. PICK s \in S : s = Slices(b, slices[n])
        BY <1>0, <3>1, SlicesType
      <3>3. slices' = slices \/ slices' = [slices EXCEPT ![n] = s]
        BY <2>1, <3>2 DEF Resize
      <3>4. slices \in [DOMAIN arch.models -> S]
        BY DEF MarksInv
      <3> HIDE DEF S
      <3> QED
        BY <3>1, <3>3, <3>4
    <2>2. slices \in [DOMAIN arch.models -> S]
      BY DEF MarksInv
    <2> HIDE DEF S
    <2>3. slices' \in [DOMAIN arch.models -> S]
      BY <2>1, <2>2, CallsMark
    <2> QED
      BY <2>3 DEF S
  <1> QED
    BY <1>0, <1>1, <1>2, <1>3 DEF MarksInv, Layer

LEMMA LinkStep ==
    ASSUME NetsThere, SweepInv, LinkInv, Next, ~ Build
    PROVE  LinkInv'
  <1>0. UNCHANGED <<arch, nets>>
    BY CallsKeepGraph DEF GraphKept
  <1>1. Net' = Net /\ InNets' = InNets /\ \A m : Host(m)' = Host(m) /\ Model(m)' = Model(m)
    BY <1>0, SameNetsThere DEF Model
  <1>a. \A m : /\ Elements(Model(m).feeds)' = Elements(Model(m).feeds)
               /\ Elements(link[m])' = Elements(link'[m])
               /\ Len(Host(m).lin)' = Len(Host(m).lin)
    BY <1>1 DEF Elements
  <1>2. CASE link' = link
    BY <1>0, <1>1, <1>a, <1>2 DEF LinkInv
  <1>3. ASSUME NEW n \in Net, NEW s, s = <<>> \/ (CanChain(n) /\ s = Model(n).feeds),
               link' = [link EXCEPT ![n] = s]
        PROVE  LinkInv'
    <2>1. n \in DOMAIN arch.models
      BY DEF NetsThere
    <2>2. /\ s \in Seq(InNets) /\ (s # <<>> => Len(s) = Len(Host(n).lin))
          /\ s # <<>> => Elements(s) \subseteq Elements(Model(n).feeds)
      <3>1. CASE s = <<>>
        BY <3>1
      <3>2. CASE CanChain(n) /\ s = Model(n).feeds
        <4>1. s \in Seq(Layer) /\ Elements(s) \subseteq InNets
          BY <3>2, NetThere DEF CanChain
        <4>2. \A i \in 1 .. Len(s) : s[i] \in InNets
          BY <4>1 DEF Elements
        <4> QED
          BY <3>2, <4>1, <4>2 DEF CanChain
      <3> QED
        BY <1>3, <3>1, <3>2
    <2>3. link' \in [DOMAIN arch.models -> Seq(InNets)]
      BY <1>3, <2>1, <2>2 DEF LinkInv
    <2>4. ASSUME NEW m \in DOMAIN arch.models, link'[m] # <<>>
          PROVE  /\ m \in Net /\ Len(link'[m]) = Len(Host(m).lin)
                 /\ Elements(link'[m]) \subseteq Elements(Model(m).feeds)
      <3>1. CASE m = n
        BY <1>3, <2>1, <2>2, <2>4, <3>1 DEF LinkInv
      <3>2. CASE m # n
        <4>1. link'[m] = link[m]
          BY <1>3, <2>1, <3>2 DEF LinkInv
        <4> QED
          BY <2>4, <4>1 DEF LinkInv
      <3> QED
        BY <3>1, <3>2
    <2> QED
      BY <1>0, <1>1, <1>a, <2>3, <2>4 DEF LinkInv
  <1> QED
    BY <1>2, <1>3, CallsMark

LEMMA BuildLinkInv ==
    ASSUME NetsThere, LinkInv, Build
    PROVE  LinkInv'
  <1>1. /\ arch' = arch /\ link' = link
        /\ nets' = nets \/ \E x : nets' = Append(nets, x)
    BY DEF Build, GraphStep, StartModel, Walk, TurnBack, WalkBack, Collect, Visit, Resort,
           SortedForward, Split, Built, BeginSort, backVars, chainVars
  <1>2. Net \subseteq Net' /\ \A n \in Net : nets'[n] = nets[n]
    <2> DEFINE R == [host : BuiltNet, device : BuiltNet]
    <2>1. nets \in Seq(R)
      BY DEF NetsThere, NetsInv
    <2> HIDE DEF R
    <2>2. ASSUME NEW x, nets' = Append(nets, x)
          PROVE  Net \subseteq Net' /\ \A n \in Net : nets'[n] = nets[n]
      BY <2>1, <2>2 DEF Net
    <2> QED
      BY <1>1, <2>2 DEF Net
  <1>3. \A n \in Net : Host(n)' = Host(n) /\ LayersOf(n)' = LayersOf(n)
    BY <1>2 DEF Host, LayersOf
  <1>4. InNets \subseteq InNets'
    BY <1>2, <1>3 DEF InNets
  <1>5. link \in [DOMAIN arch.models -> Seq(InNets')]
    <2>1. Seq(InNets) \subseteq Seq(InNets')
      BY <1>4
    <2> QED
      BY <2>1 DEF LinkInv
  <1>6. \A m : Model(m)' = Model(m)
    BY <1>1 DEF Model
  <1>7. /\ \A m : Elements(Model(m).feeds)' = Elements(Model(m).feeds)
        /\ \A m : Elements(link[m])' = Elements(link[m])
        /\ \A m \in Net : Len(Host(m).lin)' = Len(Host(m).lin)
    BY <1>1, <1>3, <1>6 DEF Elements
  <1>8. \A m \in DOMAIN arch.models :
            link'[m] # <<>> => /\ m \in Net' /\ Len(link'[m]) = Len(Host(m).lin)'
                               /\ Elements(link[m])' \subseteq Elements(Model(m).feeds)'
    BY <1>1, <1>2, <1>7 DEF LinkInv
  <1> QED
    BY <1>1, <1>5, <1>8 DEF LinkInv

-----------------------------------------------------------------------------
(* What the calls do to the deltas, and to what is due.                      *)

LEMMA BackedThen ==
    ASSUME UNCHANGED <<arch, nets>>, NEW st, Backed(st), has' = st.has
    PROVE  Backed(State)'
  <1>1. InNets' = InNets
    BY SameNetsThere
  <1>2. \A l : Buffer(l)' = Buffer(l)
    BY DEF Buffer, IsView, Layer
  <1>3. State'.has = has'
    BY DEF State
  <1> QED
    BY <1>1, <1>2, <1>3 DEF Backed, ViewsBacked

LEMMA SameDeltas ==
    ASSUME NEW st, Backed(st), NEW t, t.has = st.has
    PROVE  Backed(t)
  BY DEF Backed

LEMMA CalledBacked ==
    ASSUME NetsThere, NetsApart, EndsInv, SweepInv, Backed(State), Called
    PROVE  Backed(State)'
  <1>0. UNCHANGED <<arch, nets>>
    BY CalledKeeps DEF graphVars, buildVars
  <1>1. State \in States /\ State.has = has
    BY DEF SweepInv, State
  <1>2. ASSUME has' = has PROVE Backed(State)'
    BY <1>0, <1>1, <1>2, BackedThen
  <1>3. ASSUME NEW st, Backed(st), Becomes(st) PROVE Backed(State)'
    BY <1>0, <1>3, BackedThen DEF Becomes
  <1>4. ASSUME NEW n \in Net, ForwardChain(n) PROVE Backed(State)'
    <2> DEFINE b == FeedingBatch(n)
               st == Resized(Reset(State, n), n, b)
    <2>1. CanChain(n) /\ Becomes(st)
      BY <1>4 DEF ForwardChain
    <2>2. /\ n \in DOMAIN arch.models /\ b \in Nat
          /\ Reset(State, n) \in States /\ Reset(State, n).has = State.has
      BY <1>1, <2>1, FeedingType, ResetFacts DEF NetsThere
    <2>3. st.has = State.has
      BY <2>2, ResizedFacts
    <2> HIDE DEF st
    <2> QED
      BY <1>3, <2>1, <2>3, SameDeltas
  <1>5. ASSUME NEW n \in Net, NEW b \in arch.sizes, Forward(n, b) PROVE Backed(State)'
    <2> DEFINE st == Resized(Reset(State, n), n, b)
    <2>1. Becomes(st)
      BY <1>5 DEF Forward
    <2>2. /\ n \in DOMAIN arch.models /\ b \in Nat
          /\ Reset(State, n) \in States /\ Reset(State, n).has = State.has
      BY <1>1, TrainingAssumption, ResetFacts DEF NetsThere
    <2>3. st.has = State.has
      BY <2>2, ResizedFacts
    <2> HIDE DEF st
    <2> QED
      BY <1>3, <2>1, <2>3, SameDeltas
  <1>6. ASSUME NEW n \in Net, NEW b \in arch.sizes, EvalBatch(n, b) PROVE Backed(State)'
    <2> DEFINE st == Resized(State, n, b)
               more == ZeroGrads(Reset(st, n), n)
    <2>1. Becomes(st) \/ Becomes(more)
      BY <1>6 DEF EvalBatch, EvalTooFew, EvalAll
    <2>2. n \in DOMAIN arch.models /\ b \in Nat
      BY TrainingAssumption DEF NetsThere
    <2>3. st \in States /\ st.has = State.has
      BY <1>1, <2>2, ResizedFacts
    <2> HIDE DEF st
    <2>4. more.has = State.has
      BY <2>3, ResetFacts, ZeroGradsFacts
    <2> HIDE DEF more
    <2> QED
      BY <1>3, <2>1, <2>3, <2>4, SameDeltas
  <1>7. ASSUME NEW n \in Net, NEW fill \in Fill, Compute(n, fill) PROVE Backed(State)'
    <2> DEFINE b == FeedingBatch(n)
               zero == ZeroGrads(Reset(State, n), n)
               st == Resized(zero, n, b)
               more == DoDelta(st, n, fill)
    <2>1. CanChain(n) /\ (Becomes(st) \/ Becomes(more))
      BY <1>7 DEF Compute
    <2>2. /\ n \in DOMAIN arch.models /\ b \in Nat /\ fill \in Nat
          /\ zero \in States /\ zero.has = State.has
      BY <1>1, <2>1, FeedingType, ResetFacts, ZeroGradsFacts, FillAssumption DEF NetsThere
    <2> HIDE DEF zero
    <2>3. st \in States /\ st.has = State.has
      BY <2>2, ResizedFacts
    <2> HIDE DEF st
    <2>4. Backed(st)
      BY <2>3, SameDeltas
    <2>5. Backed(more)
      BY <2>2, <2>3, <2>4, DoDeltaBacked
    <2> HIDE DEF more
    <2> QED
      BY <1>3, <2>1, <2>4, <2>5
  <1>8. ASSUME NEW n \in Net, ZeroCall(n) \/ Backward(n) \/ Optimize(n) PROVE Backed(State)'
    <2>1. has' = has
      BY <1>8 DEF ZeroCall, Backward, Optimize, deltaVars
    <2> QED
      BY <1>2, <2>1
  <1>9. ASSUME NEW l, Detach(l) PROVE Backed(State)'
    BY <1>2, <1>9 DEF Detach, deltaVars
  <1> QED
    BY <1>4, <1>5, <1>6, <1>7, <1>8, <1>9 DEF Called

LEMMA SweepBacked ==
    ASSUME NetsThere, NetsApart, EndsInv, SweepInv, Backed(State),
           NEW fill \in Fill, SweepStep(fill)
    PROVE  Backed(State)'
  <1>0. UNCHANGED <<arch, nets>> /\ todo # <<>> /\ Sweep(fill)
    BY DEF SweepStep
  <1>1. State \in States /\ ChainInv /\ todo \in Seq(Calling)
    BY DEF SweepInv
  <1> DEFINE n == Head(todo).net
             outs == DoDelta(State, n, fill)
             swept == DoBackward(outs, n, fill)
             copied == CopyDeltas(swept, n, fill)
  <1>2. Becomes(copied) \/ Becomes(swept)
    BY <1>0 DEF Sweep
  <1>3. n \in Net /\ fill \in Nat
    <2>1. Head(todo) \in Calling
      <3> HIDE DEF Calling
      <3> QED
        BY <1>0, <1>1
    <2> QED
      BY <2>1, FillAssumption DEF Calling
  <1> HIDE DEF n
  <1>4. outs \in States /\ Backed(outs)
    BY <1>1, <1>3, DoDeltaFacts, DoDeltaBacked
  <1> HIDE DEF outs
  <1>5. swept \in States /\ Backed(swept)
    BY <1>3, <1>4, DoBackwardFacts, DoBackwardBacked
  <1> HIDE DEF swept
  <1>6. Backed(copied)
    BY <1>1, <1>3, <1>5, CopyDeltasBacked
  <1> HIDE DEF copied
  <1> QED
    BY <1>0, <1>2, <1>5, <1>6, BackedThen DEF Becomes

LEMMA TrainBacked ==
    ASSUME NetsThere, NetsApart, EndsInv, SweepInv, Backed(State),
           NEW n \in Net, NEW b \in arch.sizes, NEW fill \in Fill, TrainBatch(n, b, fill)
    PROVE  Backed(State)'
  <1>0. UNCHANGED <<arch, nets>> /\ (TrainTooFew(n, b) \/ TrainAll(n, b, fill))
    BY DEF TrainBatch
  <1>1. State \in States
    BY DEF SweepInv
  <1>2. n \in DOMAIN arch.models /\ b \in Nat /\ fill \in Nat
    BY TrainingAssumption, FillAssumption DEF NetsThere
  <1> DEFINE sized == Resized(State, n, b)
             st == ZeroGrads(Reset(sized, n), n)
             outs == DoDelta(st, n, fill)
             trained == DoBackward(outs, n, fill)
  <1>3. Becomes(sized) \/ Becomes(trained)
    BY <1>0 DEF TrainTooFew, TrainAll
  <1>4. sized \in States /\ sized.has = State.has
    BY <1>1, <1>2, ResizedFacts
  <1> HIDE DEF sized
  <1>5. st \in States /\ st.has = State.has
    BY <1>4, ResetFacts, ZeroGradsFacts
  <1> HIDE DEF st
  <1>6. Backed(sized) /\ Backed(st)
    BY <1>4, <1>5, SameDeltas
  <1>7. outs \in States /\ Backed(outs)
    BY <1>2, <1>5, <1>6, DoDeltaFacts, DoDeltaBacked
  <1> HIDE DEF outs
  <1>8. Backed(trained)
    BY <1>2, <1>7, DoBackwardBacked
  <1> HIDE DEF trained
  <1> QED
    BY <1>0, <1>3, <1>6, <1>8, BackedThen DEF Becomes

LEMMA BackedStep ==
    ASSUME NetsThere, NetsApart, EndsInv, SweepInv, Backed(State), Next, ~ Build
    PROVE  Backed(State)'
  <1>1. ASSUME NEW n \in Net, Update(n) PROVE Backed(State)'
    <2>1. UNCHANGED <<arch, nets>> /\ has' = State.has
      BY <1>1 DEF Update, backVars, deltaVars, State
    <2> QED
      BY <2>1, BackedThen
  <1> QED
    BY <1>1, CalledBacked, SweepBacked, TrainBacked, NextCases

LEMMA UpstreamNets ==
    ASSUME NetsThere, NEW n \in Net
    PROVE  Upstream(n) \in SUBSET Net
  <1>1. Upstream(n) \subseteq 1 .. n
    BY DEF Upstream
  <1> QED
    BY <1>1, NetNumbers

LEMMA DueStep ==
    ASSUME NetsThere, NetsApart, EndsInv, LinkInv, due \in [Layer -> Nat], Next, ~ Build
    PROVE  due' \in [Layer -> Nat]
  <1>1. \A n \in Net : NothingDue(n) \in [Layer -> Nat]
    BY DEF NothingDue
  <1>2. \A n \in Net : \A s \in SUBSET Net : MoreDue(due, n, s) \in [Layer -> Nat]
    BY MoreDueType
  <1>3. ASSUME NEW n \in Net
        PROVE  /\ MoreDue(due, n, {n}) \in [Layer -> Nat]
               /\ MoreDue(due, n, Upstream(n)) \in [Layer -> Nat]
               /\ MoreDue(NothingDue(n), n, {n}) \in [Layer -> Nat]
    <2>1. PICK d \in [Layer -> Nat] : d = NothingDue(n)
      BY <1>1
    <2>2. PICK s \in SUBSET Net : s = {n}
      OBVIOUS
    <2>3. MoreDue(d, n, s) \in [Layer -> Nat]
      BY MoreDueType
    <2> QED
      BY <1>2, <2>1, <2>2, <2>3, UpstreamNets
  <1> DEFINE Good == due' \in [Layer -> Nat]
  <1>4. ASSUME Called PROVE Good
    <2>1. ASSUME NEW n \in Net, ZeroCall(n) \/ Backward(n) \/ Optimize(n) PROVE Good
      BY <1>1, <1>3, <2>1 DEF ZeroCall, Backward, Optimize
    <2>2. ASSUME NEW n \in Net, ForwardChain(n) PROVE Good
      BY <2>2 DEF ForwardChain
    <2>3. ASSUME NEW n \in Net, NEW b \in arch.sizes, Forward(n, b) PROVE Good
      BY <2>3 DEF Forward
    <2>4. ASSUME NEW n \in Net, NEW fill \in Fill, Compute(n, fill) PROVE Good
      BY <1>1, <2>4 DEF Compute
    <2>5. ASSUME NEW n \in Net, NEW b \in arch.sizes, EvalBatch(n, b) PROVE Good
      BY <1>1, <2>5 DEF EvalBatch, EvalTooFew, EvalAll
    <2>6. ASSUME NEW l, Detach(l) PROVE Good
      BY <2>6 DEF Detach, gradVars
    <2> HIDE DEF Good
    <2> QED
      BY <1>4, <2>1, <2>2, <2>3, <2>4, <2>5, <2>6 DEF Called
  <1>5. ASSUME NEW fill \in Fill, SweepStep(fill) PROVE Good
    BY <1>5 DEF SweepStep, Sweep
  <1>6. ASSUME NEW n \in Net, Update(n) PROVE Good
    BY <1>6 DEF Update, backVars, gradVars
  <1>7. ASSUME NEW n \in Net, NEW b \in arch.sizes, NEW fill \in Fill, TrainBatch(n, b, fill)
        PROVE  Good
    <2>1. due' = due \/ due' = MoreDue(NothingDue(n), n, {n})
      BY <1>7 DEF TrainBatch, TrainTooFew, TrainAll
    <2> QED
      BY <1>3, <2>1
  <1>8. Good
    <2> HIDE DEF Good
    <2> QED
      BY <1>4, <1>5, <1>6, <1>7, NextCases
  <1> QED
    BY <1>8

-----------------------------------------------------------------------------
(* The types of a program's state.                                          *)

\* There are no deltas, and nothing is due, before all nets are built.
FreshInv == phase \notin {"built", "crashed"} => has = {} /\ due = [l \in Layer |-> 0]

DeltaInv == NetsApart => Backed(State) /\ due \in [Layer -> Nat]

TrainInv == MarksInv /\ LinkInv /\ EndsInv /\ FreshInv /\ DeltaInv

LEMMA BuildGoesOn ==
    ASSUME Build
    PROVE  /\ phase \notin {"built", "crashed"} /\ arch' = arch
           /\ UNCHANGED <<has, due, used, detached, slices>>
  BY DEF Build, GraphStep, StartModel, Walk, TurnBack, WalkBack, Collect, Visit, Resort,
         SortedForward, Split, Built, BeginSort, Sorting, backVars, deltaVars, gradVars, chainVars

LEMMA FreshDeltas == has = {} /\ due = [l \in Layer |-> 0] => DeltaInv
  BY DEF DeltaInv, Backed, ViewsBacked, State

LEMMA BuildTrainInv ==
    ASSUME NetsThere, TrainInv, EndsInv', Build
    PROVE  TrainInv'
  <1>1. /\ phase \notin {"built", "crashed"} /\ arch' = arch
        /\ UNCHANGED <<has, due, used, detached, slices>>
    BY BuildGoesOn
  <1>2. has' = {} /\ due' = [l \in Layer' |-> 0]
    BY <1>1 DEF TrainInv, FreshInv, Layer
  <1>3. FreshInv'
    BY <1>2 DEF FreshInv
  <1>4. DeltaInv'
    <2>1. (has = {} /\ due = [l \in Layer |-> 0])'
      BY <1>2
    <2> QED
      BY <2>1, FreshDeltas, PTL
  <1>5. MarksInv'
    BY <1>1 DEF TrainInv, MarksInv, Layer
  <1> QED
    BY <1>3, <1>4, <1>5, BuildLinkInv DEF TrainInv

LEMMA SameApart ==
    ASSUME UNCHANGED <<arch, nets>>
    PROVE  NetsApart' <=> NetsApart
  <1>1. /\ Net' = Net
        /\ \A n : Host(n)' = Host(n) /\ LayersOf(n)' = LayersOf(n) /\ Model(n)' = Model(n)
    BY SameNetsThere DEF Model
  <1>2. /\ \A n : Elements(Model(n).feeds)' = Elements(Model(n).feeds)
        /\ \A l : Elements(arch.parent[l])' = Elements(arch.parent[l])
    BY <1>1 DEF Elements
  <1> QED
    BY <1>1, <1>2 DEF NetsApart

LEMMA CallTrainInv ==
    ASSUME NetsThere, SweepInv, TrainInv, EndsInv', Next, ~ Build
    PROVE  TrainInv'
  <1>1. UNCHANGED <<arch, nets>> /\ phase' \in {"built", "crashed"}
    BY CallsKeepGraph DEF GraphKept
  <1>2. MarksInv' /\ LinkInv'
    BY MarksStep, LinkStep DEF TrainInv
  <1>3. FreshInv'
    BY <1>1 DEF FreshInv
  <1>4. DeltaInv'
    <2>1. CASE NetsApart
      <3>1. Backed(State)' /\ due' \in [Layer -> Nat]
        BY <2>1, BackedStep, DueStep DEF TrainInv, DeltaInv
      <3> QED
        BY <1>1, <3>1 DEF DeltaInv, Layer
    <2>2. CASE ~ NetsApart
      BY <1>1, <2>2, SameApart DEF DeltaInv
    <2> QED
      BY <2>1, <2>2
  <1> QED
    BY <1>2, <1>3, <1>4 DEF TrainInv

LEMMA NextTrainInv ==
    CrashInv /\ PastInv /\ TrainInv /\ [Next]_vars => TrainInv'
  <1> SUFFICES ASSUME CrashInv, PastInv, TrainInv, [Next]_vars PROVE TrainInv'
    OBVIOUS
  <1>1. ProgramInv /\ CountInv /\ SweepInv /\ NetsThere
    BY CrashInvNets DEF CrashInv
  <1>2. EndsInv'
    BY <1>1, NextEndsInv DEF TrainInv
  <1>3. CASE Build
    BY <1>1, <1>2, <1>3, BuildTrainInv
  <1>4. CASE Next /\ ~ Build
    BY <1>1, <1>2, <1>4, CallTrainInv
  <1>5. CASE UNCHANGED vars
    <2>1. UNCHANGED <<arch, nets, phase, has, due, used, detached, slices, link>>
      BY <1>5 DEF vars, graphVars, buildVars, backVars, deltaVars, gradVars, chainVars
    <2>2. MarksInv' /\ FreshInv'
      BY <2>1 DEF TrainInv, MarksInv, FreshInv, Layer
    <2>3. LinkInv'
      <3>1. Net' = Net /\ InNets' = InNets /\ \A m : Host(m)' = Host(m) /\ Model(m)' = Model(m)
        BY <2>1, SameNetsThere DEF Model
      <3>2. \A m : /\ Elements(Model(m).feeds)' = Elements(Model(m).feeds)
                   /\ Elements(link[m])' = Elements(link[m])
                   /\ Len(Host(m).lin)' = Len(Host(m).lin)
        BY <2>1, <3>1 DEF Elements
      <3> QED
        BY <2>1, <3>1, <3>2 DEF TrainInv, LinkInv
    <2>4. DeltaInv'
      <3>1. CASE NetsApart
        <4>1. Backed(State)
          BY <3>1 DEF TrainInv, DeltaInv
        <4>2. Backed(State)'
          BY <2>1, <4>1, BackedThen DEF State
        <4> QED
          BY <2>1, <3>1, <4>2 DEF TrainInv, DeltaInv, Layer
      <3>2. CASE ~ NetsApart
        BY <2>1, <3>2, SameApart DEF DeltaInv
      <3> QED
        BY <3>1, <3>2
    <2> QED
      BY <1>2, <2>2, <2>3, <2>4 DEF TrainInv
  <1> QED
    BY <1>3, <1>4, <1>5

LEMMA InitTrainInv == Init => TrainInv
  <1> SUFFICES ASSUME Init PROVE TrainInv
    OBVIOUS
  <1>1. /\ arch \in Architectures /\ nets = <<>>
        /\ has = {} /\ used = {} /\ detached = {} /\ due = [l \in Layer |-> 0]
        /\ link = [n \in DOMAIN arch.models |-> <<>>]
        /\ slices = [n \in DOMAIN arch.models |-> [d \in 1 .. arch.devices |-> 1]]
    BY DEF Init, GraphInit, BackInit
  <1>2. MarksInv
    BY <1>1 DEF MarksInv
  <1>3. LinkInv
    BY <1>1 DEF LinkInv
  <1>4. EndsInv
    BY <1>1 DEF EndsInv, Net
  <1> QED
    BY <1>1, <1>2, <1>3, <1>4, FreshDeltas DEF TrainInv, FreshInv

\* Whatever nets a program builds and trains, if no layer is in two of them,
\* each has the parents of its layers, and nets go on from those built before:
\* the state is as it is declared.  So a view has a delta only while the layer
\* has whose memory it shows, also where mem_level frees deltas one by one, and
\* there is a number of paths that says what is due.
THEOREM TrainingTypeCorrect == Spec => [](NetsApart => TypeOK)
  <1>1. /\ CrashInv /\ PaceInv /\ TrainInv => (NetsApart => TypeOK)
    <2> SUFFICES ASSUME CrashInv, PaceInv, TrainInv, NetsApart PROVE TypeOK
      OBVIOUS
    <2>1. ProgramInv /\ State \in States /\ NetsThere
      BY CrashInvNets DEF CrashInv, SweepInv
    <2>2. GraphTypeOK \/ phase = "crashed"
      <3>1. CASE phase = "crashed"
        BY <3>1
      <3>2. CASE phase # "crashed"
        <4>1. GraphInv
          BY <2>1, <3>2 DEF ProgramInv
        <4> QED
          BY <4>1 DEF GraphInv, PhaseInv, WalkType, SortType, GraphTypeOK
      <3> QED
        BY <3>1, <3>2
    <2>3. /\ has \subseteq Layer /\ content \in [Layer -> Nat] /\ size \in [Layer -> Nat]
          /\ gradient \in [Layer -> Nat]
      BY <2>1, StateFields DEF State
    <2>4. due \in [Layer -> Nat] /\ \A l \in Layer : IsView(l) /\ l \in has => Buffer(l) \in has
      BY DEF TrainInv, DeltaInv, Backed, ViewsBacked, State, IsView
    <2>5. /\ used \subseteq Layer /\ detached \subseteq Layer
          /\ DOMAIN slices = DOMAIN arch.models
          /\ \A n \in DOMAIN slices : slices[n] \in [1 .. arch.devices -> Nat \ {0}]
      BY DEF TrainInv, MarksInv
    <2>6. /\ {tr, drift} \subseteq [DOMAIN arch.models -> Nat]
          /\ pace \in [DOMAIN arch.models -> {"new", "train", "swept", "updated", "loose"}]
      BY DEF PaceInv, PaceType, Pace
    <2> QED
      BY <2>2, <2>3, <2>4, <2>5, <2>6 DEF TypeOK
  <1>2. Spec => []TrainInv
    BY InitTrainInv, NextTrainInv, SpecCrashInv, SpecPastInv, PTL DEF Spec
  <1> QED
    BY <1>1, <1>2, SpecCrashInv, SpecPaceInv, PTL

\* What holds of no layer or edge, and of one more whenever it holds of some,
\* holds of all.
LEMMA OneByOne ==
    ASSUME NEW S, IsFiniteSet(S), NEW B, {} \in B,
           \A T \in SUBSET S : \A x \in S \ T : T \in B => T \cup {x} \in B
    PROVE  S \in B
  <1> DEFINE K == {k \in Nat : \A T \in SUBSET S : Cardinality(T) = k => T \in B}
  <1>1. 0 \in K
    <2>1. \A T \in SUBSET S : Cardinality(T) = 0 => T = {}
      BY FS_Subset, FS_EmptySet
    <2> QED
      BY <2>1
  <1>2. ASSUME NEW k \in Nat, k \in K PROVE k + 1 \in K
    <2> SUFFICES ASSUME NEW T \in SUBSET S, Cardinality(T) = k + 1 PROVE T \in B
      OBVIOUS
    <2>1. T # {}
      <3>1. Cardinality({}) = 0
        BY FS_EmptySet
      <3> QED
        BY <3>1
    <2>2. /\ Some(T) \in T /\ T \ {Some(T)} \in SUBSET S
          /\ Cardinality(T \ {Some(T)}) = k
      BY <2>1, SomeFacts
    <2>3. T \ {Some(T)} \in B
      BY <1>2, <2>2
    <2>4. T = (T \ {Some(T)}) \cup {Some(T)}
      BY <2>2
    <2>5. (T \ {Some(T)}) \cup {Some(T)} \in B
      BY <2>2, <2>3
    <2> QED
      BY <2>4, <2>5
  <1> HIDE DEF K
  <1>3. Cardinality(S) \in K
    BY <1>1, <1>2, CountUp, FS_CardinalityType
  <1> QED
    BY <1>3 DEF K

\* The sum of the numbers F over S.
Total(S, F) == CHOOSE v : \E f \in [SUBSET S -> Int] : SumOf(f, S, F) /\ v = f[S]

LEMMA IntSumExists ==
    ASSUME NEW S, IsFiniteSet(S), NEW F, \A x \in S : F[x] \in Int
    PROVE  \E f \in [SUBSET S -> Int] : SumOf(f, S, F)
  <1> DEFINE Step(f, s) == IF s = {} THEN 0 ELSE F[Some(s)] + f[s \ {Some(s)}]
             Upto(k) == \E f \in [SUBSET S -> Int] :
                            \A s \in SUBSET S : Cardinality(s) <= k => f[s] = Step(f, s)
             B == {k \in Nat : Upto(k)}
  <1>1. \A s \in SUBSET S : /\ Cardinality(s) \in Nat /\ (Cardinality(s) = 0 <=> s = {})
                            /\ Cardinality(s) <= Cardinality(S)
    BY FS_Subset, FS_CardinalityType, FS_EmptySet
  <1>2. Upto(0)
    <2> DEFINE f == [s \in SUBSET S |-> 0]
    <2>1. f \in [SUBSET S -> Int] /\ \A s \in SUBSET S : f[s] = 0
      OBVIOUS
    <2> HIDE DEF f
    <2>2. \A s \in SUBSET S : Cardinality(s) <= 0 => f[s] = Step(f, s)
      BY <1>1, <2>1
    <2> QED
      BY <2>1, <2>2
  <1>3. ASSUME NEW k \in Nat, Upto(k) PROVE Upto(k + 1)
    <2>1. PICK f \in [SUBSET S -> Int] :
              \A s \in SUBSET S : Cardinality(s) <= k => f[s] = Step(f, s)
      BY <1>3
    <2>2. \A s \in SUBSET S : Step(f, s) \in Int
      <3> SUFFICES ASSUME NEW s \in SUBSET S PROVE Step(f, s) \in Int
        OBVIOUS
      <3>1. CASE s = {}
        BY <3>1
      <3>2. CASE s # {}
        <4>1. Some(s) \in S /\ s \ {Some(s)} \in SUBSET S
          BY <3>2, SomeFacts
        <4>2. F[Some(s)] \in Int /\ f[s \ {Some(s)}] \in Int
          BY <4>1
        <4> QED
          BY <3>2, <4>2
      <3> QED
        BY <3>1, <3>2
    <2> DEFINE h == [s \in SUBSET S |-> Step(f, s)]
    <2>3. h \in [SUBSET S -> Int] /\ \A s \in SUBSET S : h[s] = Step(f, s)
      <3> HIDE DEF Step
      <3> QED
        BY <2>2
    <2> HIDE DEF h
    <2>4. ASSUME NEW s \in SUBSET S, Cardinality(s) <= k + 1 PROVE h[s] = Step(h, s)
      <3>1. CASE s = {}
        BY <2>3, <3>1
      <3>2. CASE s # {}
        <4>1. /\ s \ {Some(s)} \in SUBSET S /\ Cardinality(s) \in Nat
              /\ Cardinality(s \ {Some(s)}) = Cardinality(s) - 1
          BY <3>2, SomeFacts
        <4>2. Cardinality(s \ {Some(s)}) <= k
          BY <2>4, <4>1
        <4>3. h[s \ {Some(s)}] = f[s \ {Some(s)}]
          <5> HIDE DEF Step
          <5> QED
            BY <2>1, <2>3, <4>1, <4>2
        <4> QED
          BY <2>3, <3>2, <4>3
      <3> QED
        BY <3>1, <3>2
    <2> HIDE DEF Step
    <2> QED
      BY <2>3, <2>4
  <1>4. Upto(Cardinality(S))
    <2>1. 0 \in B /\ \A k \in Nat : k \in B => k + 1 \in B
      <3> HIDE DEF Upto
      <3> QED
        BY <1>2, <1>3
    <2> HIDE DEF B
    <2>2. Cardinality(S) \in B
      BY <2>1, CountUp, FS_CardinalityType
    <2> HIDE DEF Upto
    <2> QED
      BY <2>2 DEF B
  <1>5. PICK f \in [SUBSET S -> Int] :
            \A s \in SUBSET S : Cardinality(s) <= Cardinality(S) => f[s] = Step(f, s)
    BY <1>4
  <1>6. \A s \in SUBSET S : f[s] = Step(f, s)
    <2> HIDE DEF Step
    <2> QED
      BY <1>1, <1>5
  <1> QED
    BY <1>6 DEF SumOf

LEMMA TotalOf ==
    ASSUME NEW S, IsFiniteSet(S), NEW F, \A x \in S : F[x] \in Int,
           NEW f \in [SUBSET S -> Int], SumOf(f, S, F)
    PROVE  Total(S, F) = f[S] /\ Total(S, F) \in Int
  <1> DEFINE Q(v) == \E g \in [SUBSET S -> Int] : SumOf(g, S, F) /\ v = g[S]
  <1>1. Q(f[S])
    OBVIOUS
  <1>2. Q(Total(S, F))
    <2> HIDE DEF Q
    <2>1. Total(S, F) = CHOOSE v : Q(v)
      BY DEF Total, Q
    <2> QED
      BY <1>1, <2>1
  <1>3. PICK g \in [SUBSET S -> Int] : SumOf(g, S, F) /\ Total(S, F) = g[S]
    BY <1>2
  <1>4. g[S] = f[S]
    BY <1>3, OneSum
  <1> QED
    BY <1>3, <1>4

LEMMA TotalSame ==
    ASSUME NEW S, IsFiniteSet(S), NEW F, NEW G,
           \A x \in S : F[x] \in Int /\ F[x] = G[x]
    PROVE  Total(S, F) = Total(S, G) /\ Total(S, F) \in Int
  <1>1. PICK f \in [SUBSET S -> Int] : SumOf(f, S, F)
    BY IntSumExists
  <1>2. PICK g \in [SUBSET S -> Int] : SumOf(g, S, G)
    BY IntSumExists
  <1>3. Total(S, F) = f[S] /\ Total(S, F) \in Int /\ Total(S, G) = g[S]
    BY <1>1, <1>2, TotalOf
  <1> QED
    BY <1>1, <1>2, <1>3, OneSum

\* It does not matter which number is taken first.
AnyFirst(f, S, F) == \A x \in S : f[S] = F[x] + f[S \ {x}]

LEMMA TakeAnyFirst ==
    ASSUME NEW S, IsFiniteSet(S), NEW F, \A x \in S : F[x] \in Int,
           NEW f \in [SUBSET S -> Int], SumOf(f, S, F)
    PROVE  AnyFirst(f, S, F)
  <1> DEFINE B == {k \in Nat : \A s \in SUBSET S : Cardinality(s) = k
                                   => \A x \in s : f[s] = F[x] + f[s \ {x}]}
  <1>1. 0 \in B
    <2>1. \A s \in SUBSET S : Cardinality(s) = 0 => s = {}
      BY FS_Subset, FS_EmptySet
    <2> QED
      BY <2>1
  <1>2. ASSUME NEW k \in Nat, k \in B PROVE k + 1 \in B
    <2> SUFFICES ASSUME NEW s \in SUBSET S, Cardinality(s) = k + 1, NEW x \in s
                 PROVE  f[s] = F[x] + f[s \ {x}]
      OBVIOUS
    <2> DEFINE y == Some(s)
    <2>1. /\ y \in s /\ s \ {y} \in SUBSET S /\ Cardinality(s \ {y}) = k
      BY SomeFacts
    <2>2. f[s] = F[y] + f[s \ {y}]
      BY DEF SumOf
    <2> HIDE DEF y
    <2>3. CASE x = y
      BY <2>2, <2>3
    <2>4. CASE x # y
      <3>1. IsFiniteSet(s)
        BY FS_Subset
      <3>2. Cardinality(s \ {x}) = k /\ s \ {x} \in SUBSET S
        <4>1. Cardinality(s \ {x}) = Cardinality(s) - 1
          BY <3>1, FS_RemoveElement
        <4> QED
          BY <4>1
      <3>3. f[s \ {y}] = F[x] + f[(s \ {y}) \ {x}]
        BY <1>2, <2>1, <2>4
      <3>4. f[s \ {x}] = F[y] + f[(s \ {x}) \ {y}]
        BY <1>2, <2>1, <2>4, <3>2
      <3>5. PICK r \in SUBSET S : r = (s \ {x}) \ {y} /\ r = (s \ {y}) \ {x}
        <4>1. (s \ {x}) \ {y} = (s \ {y}) \ {x}
          OBVIOUS
        <4> QED
          BY <4>1
      <3>6. F[x] \in Int /\ F[y] \in Int /\ f[r] \in Int
        BY <2>1, <3>5
      <3>7. f[s \ {y}] = F[x] + f[r] /\ f[s \ {x}] = F[y] + f[r]
        BY <3>3, <3>4, <3>5
      <3> QED
        BY <2>2, <3>6, <3>7
    <2> QED
      BY <2>3, <2>4
  <1> HIDE DEF B
  <1>3. \A s \in SUBSET S : Cardinality(s) \in Nat
    BY FS_Subset, FS_CardinalityType
  <1>4. \A s \in SUBSET S : Cardinality(s) \in B
    BY <1>1, <1>2, <1>3, CountUp
  <1>5. \A s \in SUBSET S : \A x \in s : f[s] = F[x] + f[s \ {x}]
    BY <1>4 DEF B
  <1>6. S \in SUBSET S
    OBVIOUS
  <1> QED
    BY <1>5, <1>6 DEF AnyFirst

LEMMA TotalEmpty == ASSUME NEW F PROVE Total({}, F) = 0
  <1>1. PICK f \in [SUBSET {} -> Int] : SumOf(f, {}, F)
    BY IntSumExists, FS_EmptySet
  <1>2. Total({}, F) = f[{}]
    BY <1>1, TotalOf, FS_EmptySet
  <1> QED
    BY <1>1, <1>2 DEF SumOf

LEMMA TotalLess ==
    ASSUME NEW S, IsFiniteSet(S), NEW F, \A y \in S : F[y] \in Int, NEW x \in S
    PROVE  /\ Total(S, F) = F[x] + Total(S \ {x}, F)
           /\ Total(S, F) \in Int /\ Total(S \ {x}, F) \in Int
  <1>1. PICK f \in [SUBSET S -> Int] : SumOf(f, S, F)
    BY IntSumExists
  <1>2. Total(S, F) = f[S] /\ Total(S, F) \in Int
    BY <1>1, TotalOf
  <1> DEFINE T == S \ {x}
  <1>3. f[S] = F[x] + f[T]
    <2>1. AnyFirst(f, S, F)
      BY <1>1, TakeAnyFirst
    <2> QED
      BY <2>1 DEF AnyFirst
  <1>4. IsFiniteSet(T) /\ T \subseteq S
    BY FS_Subset
  <1>5. PICK g \in [SUBSET T -> Int] : SumOf(g, T, F)
    BY <1>4, IntSumExists
  <1>6. Total(T, F) = g[T] /\ Total(T, F) \in Int
    BY <1>4, <1>5, TotalOf
  <1>7. SumOf(f, T, F)
    BY <1>1, <1>4 DEF SumOf
  <1>8. f[T] = g[T]
    BY <1>4, <1>5, <1>7, OneSum
  <1> QED
    BY <1>2, <1>3, <1>6, <1>8

LEMMA TotalMore ==
    ASSUME NEW S, IsFiniteSet(S), NEW F, NEW x, x \notin S, \A y \in S \cup {x} : F[y] \in Int
    PROVE  /\ Total(S \cup {x}, F) = F[x] + Total(S, F)
           /\ Total(S, F) \in Int /\ Total(S \cup {x}, F) \in Int
  <1>1. PICK T : T = S \cup {x}
    OBVIOUS
  <1>2. IsFiniteSet(T) /\ x \in T /\ \A y \in T : F[y] \in Int
    BY <1>1, FS_AddElement
  <1>3. T \ {x} = S
    BY <1>1
  <1> QED
    BY <1>1, <1>2, <1>3, TotalLess

LEMMA TotalOne ==
    ASSUME NEW x, NEW F, F[x] \in Int
    PROVE  Total({x}, F) = F[x]
  <1>1. {} \cup {x} = {x}
    OBVIOUS
  <1>2. /\ Total({} \cup {x}, F) = F[x] + Total({}, F)
    BY TotalMore, FS_EmptySet
  <1> QED
    BY <1>1, <1>2, TotalEmpty

LEMMA TotalPlus ==
    ASSUME NEW S, IsFiniteSet(S), NEW F, NEW G, NEW H,
           \A x \in S : F[x] \in Int /\ G[x] \in Int /\ H[x] = F[x] + G[x]
    PROVE  Total(S, H) = Total(S, F) + Total(S, G)
  <1> DEFINE B == {T \in SUBSET S : Total(T, H) = Total(T, F) + Total(T, G)}
  <1>1. {} \in B
    BY TotalEmpty
  <1>2. ASSUME NEW T \in SUBSET S, NEW x \in S \ T, T \in B PROVE T \cup {x} \in B
    <2>1. IsFiniteSet(T) /\ T \cup {x} \in SUBSET S
      BY FS_Subset
    <2>2. \A y \in T \cup {x} : F[y] \in Int /\ G[y] \in Int /\ H[y] \in Int
      BY <2>1
    <2>3. /\ Total(T \cup {x}, F) = F[x] + Total(T, F) /\ Total(T, F) \in Int
          /\ Total(T \cup {x}, G) = G[x] + Total(T, G) /\ Total(T, G) \in Int
          /\ Total(T \cup {x}, H) = H[x] + Total(T, H)
      BY <2>1, <2>2, TotalMore
    <2> QED
      BY <1>2, <2>1, <2>2, <2>3
  <1> HIDE DEF B
  <1>3. S \in B
    BY <1>1, <1>2, OneByOne
  <1> QED
    BY <1>3 DEF B

LEMMA TotalEach ==
    ASSUME NEW S, IsFiniteSet(S), NEW F, NEW c \in Int, \A x \in S : F[x] = c
    PROVE  Total(S, F) = c * Cardinality(S)
  <1> DEFINE B == {T \in SUBSET S : Total(T, F) = c * Cardinality(T)}
  <1>1. {} \in B
    BY TotalEmpty, FS_EmptySet
  <1>2. ASSUME NEW T \in SUBSET S, NEW x \in S \ T, T \in B PROVE T \cup {x} \in B
    <2>1. IsFiniteSet(T) /\ T \cup {x} \in SUBSET S
      BY FS_Subset
    <2>2. Cardinality(T \cup {x}) = Cardinality(T) + 1 /\ Cardinality(T) \in Nat
      BY <2>1, FS_AddElement, FS_CardinalityType
    <2>3. Total(T \cup {x}, F) = F[x] + Total(T, F)
      BY ZenonT(40), <2>1, TotalMore
    <2>4. \A k \in Nat : c * (k + 1) = c + c * k
      OBVIOUS
    <2> QED
      BY <1>2, <2>1, <2>2, <2>3, <2>4
  <1> HIDE DEF B
  <1>3. S \in B
    BY <1>1, <1>2, OneByOne
  <1> QED
    BY <1>3 DEF B

LEMMA TotalZero ==
    ASSUME NEW S, IsFiniteSet(S), NEW F, \A x \in S : F[x] = 0
    PROVE  Total(S, F) = 0
  <1>1. Cardinality(S) \in Nat
    BY FS_CardinalityType
  <1> QED
    BY <1>1, TotalEach

LEMMA TotalBoth ==
    ASSUME NEW S, IsFiniteSet(S), NEW T, IsFiniteSet(T), S \cap T = {}, NEW F,
           \A x \in S \cup T : F[x] \in Int
    PROVE  /\ Total(S \cup T, F) = Total(S, F) + Total(T, F)
           /\ Total(S, F) \in Int /\ Total(T, F) \in Int
  <1> DEFINE B == {R \in SUBSET T : /\ Total(S \cup R, F) = Total(S, F) + Total(R, F)
                                    /\ Total(S, F) \in Int /\ Total(R, F) \in Int}
  <1>1. {} \in B
    <2>1. S \cup {} = S
      OBVIOUS
    <2>2. Total(S, F) \in Int
      BY TotalSame
    <2> QED
      BY <2>1, <2>2, TotalEmpty
  <1>2. ASSUME NEW R \in SUBSET T, NEW x \in T \ R, R \in B PROVE R \cup {x} \in B
    <2>1. IsFiniteSet(R) /\ R \cup {x} \in SUBSET T
      BY FS_Subset
    <2>2. PICK Q : Q = S \cup R
      OBVIOUS
    <2>3. IsFiniteSet(Q) /\ x \notin Q /\ S \cup (R \cup {x}) = Q \cup {x}
          /\ \A y \in Q \cup {x} : F[y] \in Int
      BY <2>1, <2>2, FS_Union
    <2>4. Total(Q \cup {x}, F) = F[x] + Total(Q, F)
      BY <2>3, TotalMore
    <2>5. Total(R \cup {x}, F) = F[x] + Total(R, F) /\ Total(R \cup {x}, F) \in Int
      BY <2>1, TotalMore
    <2>6. F[x] \in Int /\ Total(S, F) \in Int /\ Total(R, F) \in Int
          /\ Total(Q, F) = Total(S, F) + Total(R, F)
      BY <1>2, <2>2
    <2>7. Total(Q \cup {x}, F) = Total(S, F) + Total(R \cup {x}, F)
      BY <2>4, <2>5, <2>6
    <2> QED
      BY <2>1, <2>3, <2>5, <2>6, <2>7
  <1> HIDE DEF B
  <1>3. T \in B
    BY <1>1, <1>2, OneByOne
  <1> QED
    BY <1>3 DEF B

\* A sum by parts: at[x] says to which part of the sum x belongs.
PartOf(A, at, l) == {x \in A : at[x] = l}
PartsOf(A, at, T) == {x \in A : at[x] \in T}

LEMMA TotalByParts ==
    ASSUME NEW A, IsFiniteSet(A), NEW F, \A x \in A : F[x] \in Int, NEW at,
           NEW T, IsFiniteSet(T), NEW P, \A l \in T : P[l] = Total(PartOf(A, at, l), F)
    PROVE  Total(T, P) = Total(PartsOf(A, at, T), F)
  <1> DEFINE B == {R \in SUBSET T : Total(R, P) = Total(PartsOf(A, at, R), F)}
  <1>1. {} \in B
    <2>1. PartsOf(A, at, {}) = {}
      BY DEF PartsOf
    <2> QED
      BY <2>1, TotalEmpty
  <1>2. ASSUME NEW R \in SUBSET T, NEW l \in T \ R, R \in B PROVE R \cup {l} \in B
    <2>1. IsFiniteSet(R) /\ R \cup {l} \in SUBSET T
      BY FS_Subset
    <2>2. /\ PartsOf(A, at, R \cup {l}) = PartsOf(A, at, R) \cup PartOf(A, at, l)
          /\ PartsOf(A, at, R) \cap PartOf(A, at, l) = {}
          /\ PartsOf(A, at, R) \subseteq A /\ PartOf(A, at, l) \subseteq A
      BY DEF PartsOf, PartOf
    <2>3. IsFiniteSet(PartsOf(A, at, R)) /\ IsFiniteSet(PartOf(A, at, l))
      BY <2>2, FS_Subset
    <2>4. /\ Total(PartsOf(A, at, R \cup {l}), F)
                = Total(PartsOf(A, at, R), F) + Total(PartOf(A, at, l), F)
          /\ Total(PartsOf(A, at, R), F) \in Int /\ Total(PartOf(A, at, l), F) \in Int
      <3>1. PICK x, y : x = PartsOf(A, at, R) /\ y = PartOf(A, at, l)
        OBVIOUS
      <3>2. IsFiniteSet(x) /\ IsFiniteSet(y) /\ x \cap y = {} /\ \A z \in x \cup y : F[z] \in Int
        BY <2>2, <2>3, <3>1
      <3>3. /\ Total(x \cup y, F) = Total(x, F) + Total(y, F)
            /\ Total(x, F) \in Int /\ Total(y, F) \in Int
        BY <3>2, TotalBoth
      <3> QED
        BY <2>2, <3>1, <3>3
    <2>5. \A k \in R \cup {l} : P[k] \in Int
      <3> SUFFICES ASSUME NEW k \in R \cup {l} PROVE P[k] \in Int
        OBVIOUS
      <3>1. PartOf(A, at, k) \subseteq A
        BY DEF PartOf
      <3>2. IsFiniteSet(PartOf(A, at, k)) /\ \A x \in PartOf(A, at, k) : F[x] \in Int
        BY <3>1, FS_Subset
      <3>3. Total(PartOf(A, at, k), F) \in Int
        BY <3>2, TotalSame
      <3> QED
        BY <2>1, <3>3
    <2>6. Total(R \cup {l}, P) = P[l] + Total(R, P)
      BY <2>1, <2>5, TotalMore
    <2> QED
      BY <1>2, <2>1, <2>4, <2>6
  <1> HIDE DEF B
  <1>3. T \in B
    BY <1>1, <1>2, OneByOne
  <1> QED
    BY <1>3 DEF B

-----------------------------------------------------------------------------
(* What a sweep does to deltas and gradients.                               *)

LEMMA WithDeltaData ==
    ASSUME NEW st \in States, NEW h \in SUBSET Layer, NEW o \in Layer, NEW c \in Nat,
           NEW b \in Nat
    PROVE  /\ WithDelta(st, h, o, c, b).gradient = st.gradient
           /\ WithDelta(st, h, o, c, b).batch = st.batch
           /\ WithDelta(st, h, o, c, b).content[o] = c /\ WithDelta(st, h, o, c, b).size[o] = b
           /\ \A k \in Layer : k # o =>
                  /\ WithDelta(st, h, o, c, b).content[k] = st.content[k]
                  /\ WithDelta(st, h, o, c, b).size[k] = st.size[k]
  <1> DEFINE x == [st.content EXCEPT ![o] = c]
             z == [st.size EXCEPT ![o] = b]
             old == [st EXCEPT !.has = h, !.content = x, !.size = z]
  <1>1. /\ \A k \in Layer : x[k] = IF k = o THEN c ELSE st.content[k]
        /\ \A k \in Layer : z[k] = IF k = o THEN b ELSE st.size[k]
    BY StateFields
  <1>2. WithDelta(st, h, o, c, b) = old
    BY DEF States, WithDelta
  <1> HIDE DEF x, z
  <1>3. old.content = x /\ old.size = z /\ old.gradient = st.gradient /\ old.batch = st.batch
    BY DEF States
  <1> HIDE DEF old
  <1> QED
    BY <1>1, <1>2, <1>3

LEMMA WithContentData ==
    ASSUME NEW st \in States, NEW o \in Layer, NEW c \in Nat
    PROVE  /\ WithContent(st, o, c).gradient = st.gradient
           /\ WithContent(st, o, c).batch = st.batch
           /\ WithContent(st, o, c).size = st.size
           /\ WithContent(st, o, c).content[o] = c
           /\ \A k \in Layer : k # o => WithContent(st, o, c).content[k] = st.content[k]
  <1> DEFINE x == [st.content EXCEPT ![o] = c]
             old == [st EXCEPT !.content = x]
  <1>1. \A k \in Layer : x[k] = IF k = o THEN c ELSE st.content[k]
    BY StateFields
  <1>2. WithContent(st, o, c) = old
    BY DEF States, WithContent
  <1> HIDE DEF x
  <1>3. old.content = x /\ old.size = st.size /\ old.gradient = st.gradient /\ old.batch = st.batch
    BY DEF States
  <1> HIDE DEF old
  <1> QED
    BY <1>1, <1>2, <1>3

LEMMA WithHasData ==
    ASSUME NEW st \in States, NEW h \in SUBSET Layer
    PROVE  /\ WithHas(st, h).gradient = st.gradient /\ WithHas(st, h).batch = st.batch
           /\ WithHas(st, h).content = st.content /\ WithHas(st, h).size = st.size
  BY DEF States, WithHas

\* The batch size that the delta of layer l is made for.
BatchOf(st, l) == IF l \in InNets THEN st.batch[NetOf(l)] ELSE 1

LEMMA MemDeltaData ==
    ASSUME NetsThere, NEW st \in States, NEW l \in Layer, NEW fill \in Nat
    PROVE  /\ MemDelta(st, l, fill).gradient = st.gradient
           /\ MemDelta(st, l, fill).batch = st.batch
           /\ \A k \in Layer : k # Buffer(l) =>
                  /\ MemDelta(st, l, fill).content[k] = st.content[k]
                  /\ MemDelta(st, l, fill).size[k] = st.size[k]
                  /\ ~ IsView(k) => (k \in MemDelta(st, l, fill).has <=> k \in st.has)
           /\ Buffer(l) \in st.has /\ st.size[Buffer(l)] = BatchOf(st, l) =>
                  /\ MemDelta(st, l, fill).content[Buffer(l)] = st.content[Buffer(l)]
                  /\ MemDelta(st, l, fill).size[Buffer(l)] = st.size[Buffer(l)]
           /\ Buffer(l) \notin st.has =>
                  /\ MemDelta(st, l, fill).content[Buffer(l)] = 0
                  /\ MemDelta(st, l, fill).size[Buffer(l)] = BatchOf(st, l)
  <1> DEFINE o == Buffer(l)
             b == BatchOf(st, l)
             h == st.has \cup NewDeltas(l, st)
             t == MemDelta(st, l, fill)
  <1>1. o \in Layer /\ h \in SUBSET Layer
    <2>1. st.has \in SUBSET Layer
      BY StateFields
    <2> QED
      BY <2>1, BufferType, NewDeltasFacts DEF NetsThere
  <1>2. b \in Nat
    BY NetOfType, StateFields DEF NetsThere, BatchOf
  <1>3. t = IF o \notin st.has THEN WithDelta(st, h, o, 0, b)
            ELSE IF st.size[o] # b THEN WithDelta(st, h, o, fill, b)
            ELSE WithHas(st, h)
    BY DEF MemDelta, WithDelta, WithHas, BatchOf
  <1>4. \A k \in Layer : k # o /\ ~ IsView(k) => (k \in t.has <=> k \in st.has)
    <2>1. st.has \in SUBSET Layer
      BY StateFields
    <2>2. t.has = h
      BY MemDeltaFacts
    <2>3. \A k \in NewDeltas(l, st) : Buffer(k) = o
      BY <2>1, NewDeltasUp DEF NetsThere
    <2>4. \A k \in Layer : ~ IsView(k) => Buffer(k) = k
      BY BufferFacts DEF NetsThere
    <2> HIDE DEF t
    <2> QED
      BY <2>2, <2>3, <2>4
  <1> HIDE DEF b, h, t
  <1> DEFINE Goal == /\ t.gradient = st.gradient /\ t.batch = st.batch
                     /\ \A k \in Layer : k # o =>
                            /\ t.content[k] = st.content[k] /\ t.size[k] = st.size[k]
                            /\ ~ IsView(k) => (k \in t.has <=> k \in st.has)
                     /\ o \in st.has /\ st.size[o] = b =>
                            t.content[o] = st.content[o] /\ t.size[o] = st.size[o]
                     /\ o \notin st.has => t.content[o] = 0 /\ t.size[o] = b
  <1> SUFFICES Goal
    BY DEF b, t
  <1>5. CASE o \notin st.has
    <2> HIDE DEF o
    <2> PICK c \in Nat : c = 0
      OBVIOUS
    <2>1. t = WithDelta(st, h, o, c, b)
      BY <1>3, <1>5
    <2>2. /\ t.gradient = st.gradient /\ t.batch = st.batch
          /\ \A k \in Layer : k # o => t.content[k] = st.content[k] /\ t.size[k] = st.size[k]
          /\ t.content[o] = c /\ t.size[o] = b
      <3>1. PICK w : w = WithDelta(st, h, o, c, b)
        OBVIOUS
      <3>2. /\ w.gradient = st.gradient /\ w.batch = st.batch
            /\ \A k \in Layer : k # o => w.content[k] = st.content[k] /\ w.size[k] = st.size[k]
            /\ w.content[o] = c /\ w.size[o] = b
        BY <1>1, <1>2, <3>1, WithDeltaData
      <3>3. t = w
        BY <2>1, <3>1
      <3> QED
        BY <3>2, <3>3
    <2>3. o \in st.has /\ st.size[o] = b =>
              t.content[o] = st.content[o] /\ t.size[o] = st.size[o]
      BY <1>5
    <2>4. o \notin st.has => t.content[o] = 0 /\ t.size[o] = b
      BY <2>2
    <2>5. \A k \in Layer : k # o =>
              /\ t.content[k] = st.content[k] /\ t.size[k] = st.size[k]
              /\ ~ IsView(k) => (k \in t.has <=> k \in st.has)
      BY <1>4, <2>2
    <2>6. t.gradient = st.gradient /\ t.batch = st.batch
      BY <2>2
    <2> QED
      BY <2>3, <2>4, <2>5, <2>6
  <1>6. CASE o \in st.has /\ st.size[o] # b
    <2> HIDE DEF o
    <2> PICK c \in Nat : c = fill
      OBVIOUS
    <2>1. t = WithDelta(st, h, o, c, b)
      BY <1>3, <1>6
    <2>2. /\ t.gradient = st.gradient /\ t.batch = st.batch
          /\ \A k \in Layer : k # o => t.content[k] = st.content[k] /\ t.size[k] = st.size[k]
          /\ t.content[o] = c /\ t.size[o] = b
      <3>1. PICK w : w = WithDelta(st, h, o, c, b)
        OBVIOUS
      <3>2. /\ w.gradient = st.gradient /\ w.batch = st.batch
            /\ \A k \in Layer : k # o => w.content[k] = st.content[k] /\ w.size[k] = st.size[k]
            /\ w.content[o] = c /\ w.size[o] = b
        BY <1>1, <1>2, <3>1, WithDeltaData
      <3>3. t = w
        BY <2>1, <3>1
      <3> QED
        BY <3>2, <3>3
    <2> QED
      BY <1>4, <1>6, <2>2
  <1>7. CASE o \in st.has /\ st.size[o] = b
    <2> HIDE DEF o
    <2>1. t = WithHas(st, h)
      BY <1>3, <1>7
    <2>2. /\ t.gradient = st.gradient /\ t.batch = st.batch
          /\ t.content = st.content /\ t.size = st.size
      BY <1>1, <2>1, WithHasData
    <2> QED
      BY <1>1, <1>4, <1>7, <2>2
  <1> QED
    BY <1>5, <1>6, <1>7

LEMMA FreeDeltaData ==
    ASSUME NEW st \in States, NEW l \in Layer
    PROVE  /\ FreeDelta(st, l).gradient = st.gradient /\ FreeDelta(st, l).batch = st.batch
           /\ FreeDelta(st, l).size = st.size
           /\ \A k \in Layer : FreeDelta(st, l).content[k] = IF k = l THEN 0 ELSE st.content[k]
  <1> DEFINE x == [st.content EXCEPT ![l] = 0]
  <1>1. \A k \in Layer : x[k] = IF k = l THEN 0 ELSE st.content[k]
    BY StateFields
  <1>2. CASE IsInput(l)
    <2> DEFINE q == st.broken \/ l \notin st.has
               new == [st EXCEPT !.content = x, !.broken = q]
    <2>1. FreeDelta(st, l) = new
      BY <1>2 DEF FreeDelta
    <2> HIDE DEF x, q
    <2>2. /\ new.content = x /\ new.size = st.size /\ new.gradient = st.gradient
          /\ new.batch = st.batch
      BY DEF States
    <2> HIDE DEF new
    <2> QED
      BY <1>1, <2>1, <2>2
  <1>3. CASE ~ IsInput(l)
    <2> DEFINE h == st.has \ {l}
               new == [st EXCEPT !.has = h, !.content = x]
    <2>1. FreeDelta(st, l) = new
      BY <1>3 DEF FreeDelta
    <2> HIDE DEF x, h
    <2>2. /\ new.content = x /\ new.size = st.size /\ new.gradient = st.gradient
          /\ new.batch = st.batch
      BY DEF States
    <2> HIDE DEF new
    <2> QED
      BY <1>1, <2>1, <2>2
  <1> QED
    BY <1>2, <1>3

\* How often the delta of layer l is added to the memory of layer k.
Times(l, k) == Cardinality({i \in DOMAIN arch.parent[l] : Buffer(arch.parent[l][i]) = k})

LEMMA TimesType ==
    ASSUME arch \in Architectures, NEW l \in Layer, NEW k
    PROVE  /\ Times(l, k) \in Nat
           /\ (\A i \in DOMAIN arch.parent[l] : Buffer(arch.parent[l][i]) # k) => Times(l, k) = 0
  <1> DEFINE ps == arch.parent[l]
  <1>1. ps \in Seq(Nat)
    BY LayerFacts
  <1>2. IsFiniteSet(DOMAIN ps)
    BY <1>1, FS_Interval
  <1> HIDE DEF ps
  <1> DEFINE S == {i \in DOMAIN ps : Buffer(ps[i]) = k}
  <1>3. IsFiniteSet(S)
    BY <1>2, FS_Subset
  <1>4. Times(l, k) = Cardinality(S)
    BY DEF Times, ps
  <1>5. (\A i \in DOMAIN ps : Buffer(ps[i]) # k) => S = {}
    OBVIOUS
  <1> HIDE DEF S
  <1> QED
    BY <1>3, <1>4, <1>5, FS_CardinalityType, FS_EmptySet DEF ps

LEMMA BackLayerData ==
    ASSUME arch \in Architectures, NEW st \in States, NEW l \in Layer
    PROVE  /\ BackLayer(st, l).batch = st.batch /\ BackLayer(st, l).size = st.size
           /\ ~ HasWeights(l) => /\ BackLayer(st, l).content = st.content
                                 /\ BackLayer(st, l).gradient = st.gradient
           /\ ~ BackLayer(st, l).broken /\ HasWeights(l) =>
                  /\ \A k \in Layer : BackLayer(st, l).content[k]
                                          = st.content[k] + st.content[l] * Times(l, k)
                  /\ \A k \in Layer : BackLayer(st, l).gradient[k]
                                          = st.gradient[k] + IF k = l THEN st.content[l] ELSE 0
           /\ \A k \in Layer : (k # l => BackLayer(st, l).gradient[k] = st.gradient[k])
           /\ \A k \in Layer : Times(l, k) = 0 => BackLayer(st, l).content[k] = st.content[k]
  <1>1. CASE ~ HasWeights(l)
    <2>1. BackLayer(st, l) = st
      BY <1>1 DEF BackLayer
    <2> QED
      BY <1>1, <2>1
  <1>2. CASE HasWeights(l) /\ l \notin st.has
    <2>1. BackLayer(st, l) = [st EXCEPT !.broken = TRUE]
      BY <1>2 DEF BackLayer
    <2>2. /\ BackLayer(st, l).batch = st.batch /\ BackLayer(st, l).size = st.size
          /\ BackLayer(st, l).gradient = st.gradient /\ BackLayer(st, l).content = st.content
          /\ BackLayer(st, l).broken = TRUE
      BY <2>1 DEF States
    <2> QED
      BY <1>2, <2>2
  <1>3. CASE HasWeights(l) /\ l \in st.has
    <2> DEFINE x == PassedOn(st, l)
               g == [st.gradient EXCEPT ![l] = @ + st.content[l]]
               new == [st EXCEPT !.content = x, !.gradient = g]
    <2>1. \A k \in Layer : x[k] = st.content[k] + st.content[l] * Times(l, k)
      BY DEF PassedOn, Times
    <2>2. \A k \in Layer : g[k] = st.gradient[k] + IF k = l THEN st.content[l] ELSE 0
      BY StateFields
    <2>3. BackLayer(st, l) = new
      BY <1>3 DEF BackLayer
    <2>4. \A k \in Layer : st.content[k] \in Nat /\ st.gradient[k] \in Nat
      BY StateFields
    <2>5. \A k \in Layer : k # l => g[k] = st.gradient[k]
      BY StateFields
    <2>6. \A k \in Layer : Times(l, k) = 0 => x[k] = st.content[k]
      BY <2>1, <2>4
    <2> HIDE DEF x, g
    <2>7. new.content = x /\ new.gradient = g /\ new.batch = st.batch /\ new.size = st.size
      BY DEF States
    <2> HIDE DEF new
    <2> QED
      BY <1>3, <2>1, <2>2, <2>3, <2>5, <2>6, <2>7
  <1> QED
    BY <1>1, <1>2, <1>3

-----------------------------------------------------------------------------
(* What a sweep of one net leaves to the others, and what making deltas does  *)
(* not change.                                                               *)

\* The deltas of net n are of its batch size, those that do not exist are zero.
Calm(st, n) ==
    \A o \in LayersOf(n) : ~ IsView(o) =>
        /\ o \in st.has => st.size[o] = st.batch[n]
        /\ o \notin st.has => st.content[o] = 0

Unmoved(t, st) == t.content = st.content /\ t.gradient = st.gradient /\ t.batch = st.batch

\* From st to t nothing changed for the layers of other nets.
Beyond(t, st, n) ==
    /\ t.batch = st.batch
    /\ \A k \in Layer \ LayersOf(n) : /\ t.content[k] = st.content[k]
                                      /\ t.gradient[k] = st.gradient[k]
                                      /\ k \in st.has => k \in t.has

LEMMA BeyondFurther ==
    ASSUME NEW n, NEW s, NEW t, NEW u, Beyond(t, s, n), Beyond(u, t, n)
    PROVE  Beyond(u, s, n)
  BY DEF Beyond

LEMMA SameFurther ==
    ASSUME NEW n, NEW s, NEW t, t.content = s.content, t.gradient = s.gradient,
           t.batch = s.batch, s.has \subseteq t.has
    PROVE  Beyond(t, s, n)
  BY DEF Beyond

\* A layer's memory is in its own net.
LEMMA BufferThere ==
    ASSUME NetsThere, NetsApart, NEW n \in Net, NEW l \in LayersOf(n)
    PROVE  /\ l \in Layer /\ l \in InNets /\ NetOf(l) = n
           /\ Buffer(l) \in LayersOf(n) /\ Buffer(l) \in Layer /\ ~ IsView(Buffer(l))
           /\ Buffer(l) <= l
  <1>1. l \in Layer /\ l \in InNets /\ NetOf(l) = n
    BY NetThere, NetOfApart
  <1>2. Buffer(l) \in LayersOf(n)
    BY NetIsClosed, BufferUp DEF NetsThere
  <1>3. ~ IsView(Buffer(l)) /\ Buffer(l) <= l
    <2> DEFINE T == {k \in Layer : ~ IsView(Buffer(k)) /\ Buffer(k) <= k}
    <2>1. \A k \in Layer : k \in Nat
      BY LayerFacts DEF NetsThere
    <2>2. \A k \in Layer \ arch.views : k \in T
      BY <2>1, BufferFacts DEF IsView, NetsThere
    <2>3. ASSUME NEW k \in arch.views, arch.parent[k][1] \in T PROVE k \in T
      <3>1. k \in Layer /\ arch.parent[k][1] \in Layer
        BY <2>3, ParentOfView DEF NetsThere
      <3>2. 1 \in DOMAIN arch.parent[k]
        <4>1. Len(arch.parent[k]) = 1 /\ arch.parent[k] \in Seq(Nat)
          BY <3>1, LayerFacts, BackpropAssumption DEF NetsThere
        <4> QED
          BY <4>1
      <3>3. arch.parent[k][1] <= k
        BY <2>1, <3>1, <3>2, LayerFacts DEF NetsThere
      <3>4. Buffer(k) = Buffer(arch.parent[k][1])
        BY <3>1, BufferFacts DEF IsView, NetsThere
      <3>5. Buffer(k) \in Layer
        BY <3>1, BufferFacts DEF NetsThere
      <3> QED
        BY <2>1, <2>3, <3>1, <3>3, <3>4, <3>5
    <2> HIDE DEF T
    <2>4. Layer \subseteq T
      BY <2>2, <2>3, AllLayers DEF NetsThere
    <2> QED
      BY <1>1, <2>4 DEF T
  <1> QED
    BY <1>1, <1>2, <1>3, NetThere

LEMMA MemDeltaCalm ==
    ASSUME NetsThere, NetsApart, NEW n \in Net, NEW l \in LayersOf(n), NEW st \in States,
           NEW fill \in Nat
    PROVE  /\ Beyond(MemDelta(st, l, fill), st, n)
           /\ Calm(st, n) => /\ Calm(MemDelta(st, l, fill), n)
                             /\ Unmoved(MemDelta(st, l, fill), st)
  <1> DEFINE t == MemDelta(st, l, fill)
             o == Buffer(l)
  <1>1. /\ l \in Layer /\ l \in InNets /\ NetOf(l) = n
        /\ o \in LayersOf(n) /\ o \in Layer /\ ~ IsView(o)
    BY BufferThere
  <1>2. BatchOf(st, l) = st.batch[n]
    BY <1>1 DEF BatchOf
  <1>3. /\ t.gradient = st.gradient /\ t.batch = st.batch
        /\ \A k \in Layer : k # o => /\ t.content[k] = st.content[k] /\ t.size[k] = st.size[k]
                                     /\ ~ IsView(k) => (k \in t.has <=> k \in st.has)
        /\ o \in st.has /\ st.size[o] = st.batch[n] =>
               t.content[o] = st.content[o] /\ t.size[o] = st.size[o]
        /\ o \notin st.has => t.content[o] = 0 /\ t.size[o] = st.batch[n]
    BY <1>1, <1>2, MemDeltaData
  <1>4. t \in States /\ st.has \subseteq t.has
    BY <1>1, MemDeltaFacts
  <1>5. LayersOf(n) \in SUBSET Layer
    BY NetThere
  <1> HIDE DEF t, o
  <1>6. Beyond(t, st, n)
    BY <1>1, <1>3, <1>4 DEF Beyond
  <1>7. ASSUME Calm(st, n) PROVE Calm(t, n) /\ Unmoved(t, st)
    <2>1. /\ o \in st.has => st.size[o] = st.batch[n]
          /\ o \notin st.has => st.content[o] = 0
      BY <1>1, <1>7 DEF Calm
    <2>2. \A k \in Layer : t.content[k] = st.content[k]
      BY <1>3, <2>1
    <2>3. t.content \in [Layer -> Nat] /\ st.content \in [Layer -> Nat]
      BY <1>4, StateFields
    <2>4. t.content = st.content
      BY <2>2, <2>3
    <2>5. Unmoved(t, st)
      BY <1>3, <2>4 DEF Unmoved
    <2>6. ASSUME NEW k \in LayersOf(n), ~ IsView(k)
          PROVE  /\ k \in t.has => t.size[k] = t.batch[n]
                 /\ k \notin t.has => t.content[k] = 0
      <3>1. CASE k = o
        BY <1>3, <1>4, <2>1, <2>4, <3>1
      <3>2. CASE k # o
        BY <1>3, <1>5, <1>7, <2>4, <2>6, <3>2 DEF Calm
      <3> QED
        BY <3>1, <3>2
    <2> QED
      BY <2>5, <2>6 DEF Calm
  <1> QED
    BY <1>6, <1>7 DEF t

LEMMA ParentsMemCalm ==
    ASSUME NetsThere, NetsApart, NEW n \in Net, NEW l \in LayersOf(n), NEW st \in States,
           NEW fill \in Nat
    PROVE  /\ Beyond(ParentsMem(st, l, fill), st, n)
           /\ Calm(st, n) => /\ Calm(ParentsMem(st, l, fill), n)
                             /\ Unmoved(ParentsMem(st, l, fill), st)
  <1> DEFINE ps == arch.parent[l]
             m == Len(ps)
  <1>0. l \in Layer
    BY BufferThere
  <1>1. m \in Nat /\ DOMAIN ps = 1 .. m /\ \A k \in 1 .. m : ps[k] \in LayersOf(n)
    <2>1. ps \in Seq(Nat)
      BY <1>0, LayerFacts DEF NetsThere
    <2>2. Elements(ps) \subseteq LayersOf(n)
      BY DEF NetsApart
    <2> QED
      BY <2>1, <2>2 DEF Elements
  <1>2. PICK f : /\ ParentsMem(st, l, fill) = f[1 .. m] /\ f[{}] = st
                 /\ \A k \in 1 .. m : f[1 .. k] = MemDelta(f[1 .. k - 1], ps[k], fill)
    BY <1>0, ParentsMemSteps
  <1> HIDE DEF ps, m
  <1> DEFINE Done(k) == /\ f[1 .. k] \in States /\ Beyond(f[1 .. k], st, n)
                        /\ Calm(st, n) => Calm(f[1 .. k], n) /\ Unmoved(f[1 .. k], st)
             B == {k \in Nat : k <= m => Done(k)}
  <1>3. Done(0)
    <2>1. 1 .. 0 = {}
      OBVIOUS
    <2> QED
      BY <1>2, <2>1 DEF Beyond, Unmoved
  <1>4. ASSUME NEW k \in Nat, k + 1 <= m, Done(k) PROVE Done(k + 1)
    <2>1. k + 1 \in 1 .. m /\ (k + 1) - 1 = k
      BY <1>1, <1>4
    <2>2. f[1 .. k + 1] = MemDelta(f[1 .. k], ps[k + 1], fill)
      BY <1>2, <2>1
    <2>3. PICK s \in States : s = f[1 .. k]
      BY <1>4
    <2>4. PICK p \in LayersOf(n) : p = ps[k + 1] /\ p \in Layer
      BY <1>1, <2>1, BufferThere
    <2>5. /\ Beyond(MemDelta(s, p, fill), s, n)
          /\ Calm(s, n) => Calm(MemDelta(s, p, fill), n) /\ Unmoved(MemDelta(s, p, fill), s)
      BY MemDeltaCalm
    <2>6. MemDelta(s, p, fill) \in States
      BY <2>4, MemDeltaFacts
    <2>7. Beyond(MemDelta(s, p, fill), st, n)
      BY <1>4, <2>3, <2>5, BeyondFurther
    <2> QED
      BY <1>4, <2>2, <2>3, <2>4, <2>5, <2>6, <2>7 DEF Unmoved
  <1>5. Done(m)
    <2> HIDE DEF Done
    <2>1. 0 \in B
      BY <1>3
    <2>2. \A k \in Nat : k \in B => k + 1 \in B
      BY <1>1, <1>4
    <2> HIDE DEF B
    <2>3. m \in B
      BY <1>1, <2>1, <2>2, CountUp
    <2>4. m <= m
      BY <1>1
    <2> QED
      BY <2>3, <2>4 DEF B
  <1> QED
    BY <1>2, <1>5

-----------------------------------------------------------------------------
(* What do_delta() writes.                                                   *)

\* One of the first k outputs with a loss has its delta in layer o.
Lost(n, k, o) == \E i \in 1 .. k : i <= Model(n).losses /\ Buffer(Host(n).lout[i]) = o

LEMMA WrittenData ==
    ASSUME NetsThere, NetsApart, EndsInv, NEW n \in Net, NEW fill \in Nat, NEW s \in States,
           Backed(s), NEW i \in DOMAIN Host(n).lout
    PROVE  /\ Written(s, i, n, fill) \in States /\ Backed(Written(s, i, n, fill))
           /\ Beyond(Written(s, i, n, fill), s, n)
           /\ Written(s, i, n, fill).gradient = s.gradient
           /\ \A k \in Layer : k # Buffer(Host(n).lout[i]) =>
                  Written(s, i, n, fill).content[k] = s.content[k]
           /\ i <= Model(n).losses =>
                  Written(s, i, n, fill).content[Buffer(Host(n).lout[i])] = 1
           /\ Calm(s, n) /\ ~ (i <= Model(n).losses) =>
                  Written(s, i, n, fill).content = s.content
           /\ Calm(s, n) => Calm(Written(s, i, n, fill), n)
  <1> PICK l \in LayersOf(n) : l = Host(n).lout[i]
    BY DEF EndsInv, Elements
  <1> DEFINE o == Buffer(l)
             t == MemDelta(s, l, fill)
             w == Written(s, i, n, fill)
  <1>1. /\ l \in Layer /\ l \in InNets
        /\ o \in LayersOf(n) /\ o \in Layer /\ ~ IsView(o)
    BY BufferThere
  <1>2. /\ t \in States /\ Backed(t) /\ Beyond(t, s, n)
        /\ Calm(s, n) => Calm(t, n) /\ Unmoved(t, s)
    BY <1>1, MemDeltaBacked, MemDeltaCalm
  <1>3. t.gradient = s.gradient /\ \A k \in Layer : k # o => t.content[k] = s.content[k]
    BY <1>1, MemDeltaData
  <1>4. o \in t.has
    <2>1. l \in t.has
      BY <1>1, MemDeltaThere
    <2> HIDE DEF t
    <2>2. o = l \/ IsView(l)
      BY <1>1, BufferFacts DEF NetsThere
    <2> QED
      BY <1>1, <1>2, <2>1, <2>2 DEF Backed, ViewsBacked, IsView
  <1>5. PICK c \in Nat : c = 1
    OBVIOUS
  <1>6. w = IF i <= Model(n).losses THEN WithContent(t, o, c) ELSE t
    BY <1>5 DEF Written, WithContent
  <1>7. LayersOf(n) \in SUBSET Layer
    BY NetThere
  <1> HIDE DEF t, o, w
  <1> DEFINE x == WithContent(t, o, c)
  <1>8. /\ x \in States /\ x.has = t.has /\ x.gradient = t.gradient /\ x.batch = t.batch
        /\ x.size = t.size /\ x.content[o] = c
        /\ \A k \in Layer : k # o => x.content[k] = t.content[k]
    BY <1>1, <1>2, SetContent, WithContentData
  <1> HIDE DEF x
  <1> DEFINE Goal == /\ w \in States /\ Backed(w) /\ Beyond(w, s, n) /\ w.gradient = s.gradient
                     /\ \A k \in Layer : k # o => w.content[k] = s.content[k]
                     /\ i <= Model(n).losses => w.content[o] = 1
                     /\ Calm(s, n) /\ ~ (i <= Model(n).losses) => w.content = s.content
                     /\ Calm(s, n) => Calm(w, n)
  <1> SUFFICES Goal
    BY DEF w, o
  <1>9. CASE i <= Model(n).losses
    <2>1. w = x
      BY <1>6, <1>9 DEF x
    <2>2. Beyond(x, t, n)
      BY <1>1, <1>8 DEF Beyond
    <2>3. Backed(x)
      BY <1>2, <1>8 DEF Backed
    <2>4. Beyond(x, s, n)
      BY <1>2, <2>2, BeyondFurther
    <2>5. Calm(t, n) => Calm(x, n)
      BY <1>4, <1>7, <1>8 DEF Calm
    <2> QED
      BY <1>2, <1>3, <1>5, <1>8, <1>9, <2>1, <2>3, <2>4, <2>5
  <1>10. CASE ~ (i <= Model(n).losses)
    BY <1>2, <1>3, <1>6, <1>10 DEF Unmoved
  <1> QED
    BY <1>9, <1>10

LEMMA DoDeltaData ==
    ASSUME NetsThere, NetsApart, EndsInv, NEW n \in Net, NEW fill \in Nat, NEW st \in States,
           Backed(st)
    PROVE  /\ DoDelta(st, n, fill) \in States /\ Backed(DoDelta(st, n, fill))
           /\ Beyond(DoDelta(st, n, fill), st, n)
           /\ DoDelta(st, n, fill).gradient = st.gradient
           /\ \A o \in Layer : (\A i \in DOMAIN Host(n).lout : Buffer(Host(n).lout[i]) # o)
                  => DoDelta(st, n, fill).content[o] = st.content[o]
           /\ Calm(st, n) =>
                  /\ Calm(DoDelta(st, n, fill), n)
                  /\ \A o \in Layer :
                         /\ Lost(n, Len(Host(n).lout), o) => DoDelta(st, n, fill).content[o] = 1
                         /\ ~ Lost(n, Len(Host(n).lout), o) =>
                                DoDelta(st, n, fill).content[o] = st.content[o]
  <1> DEFINE ps == Host(n).lout
             m == Len(ps)
  <1>1. m \in Nat /\ DOMAIN ps = 1 .. m
    <2>1. ps \in Seq(Layer)
      BY NetThere DEF BuiltNet
    <2> HIDE DEF ps
    <2> QED
      BY <2>1
  <1>2. PICK f : /\ DoDelta(st, n, fill) = f[1 .. m] /\ f[{}] = st
                 /\ \A k \in 1 .. m : f[1 .. k] = Written(f[1 .. k - 1], k, n, fill)
    <2>1. \E f : /\ DoDelta(st, n, fill) = f[1 .. Len(Host(n).lout)] /\ f[{}] = st
                 /\ \A k \in 1 .. Len(Host(n).lout) :
                        f[1 .. k] = Written(f[1 .. k - 1], k, n, fill)
      BY DoDeltaSteps
    <2> QED
      BY <2>1
  <1> DEFINE Kept1(s, k) == \A o \in Layer : (\A i \in 1 .. k : Buffer(ps[i]) # o)
                                => s.content[o] = st.content[o]
             Ones(s, k) == \A o \in Layer :
                               /\ Lost(n, k, o) => s.content[o] = 1
                               /\ ~ Lost(n, k, o) => s.content[o] = st.content[o]
             Good(s, k) == /\ s \in States /\ Backed(s) /\ Beyond(s, st, n)
                           /\ s.gradient = st.gradient /\ Kept1(s, k)
                           /\ Calm(st, n) => Calm(s, n) /\ Ones(s, k)
             Done(k) == Good(f[1 .. k], k)
             B == {k \in Nat : k <= m => Done(k)}
  <1>3. Done(0)
    <2>1. 1 .. 0 = {}
      OBVIOUS
    <2>2. Kept1(st, 0)
      OBVIOUS
    <2>3. Ones(st, 0)
      BY <2>1 DEF Lost
    <2>4. Beyond(st, st, n)
      BY DEF Beyond
    <2> HIDE DEF Kept1, Ones
    <2> QED
      BY <1>2, <2>1, <2>2, <2>3, <2>4
  <1>4. ASSUME NEW k \in Nat, k + 1 <= m, Done(k) PROVE Done(k + 1)
    <2>1. k + 1 \in 1 .. m /\ (k + 1) - 1 = k
      BY <1>1, <1>4
    <2>2. PICK i \in DOMAIN Host(n).lout : i = k + 1
      BY <1>1, <2>1
    <2>3. PICK s \in States : s = f[1 .. k] /\ Good(s, k)
      BY <1>4
    <2> DEFINE w == Written(s, i, n, fill)
    <2>4. f[1 .. k + 1] = w
      BY <1>2, <2>1, <2>2, <2>3
    <2>5. /\ w \in States /\ Backed(w) /\ Beyond(w, s, n) /\ w.gradient = s.gradient
          /\ \A o \in Layer : o # Buffer(ps[i]) => w.content[o] = s.content[o]
          /\ i <= Model(n).losses => w.content[Buffer(ps[i])] = 1
          /\ Calm(s, n) /\ ~ (i <= Model(n).losses) => w.content = s.content
          /\ Calm(s, n) => Calm(w, n)
      <3>1. Backed(s)
        BY <2>3
      <3> QED
        BY <3>1, WrittenData, Zenon
    <2> HIDE DEF w
    <2>6. 1 .. k + 1 = (1 .. k) \cup {i} /\ i \notin 1 .. k
      BY <1>4, <2>2
    <2> HIDE DEF ps, m
    <2>7. Kept1(w, k + 1)
      BY <2>3, <2>5, <2>6
    <2>8. Beyond(w, st, n)
      BY <2>3, <2>5, BeyondFurther
    <2>9. ASSUME Calm(st, n) PROVE Calm(w, n) /\ Ones(w, k + 1)
      <3>1. Calm(s, n) /\ Calm(w, n) /\ Ones(s, k)
        BY <2>3, <2>5, <2>9
      <3>2. ASSUME NEW o \in Layer
            PROVE  Lost(n, k + 1, o) <=> Lost(n, k, o) \/ (i <= Model(n).losses /\ Buffer(ps[i]) = o)
        BY <2>6 DEF Lost, ps
      <3>3. ASSUME NEW o \in Layer
            PROVE  /\ Lost(n, k + 1, o) => w.content[o] = 1
                   /\ ~ Lost(n, k + 1, o) => w.content[o] = st.content[o]
        <4>1. CASE i <= Model(n).losses /\ Buffer(ps[i]) = o
          BY <2>5, <3>2, <4>1
        <4>2. CASE ~ (i <= Model(n).losses)
          BY <2>5, <3>1, <3>2, <4>2
        <4>3. CASE Buffer(ps[i]) # o
          BY <2>5, <3>1, <3>2, <4>3
        <4> QED
          BY <4>1, <4>2, <4>3
      <3> QED
        BY <3>1, <3>3
    <2>10. w.gradient = st.gradient
      BY <2>3, <2>5
    <2> HIDE DEF Kept1, Ones
    <2> QED
      BY <2>4, <2>5, <2>7, <2>8, <2>9, <2>10
  <1>5. Done(m)
    <2> HIDE DEF Done, ps, m
    <2>1. 0 \in B
      BY <1>3
    <2>2. \A k \in Nat : k \in B => k + 1 \in B
      BY <1>1, <1>4
    <2> HIDE DEF B
    <2>3. m \in B
      BY <1>1, <2>1, <2>2, CountUp
    <2>4. m <= m
      BY <1>1
    <2> QED
      BY <2>3, <2>4 DEF B
  <1> QED
    BY <1>1, <1>2, <1>5

-----------------------------------------------------------------------------
(* What backward() of one layer adds.                                        *)

LEMMA TimesThere ==
    ASSUME NetsThere, NetsApart, NEW n \in Net, NEW l \in LayersOf(n)
    PROVE  /\ \A k : k \notin LayersOf(n) => Times(l, k) = 0
           /\ \A k : Times(l, k) \in Nat
           /\ Times(l, l) = 0
           /\ \A h \in SUBSET Layer : Elements(arch.parent[l]) \subseteq h /\ ViewsBacked(h) =>
                  \A k : k \notin h => Times(l, k) = 0
  <1>1. /\ l \in Layer /\ l \in Nat /\ arch.parent[l] \in Seq(Nat)
        /\ \A i \in DOMAIN arch.parent[l] : arch.parent[l][i] \in 1 .. l - 1
    BY BufferThere, LayerFacts DEF NetsThere
  <1>2. \A i \in DOMAIN arch.parent[l] :
            /\ arch.parent[l][i] \in LayersOf(n) /\ arch.parent[l][i] \in Elements(arch.parent[l])
    BY DEF NetsApart, Elements
  <1>3. \A k : /\ Times(l, k) \in Nat
               /\ (\A i \in DOMAIN arch.parent[l] : Buffer(arch.parent[l][i]) # k)
                      => Times(l, k) = 0
    BY <1>1, TimesType DEF NetsThere
  <1>4. ASSUME NEW i \in DOMAIN arch.parent[l]
        PROVE  Buffer(arch.parent[l][i]) \in LayersOf(n) /\ Buffer(arch.parent[l][i]) # l
    <2>1. PICK p \in LayersOf(n) : p = arch.parent[l][i] /\ p \in 1 .. l - 1
      BY <1>1, <1>2
    <2>2. Buffer(p) \in LayersOf(n) /\ Buffer(p) <= p /\ Buffer(p) \in Layer
      BY BufferThere
    <2>3. Buffer(p) \in Nat
      BY <2>2, LayerFacts DEF NetsThere
    <2> QED
      BY <1>1, <2>1, <2>2, <2>3
  <1>5. ASSUME NEW h \in SUBSET Layer, Elements(arch.parent[l]) \subseteq h, ViewsBacked(h),
               NEW k, k \notin h
        PROVE  Times(l, k) = 0
    <2>1. ASSUME NEW i \in DOMAIN arch.parent[l] PROVE Buffer(arch.parent[l][i]) \in h
      <3>1. PICK p \in Layer : p = arch.parent[l][i] /\ p \in h
        BY <1>2, <1>5
      <3>2. Buffer(p) = p \/ IsView(p)
        BY BufferFacts DEF NetsThere
      <3> QED
        BY <1>5, <3>1, <3>2 DEF ViewsBacked, IsView
    <2> QED
      BY <1>3, <1>5, <2>1
  <1> QED
    BY <1>3, <1>4, <1>5

\* What a layer that was visited has added.
Added(v, s, l, n) ==
    /\ ~ HasWeights(l) => /\ v.gradient = s.gradient
                          /\ \A o \in LayersOf(n) :
                                 ~ IsView(o) /\ (o # l \/ ~ (Model(n).mem > 0)) =>
                                     v.content[o] = s.content[o]
    /\ HasWeights(l) => /\ v.gradient[l] = s.gradient[l] + s.content[l]
                        /\ \A k \in Layer : k # l => v.gradient[k] = s.gradient[k]
                        /\ \A o \in LayersOf(n) :
                               ~ IsView(o) /\ (o # l \/ ~ (Model(n).mem > 0)) =>
                                   v.content[o] = s.content[o] + s.content[l] * Times(l, o)

LEMMA BackLayerCalm ==
    ASSUME NetsThere, NetsApart, NEW n \in Net, NEW u \in States, NEW l \in LayersOf(n),
           Elements(arch.parent[l]) \subseteq u.has, Backed(u)
    PROVE  /\ Beyond(BackLayer(u, l), u, n)
           /\ Calm(u, n) => Calm(BackLayer(u, l), n)
           /\ ~ BackLayer(u, l).broken => Added(BackLayer(u, l), u, l, n)
  <1> DEFINE t == BackLayer(u, l)
  <1>1. l \in Layer /\ arch \in Architectures /\ LayersOf(n) \in SUBSET Layer
    BY BufferThere, NetThere DEF NetsThere
  <1>2. t \in States /\ t.has = u.has
    BY <1>1, BackLayerFacts
  <1>3. /\ t.batch = u.batch /\ t.size = u.size
        /\ ~ HasWeights(l) => t.content = u.content /\ t.gradient = u.gradient
        /\ ~ t.broken /\ HasWeights(l) =>
               /\ \A k \in Layer : t.content[k] = u.content[k] + u.content[l] * Times(l, k)
               /\ \A k \in Layer : t.gradient[k]
                                       = u.gradient[k] + IF k = l THEN u.content[l] ELSE 0
        /\ \A k \in Layer : (k # l => t.gradient[k] = u.gradient[k])
        /\ \A k \in Layer : Times(l, k) = 0 => t.content[k] = u.content[k]
    BY <1>1, BackLayerData
  <1>4. /\ \A k : k \notin LayersOf(n) => Times(l, k) = 0
        /\ \A k : k \notin u.has => Times(l, k) = 0
    <2>1. u.has \in SUBSET Layer
      BY StateFields
    <2> QED
      BY <2>1, TimesThere DEF Backed
  <1> HIDE DEF t
  <1>5. Beyond(t, u, n)
    BY <1>2, <1>3, <1>4 DEF Beyond
  <1>6. Calm(u, n) => Calm(t, n)
    BY <1>1, <1>2, <1>3, <1>4 DEF Calm
  <1>7. ASSUME ~ t.broken PROVE Added(t, u, l, n)
    BY <1>1, <1>3, <1>7 DEF Added
  <1> QED
    BY <1>5, <1>6, <1>7 DEF t

LEMMA FreeDeltaCalm ==
    ASSUME NetsThere, NetsApart, NEW n \in Net, NEW t \in States, NEW l \in LayersOf(n)
    PROVE  /\ FreeDelta(t, l) \in States
           /\ Beyond(FreeDelta(t, l), t, n)
           /\ Calm(t, n) => Calm(FreeDelta(t, l), n)
           /\ \A k \in Layer : k # l => FreeDelta(t, l).content[k] = t.content[k]
           /\ FreeDelta(t, l).gradient = t.gradient
  <1> DEFINE v == FreeDelta(t, l)
  <1>1. l \in Layer /\ LayersOf(n) \in SUBSET Layer
    BY BufferThere, NetThere
  <1>2. /\ v.gradient = t.gradient /\ v.batch = t.batch /\ v.size = t.size
        /\ \A k \in Layer : v.content[k] = IF k = l THEN 0 ELSE t.content[k]
    BY <1>1, FreeDeltaData
  <1>3. v \in States /\ v.has = IF IsInput(l) THEN t.has ELSE t.has \ {l}
    BY <1>1, FreeDeltaFacts
  <1> HIDE DEF v
  <1>4. Beyond(v, t, n)
    BY <1>2, <1>3 DEF Beyond
  <1>5. Calm(t, n) => Calm(v, n)
    BY <1>1, <1>2, <1>3 DEF Calm
  <1> QED
    BY <1>1, <1>2, <1>3, <1>4, <1>5 DEF v

LEMMA VisitData ==
    ASSUME NetsThere, NetsApart, NEW n \in Net, NEW fill \in Nat, NEW s \in States, Backed(s),
           NEW l \in LayersOf(n)
    PROVE  /\ VisitedLayer(s, l, n, fill) \in States
           /\ Beyond(VisitedLayer(s, l, n, fill), s, n)
           /\ ~ VisitedLayer(s, l, n, fill).broken =>
                  /\ ~ s.broken
                  /\ Calm(s, n) => /\ Calm(VisitedLayer(s, l, n, fill), n)
                                   /\ Added(VisitedLayer(s, l, n, fill), s, l, n)
  <1> DEFINE u == ParentsMem(s, l, fill)
             t == BackLayer(u, l)
             v == VisitedLayer(s, l, n, fill)
  <1>1. l \in Layer /\ l \in InNets /\ LayersOf(n) \in SUBSET Layer
    BY BufferThere, NetThere
  <1>2. u \in States /\ Backed(u) /\ Elements(arch.parent[l]) \subseteq u.has
    BY <1>1, ParentsMemBacked, ParentsMemFacts
  <1>3. Beyond(u, s, n) /\ (Calm(s, n) => Calm(u, n) /\ Unmoved(u, s))
    BY ParentsMemCalm
  <1> HIDE DEF u
  <1>4. /\ Beyond(t, u, n) /\ (Calm(u, n) => Calm(t, n)) /\ (~ t.broken => Added(t, u, l, n))
    BY <1>2, BackLayerCalm
  <1>5. t \in States
    BY <1>1, <1>2, BackLayerFacts DEF NetsThere
  <1>6. v = IF s.broken \/ t.broken THEN [s EXCEPT !.broken = TRUE]
            ELSE IF Model(n).mem > 0 THEN FreeDelta(t, l) ELSE t
    BY DEF VisitedLayer, u, t
  <1>7. v \in States
    BY <1>1, VisitedFacts
  <1> HIDE DEF t, v
  <1>8. Beyond(t, s, n)
    BY <1>3, <1>4, BeyondFurther
  <1>9. Calm(s, n) /\ ~ t.broken => Calm(t, n) /\ Added(t, s, l, n)
    BY <1>3, <1>4 DEF Unmoved, Added
  <1> DEFINE Goal == /\ Beyond(v, s, n)
                     /\ ~ v.broken =>
                            /\ ~ s.broken
                            /\ Calm(s, n) => Calm(v, n) /\ Added(v, s, l, n)
  <1> SUFFICES Goal
    BY <1>7 DEF v
  <1>10. CASE s.broken \/ t.broken
    <2>1. /\ v.broken = TRUE /\ v.has = s.has /\ v.content = s.content
          /\ v.gradient = s.gradient /\ v.batch = s.batch
      BY <1>6, <1>10 DEF States
    <2> QED
      BY <2>1, SameFurther
  <1>11. CASE ~ (s.broken \/ t.broken) /\ ~ (Model(n).mem > 0)
    BY <1>6, <1>8, <1>9, <1>11
  <1>12. CASE ~ (s.broken \/ t.broken) /\ Model(n).mem > 0
    <2>1. /\ Beyond(v, t, n) /\ (Calm(t, n) => Calm(v, n))
          /\ \A k \in Layer : k # l => v.content[k] = t.content[k]
          /\ v.gradient = t.gradient
      BY <1>5, <1>6, <1>12, FreeDeltaCalm
    <2>2. Beyond(v, s, n)
      BY <1>8, <2>1, BeyondFurther
    <2>3. Added(t, s, l, n) => Added(v, s, l, n)
      BY <1>1, <1>12, <2>1 DEF Added
    <2> QED
      BY <1>9, <1>12, <2>1, <2>2, <2>3
  <1> QED
    BY <1>10, <1>11, <1>12

-----------------------------------------------------------------------------
(* Layers get what the layers with weights after them have.                  *)

\* The edges of net n to which a layer's delta adds that of the child.
HeirsOf(n, o) == {e \in Edge : /\ HasWeights(Child(e)) /\ Child(e) \in LayersOf(n)
                               /\ Buffer(Parent(e)) = o}
OfChild(q) == [e \in Edge |-> q[Child(e)]]
FromHeirs(q, n, o) == Total(HeirsOf(n, o), OfChild(q))

LEMMA HeirFacts ==
    ASSUME NetsThere, NetsApart, NEW n \in Net, NEW o
    PROVE  /\ IsFiniteSet(HeirsOf(n, o))
           /\ \A e \in HeirsOf(n, o) :
                  /\ e \in Edge /\ Child(e) \in Layer /\ HasWeights(Child(e))
                  /\ Child(e) \in LayersOf(n)
                  /\ o < Child(e) /\ o \in LayersOf(n)
  <1>1. IsFiniteSet(HeirsOf(n, o))
    BY EdgesAreFinite, FS_Subset DEF HeirsOf, NetsThere
  <1>2. ASSUME NEW e \in HeirsOf(n, o)
        PROVE  /\ e \in Edge /\ Child(e) \in Layer /\ HasWeights(Child(e))
               /\ Child(e) \in LayersOf(n)
               /\ o < Child(e) /\ o \in LayersOf(n)
    <2>1. e \in Edge /\ HasWeights(Child(e)) /\ Child(e) \in LayersOf(n) /\ Buffer(Parent(e)) = o
      BY DEF HeirsOf
    <2>2. /\ Parent(e) \in Layer /\ Child(e) \in Layer
          /\ Parent(e) \in Nat /\ Child(e) \in Nat /\ Parent(e) < Child(e)
      BY <2>1, EdgeFacts DEF NetsThere
    <2>3. PICK l \in Layer : e \in {l} \X DOMAIN arch.parent[l]
      BY <2>1 DEF Edge
    <2>4. Parent(e) \in Elements(arch.parent[Child(e)])
      BY <2>3 DEF Parent, Child, Elements
    <2>5. Parent(e) \in LayersOf(n)
      BY <2>1, <2>4 DEF NetsApart
    <2>6. Buffer(Parent(e)) \in LayersOf(n) /\ Buffer(Parent(e)) <= Parent(e)
          /\ Buffer(Parent(e)) \in Layer
      BY <2>5, BufferThere
    <2>7. o \in Nat
      BY <2>1, <2>6, LayerFacts DEF NetsThere
    <2> QED
      BY <2>1, <2>2, <2>6, <2>7
  <1> QED
    BY <1>1, <1>2

LEMMA FromHeirsSame ==
    ASSUME NetsThere, NetsApart, NEW n \in Net, NEW o, NEW q, NEW r,
           \A l \in LayersOf(n) : HasWeights(l) => q[l] \in Int /\ q[l] = r[l]
    PROVE  FromHeirs(q, n, o) = FromHeirs(r, n, o) /\ FromHeirs(q, n, o) \in Int
  <1> DEFINE S == HeirsOf(n, o)
             F == OfChild(q)
             G == OfChild(r)
  <1>1. IsFiniteSet(S)
    BY HeirFacts
  <1>2. \A e \in S : F[e] \in Int /\ F[e] = G[e]
    <2>1. ASSUME NEW e \in S PROVE F[e] \in Int /\ F[e] = G[e]
      <3>1. e \in Edge /\ HasWeights(Child(e)) /\ Child(e) \in LayersOf(n)
        BY HeirFacts
      <3> QED
        BY <3>1 DEF OfChild
    <2> QED
      BY <2>1
  <1> HIDE DEF S, F, G
  <1>3. Total(S, F) = Total(S, G) /\ Total(S, F) \in Int
    BY <1>1, <1>2, TotalSame
  <1> QED
    BY <1>3 DEF FromHeirs, S, F, G

LEMMA FromHeirsPlus ==
    ASSUME NetsThere, NetsApart, NEW n \in Net, NEW o, NEW p, NEW q, NEW r,
           \A l \in LayersOf(n) : HasWeights(l) =>
               q[l] \in Int /\ r[l] \in Int /\ p[l] = q[l] + r[l]
    PROVE  FromHeirs(p, n, o) = FromHeirs(q, n, o) + FromHeirs(r, n, o)
  <1> DEFINE S == HeirsOf(n, o)
             F == OfChild(q)
             G == OfChild(r)
             H == OfChild(p)
  <1>1. IsFiniteSet(S)
    BY HeirFacts
  <1>2. \A e \in S : F[e] \in Int /\ G[e] \in Int /\ H[e] = F[e] + G[e]
    <2>1. ASSUME NEW e \in S PROVE F[e] \in Int /\ G[e] \in Int /\ H[e] = F[e] + G[e]
      <3>1. e \in Edge /\ HasWeights(Child(e)) /\ Child(e) \in LayersOf(n)
        BY HeirFacts
      <3> QED
        BY <3>1 DEF OfChild
    <2> QED
      BY <2>1
  <1> HIDE DEF S, F, G, H
  <1>3. Total(S, H) = Total(S, F) + Total(S, G)
    BY <1>1, <1>2, TotalPlus
  <1> QED
    BY <1>3 DEF FromHeirs, S, F, G, H

LEMMA FromHeirsZero ==
    ASSUME NetsThere, NetsApart, NEW n \in Net, NEW o, NEW q,
           \A l \in LayersOf(n) : HasWeights(l) /\ o < l => q[l] = 0
    PROVE  FromHeirs(q, n, o) = 0
  <1> DEFINE S == HeirsOf(n, o)
             F == OfChild(q)
  <1>1. IsFiniteSet(S)
    BY HeirFacts
  <1>2. \A e \in S : F[e] = 0
    <2>1. ASSUME NEW e \in S PROVE F[e] = 0
      <3>1. e \in Edge /\ HasWeights(Child(e)) /\ Child(e) \in LayersOf(n) /\ o < Child(e)
        BY HeirFacts
      <3> QED
        BY <3>1 DEF OfChild
    <2> QED
      BY <2>1
  <1> HIDE DEF S, F
  <1>3. Total(S, F) = 0
    BY <1>1, <1>2, TotalZero
  <1> QED
    BY <1>3 DEF FromHeirs, S, F

\* A layer's own edges are as many as times it adds its delta.
LEMMA OwnHeirs ==
    ASSUME NetsThere, NEW n \in Net, NEW l \in LayersOf(n), HasWeights(l), NEW o
    PROVE  Cardinality({e \in HeirsOf(n, o) : Child(e) = l}) = Times(l, o)
  <1> DEFINE ps == arch.parent[l]
             D == {i \in DOMAIN ps : Buffer(ps[i]) = o}
             S == {e \in HeirsOf(n, o) : Child(e) = l}
             g == [i \in D |-> <<l, i>>]
  <1>1. l \in Layer
    BY NetThere
  <1>2. IsFiniteSet(D)
    <2>1. ps \in Seq(Nat)
      BY <1>1, LayerFacts DEF NetsThere
    <2>2. IsFiniteSet(DOMAIN ps)
      BY <2>1, FS_Interval
    <2> QED
      BY <2>2, FS_Subset
  <1>3. \A i \in D : g[i] \in S
    BY <1>1 DEF HeirsOf, Edge, Child, Parent
  <1>4. \A e \in S : \E i \in D : g[i] = e
    <2>1. SUFFICES ASSUME NEW e \in S PROVE \E i \in D : g[i] = e
      OBVIOUS
    <2>2. e \in Edge /\ Child(e) = l /\ Buffer(Parent(e)) = o
      BY DEF HeirsOf
    <2>3. PICK k \in Layer : e \in {k} \X DOMAIN arch.parent[k]
      BY <2>2 DEF Edge
    <2>4. k = l /\ e[2] \in DOMAIN ps /\ e = <<l, e[2]>> /\ Parent(e) = ps[e[2]]
      BY <2>2, <2>3 DEF Child, Parent
    <2>5. e[2] \in D
      BY <2>2, <2>4
    <2> QED
      BY <2>4, <2>5
  <1>5. \A i, j \in D : g[i] = g[j] => i = j
    OBVIOUS
  <1>6. DOMAIN g = D
    OBVIOUS
  <1>7. g = [i \in D |-> g[i]]
    OBVIOUS
  <1> HIDE DEF g, S, D
  <1>8. g \in Surjection(D, S) /\ g \in Injection(D, S)
    BY <1>3, <1>4, <1>5, <1>6, <1>7 DEF Surjection, Injection, IsInjective
  <1>9. Cardinality(S) = Cardinality(D)
    BY <1>2, <1>8, FS_Surjection
  <1> QED
    BY <1>9 DEF Times, S, D

\* A sum grows by what one child has more.
LEMMA FromHeirsMore ==
    ASSUME NetsThere, NetsApart, NEW n \in Net, NEW l \in LayersOf(n), HasWeights(l), NEW o,
           NEW c \in Int, NEW q, NEW r,
           \A k \in LayersOf(n) : HasWeights(k) => q[k] \in Int,
           \A k \in LayersOf(n) : HasWeights(k) /\ k # l => r[k] = q[k],
           r[l] = q[l] + c
    PROVE  FromHeirs(r, n, o) = FromHeirs(q, n, o) + c * Times(l, o)
  <1> DEFINE S == HeirsOf(n, o)
             d == [k \in LayersOf(n) |-> IF k = l THEN c ELSE 0]
             A == {e \in S : Child(e) = l}
             Z == {e \in S : Child(e) # l}
             F == OfChild(d)
  <1>1. IsFiniteSet(S) /\ \A e \in S : e \in Edge /\ Child(e) \in LayersOf(n)
    BY HeirFacts
  <1>2. FromHeirs(r, n, o) = FromHeirs(q, n, o) + FromHeirs(d, n, o)
    <2>1. \A k \in LayersOf(n) : HasWeights(k) =>
              q[k] \in Int /\ d[k] \in Int /\ r[k] = q[k] + d[k]
      OBVIOUS
    <2> HIDE DEF d
    <2> QED
      BY <2>1, FromHeirsPlus
  <1>3. /\ \A e \in A : F[e] = c
        /\ \A e \in Z : F[e] = 0
        /\ \A e \in A \cup Z : F[e] \in Int
    BY <1>1 DEF OfChild
  <1>4. S = A \cup Z /\ A \cap Z = {}
    OBVIOUS
  <1>5. IsFiniteSet(A) /\ IsFiniteSet(Z)
    BY <1>1, FS_Subset
  <1>6. Cardinality(A) = Times(l, o)
    BY OwnHeirs
  <1> HIDE DEF S, A, Z, F
  <1>7. Total(A \cup Z, F) = Total(A, F) + Total(Z, F)
    BY <1>3, <1>4, <1>5, TotalBoth
  <1>8. Total(A, F) = c * Cardinality(A)
    BY <1>3, <1>5, TotalEach
  <1>9. Total(Z, F) = 0
    BY <1>3, <1>5, TotalZero
  <1>10. Cardinality(A) \in Nat
    BY <1>5, FS_CardinalityType
  <1>11. FromHeirs(d, n, o) = Total(S, F)
    BY DEF FromHeirs, S, F
  <1> HIDE DEF d
  <1>12. c * Cardinality(A) \in Int
    BY <1>10
  <1>13. FromHeirs(d, n, o) = c * Times(l, o)
    BY <1>4, <1>6, <1>7, <1>8, <1>9, <1>11, <1>12
  <1> QED
    BY <1>2, <1>13

-----------------------------------------------------------------------------
(* What a backward sweep of one net adds.                                    *)

Growth(s, st) == [l \in Layer |-> s.gradient[l] - st.gradient[l]]

\* Whether layer o is one of the first k that a backward sweep of net n visits.
Seen(n, k, o) == \E j \in DOMAIN Host(n).backward : j <= k /\ Host(n).backward[j] = o

\* After k layers of a sweep that began in st: those seen have added what was in
\* their deltas and what came from their children.
Right(s, st, n, k) ==
    /\ \A o \in Layer : ~ (HasWeights(o) /\ Seen(n, k, o)) => s.gradient[o] = st.gradient[o]
    /\ \A o \in LayersOf(n) : ~ IsView(o) /\ (~ Seen(n, k, o) \/ ~ (Model(n).mem > 0)) =>
           s.content[o] = st.content[o] + FromHeirs(Growth(s, st), n, o)
    /\ \A o \in LayersOf(n) : HasWeights(o) /\ Seen(n, k, o) =>
           Growth(s, st)[o] = st.content[o] + FromHeirs(Growth(s, st), n, o)

LEMMA GrowthType ==
    ASSUME NEW s \in States, NEW st \in States
    PROVE  \A l \in Layer : /\ Growth(s, st)[l] \in Int
                            /\ Growth(s, st)[l] = s.gradient[l] - st.gradient[l]
                            /\ s.gradient[l] = st.gradient[l] + Growth(s, st)[l]
  BY StateFields DEF Growth

LEMMA RightGoesOn ==
    ASSUME NetsThere, NetsApart, NEW n \in Net, NEW st \in States, NEW s \in States,
           NEW v \in States, NEW k \in Nat, k + 1 \in DOMAIN Host(n).backward,
           Right(s, st, n, k), Added(v, s, Host(n).backward[k + 1], n)
    PROVE  Right(v, st, n, k + 1)
  <1> DEFINE ps == Host(n).backward
             q == Growth(s, st)
             r == Growth(v, st)
  <1>1. /\ ps \in Seq(Layer) /\ Elements(ps) = LayersOf(n)
        /\ \A i, j \in DOMAIN ps : ps[i] = ps[j] => i = j
    BY BackwardOrder
  <1>2. \A j \in DOMAIN ps : ps[j] \in LayersOf(n) /\ ps[j] \in Layer /\ j \in Nat
    BY <1>1 DEF Elements
  <1>3. PICK l \in LayersOf(n) : l = ps[k + 1] /\ l \in Layer
    BY <1>2
  <1>4. \A o : Seen(n, k + 1, o) <=> Seen(n, k, o) \/ o = l
    <2>1. \A j \in DOMAIN ps : j <= k + 1 <=> j <= k \/ j = k + 1
      BY <1>2
    <2> QED
      BY <1>3, <2>1 DEF Seen
  <1>5. ~ Seen(n, k, l)
    BY <1>1, <1>3 DEF Seen
  <1>6. \A o \in Layer : /\ q[o] \in Int /\ q[o] = s.gradient[o] - st.gradient[o]
                         /\ r[o] \in Int /\ r[o] = v.gradient[o] - st.gradient[o]
    BY GrowthType
  <1>7. \A o \in Layer : /\ s.gradient[o] \in Nat /\ v.gradient[o] \in Nat /\ st.gradient[o] \in Nat
                         /\ s.content[o] \in Nat /\ st.content[o] \in Nat
    BY StateFields
  <1>8. LayersOf(n) \in SUBSET Layer
    BY NetThere
  <1>9. \A o : Seen(n, k, o) => Times(l, o) = 0
    <2> DEFINE h == From(n, k + 2)
    <2>1. h \in SUBSET Layer /\ ClosedUp(h) /\ Elements(arch.parent[l]) \subseteq h
      <3>1. k + 1 \in Nat /\ (k + 1) + 1 = k + 2 /\ k + 2 \in Nat
        OBVIOUS
      <3> QED
        BY <1>3, <3>1, FromClosed
    <2>2. \A o \in h : ~ Seen(n, k, o)
      BY <1>1, <1>2 DEF From, Seen
    <2> HIDE DEF h
    <2>3. ViewsBacked(h)
      BY <2>1, BufferUp DEF ViewsBacked, NetsThere
    <2>4. \A o : o \notin h => Times(l, o) = 0
      BY <2>1, <2>3, TimesThere
    <2> QED
      BY <2>2, <2>4
  <1>10. \A o : Times(l, o) \in Nat /\ Times(l, l) = 0
    BY TimesThere
  <1> HIDE DEF ps, q, r
  <1>11. /\ \A o \in Layer : ~ (HasWeights(o) /\ Seen(n, k, o)) => s.gradient[o] = st.gradient[o]
         /\ \A o \in LayersOf(n) : ~ IsView(o) /\ (~ Seen(n, k, o) \/ ~ (Model(n).mem > 0)) =>
                s.content[o] = st.content[o] + FromHeirs(q, n, o)
         /\ \A o \in LayersOf(n) : HasWeights(o) /\ Seen(n, k, o) =>
                q[o] = st.content[o] + FromHeirs(q, n, o)
    BY DEF Right, q
  <1> DEFINE Goal == /\ \A o \in Layer : ~ (HasWeights(o) /\ Seen(n, k + 1, o)) =>
                            v.gradient[o] = st.gradient[o]
                     /\ \A o \in LayersOf(n) :
                            ~ IsView(o) /\ (~ Seen(n, k + 1, o) \/ ~ (Model(n).mem > 0)) =>
                                v.content[o] = st.content[o] + FromHeirs(r, n, o)
                     /\ \A o \in LayersOf(n) : HasWeights(o) /\ Seen(n, k + 1, o) =>
                            r[o] = st.content[o] + FromHeirs(r, n, o)
  <1> SUFFICES Goal
    BY DEF Right, r
  <1>12. Added(v, s, l, n)
    BY <1>3 DEF ps
  <1>13. CASE ~ HasWeights(l)
    <2>1. /\ v.gradient = s.gradient
          /\ \A o \in LayersOf(n) : ~ IsView(o) /\ (o # l \/ ~ (Model(n).mem > 0)) =>
                 v.content[o] = s.content[o]
      BY <1>12, <1>13 DEF Added
    <2>2. r = q
      BY <2>1 DEF q, r, Growth
    <2> QED
      BY <1>4, <1>11, <1>13, <2>1, <2>2
  <1>14. CASE HasWeights(l)
    <2>0. PICK c \in Nat : c = s.content[l]
      BY <1>3, <1>7
    <2>1. /\ v.gradient[l] = s.gradient[l] + c
          /\ \A j \in Layer : j # l => v.gradient[j] = s.gradient[j]
          /\ \A o \in LayersOf(n) : ~ IsView(o) /\ (o # l \/ ~ (Model(n).mem > 0)) =>
                 v.content[o] = s.content[o] + c * Times(l, o)
      BY <1>12, <1>14, <2>0 DEF Added
    <2>2. /\ \A j \in Layer : j # l => r[j] = q[j]
          /\ r[l] = q[l] + c
      BY <1>3, <1>6, <1>7, <2>1
    <2>3. q[l] = 0
      BY <1>3, <1>5, <1>6, <1>7, <1>11
    <2>4. \A o : FromHeirs(r, n, o) = FromHeirs(q, n, o) + c * Times(l, o)
      <3>1. /\ \A j \in LayersOf(n) : HasWeights(j) => q[j] \in Int
            /\ \A j \in LayersOf(n) : HasWeights(j) /\ j # l => r[j] = q[j]
        BY <1>6, <1>8, <2>2
      <3>2. c \in Int
        OBVIOUS
      <3> QED
        BY <1>14, <2>2, <3>1, <3>2, FromHeirsMore
    <2>5. \A o : FromHeirs(q, n, o) \in Int
      BY <1>6, <1>8, FromHeirsSame
    <2>6. c = st.content[l] + FromHeirs(q, n, l)
      BY <1>5, <1>11, <1>14, <2>0 DEF HasWeights
    <2>7. \A o \in Layer : ~ (HasWeights(o) /\ Seen(n, k + 1, o)) =>
              v.gradient[o] = st.gradient[o]
      BY <1>4, <1>11, <1>14, <2>1
    <2>8. ASSUME NEW o \in LayersOf(n), ~ IsView(o),
                 ~ Seen(n, k + 1, o) \/ ~ (Model(n).mem > 0)
          PROVE  v.content[o] = st.content[o] + FromHeirs(r, n, o)
      <3>1. o # l \/ ~ (Model(n).mem > 0)
        BY <1>4, <2>8
      <3>2. s.content[o] = st.content[o] + FromHeirs(q, n, o)
        BY <1>4, <1>11, <2>8
      <3>3. v.content[o] = s.content[o] + c * Times(l, o)
        BY <2>1, <2>8, <3>1
      <3>4. c * Times(l, o) \in Int
        BY <1>10
      <3> QED
        BY <1>7, <1>8, <2>4, <2>5, <3>2, <3>3, <3>4
    <2>9. ASSUME NEW o \in LayersOf(n), HasWeights(o), Seen(n, k + 1, o)
          PROVE  r[o] = st.content[o] + FromHeirs(r, n, o)
      <3>1. Times(l, o) = 0 /\ c * Times(l, o) = 0
        BY <1>4, <1>9, <1>10, <2>9
      <3>2. FromHeirs(r, n, o) = FromHeirs(q, n, o)
        BY <2>4, <2>5, <3>1
      <3>3. CASE o = l
        BY <1>7, <2>2, <2>3, <2>6, <3>2, <3>3
      <3>4. CASE o # l
        BY <1>4, <1>8, <1>11, <2>2, <2>9, <3>2, <3>4
      <3> QED
        BY <3>3, <3>4
    <2> QED
      BY <2>7, <2>8, <2>9
  <1> QED
    BY <1>13, <1>14

LEMMA DoBackwardData ==
    ASSUME NetsThere, NetsApart, NEW n \in Net, NEW fill \in Nat, NEW st \in States, Backed(st)
    PROVE  /\ DoBackward(st, n, fill) \in States /\ Backed(DoBackward(st, n, fill))
           /\ Beyond(DoBackward(st, n, fill), st, n)
           /\ ~ DoBackward(st, n, fill).broken =>
                  /\ ~ st.broken
                  /\ Freed(DoBackward(st, n, fill), n, Len(Host(n).backward))
                  /\ Calm(st, n) => /\ Calm(DoBackward(st, n, fill), n)
                                    /\ Right(DoBackward(st, n, fill), st, n,
                                             Len(Host(n).backward))
  <1> DEFINE m == Len(Host(n).backward)
  <1>1. /\ m \in Nat /\ DOMAIN Host(n).backward = 1 .. m
        /\ \A k \in 1 .. m : Host(n).backward[k] \in LayersOf(n)
    <2>1. Host(n).backward \in Seq(Layer) /\ Elements(Host(n).backward) = LayersOf(n)
      BY BackwardOrder
    <2> QED
      BY <2>1 DEF Elements
  <1>2. PICK f : /\ DoBackward(st, n, fill) = f[1 .. m] /\ f[{}] = st
                 /\ \A k \in 1 .. m :
                        f[1 .. k] = VisitedLayer(f[1 .. k - 1], Host(n).backward[k], n, fill)
    BY DoBackwardSteps
  <1> HIDE DEF m
  <1> DEFINE Good(s, k) == /\ s \in States /\ Backed(s) /\ Beyond(s, st, n) /\ Freed(s, n, k)
                           /\ ~ s.broken =>
                                  /\ ~ st.broken
                                  /\ Calm(st, n) => Calm(s, n) /\ Right(s, st, n, k)
             Done(k) == Good(f[1 .. k], k)
             B == {k \in Nat : k <= m => Done(k)}
  <1>3. Done(0)
    <2>1. 1 .. 0 = {} /\ \A j \in 1 .. m : ~ (j <= 0)
      BY <1>1
    <2>2. Freed(st, n, 0) /\ \A o : ~ Seen(n, 0, o)
      BY <1>1, <2>1 DEF Freed, Seen
    <2>3. Beyond(st, st, n)
      BY DEF Beyond
    <2>4. LayersOf(n) \in SUBSET Layer
      BY NetThere
    <2>5. \A o \in Layer : st.content[o] \in Nat
      BY StateFields
    <2> DEFINE q == Growth(st, st)
    <2>6. \A o \in Layer : q[o] = 0
      BY StateFields DEF Growth
    <2> HIDE DEF q
    <2>7. \A o : FromHeirs(q, n, o) = 0
      BY <2>4, <2>6, FromHeirsZero
    <2>8. Right(st, st, n, 0)
      BY <2>2, <2>4, <2>5, <2>7 DEF Right, q
    <2> QED
      BY <1>2, <2>1, <2>2, <2>3, <2>8
  <1>4. ASSUME NEW k \in Nat, k + 1 <= m, Done(k) PROVE Done(k + 1)
    <2>1. k + 1 \in 1 .. m /\ (k + 1) - 1 = k
      BY <1>1, <1>4
    <2>2. f[1 .. k + 1] = VisitedLayer(f[1 .. k], Host(n).backward[k + 1], n, fill)
      BY <1>2, <2>1
    <2>3. PICK s \in States : s = f[1 .. k] /\ Good(s, k)
      BY <1>4
    <2>4. PICK l \in LayersOf(n) : l = Host(n).backward[k + 1]
      BY <1>1, <2>1
    <2> DEFINE v == VisitedLayer(s, l, n, fill)
    <2>5. Backed(s) /\ Freed(s, n, k)
      BY <2>3
    <2>6. Backed(v) /\ Freed(v, n, k + 1)
      BY <1>1, <2>1, <2>4, <2>5, VisitBacked
    <2>7. /\ v \in States /\ Beyond(v, s, n)
          /\ ~ v.broken => /\ ~ s.broken
                           /\ Calm(s, n) => Calm(v, n) /\ Added(v, s, l, n)
      BY <2>5, VisitData
    <2> HIDE DEF v
    <2>8. Beyond(v, st, n)
      BY <2>3, <2>7, BeyondFurther
    <2>9. ASSUME ~ v.broken, Calm(st, n) PROVE Calm(v, n) /\ Right(v, st, n, k + 1)
      <3>1. Calm(s, n) /\ Right(s, st, n, k) /\ Calm(v, n) /\ Added(v, s, l, n)
        BY <2>3, <2>7, <2>9
      <3>2. k + 1 \in DOMAIN Host(n).backward
        BY <1>1, <2>1
      <3>3. Added(v, s, Host(n).backward[k + 1], n)
        BY <2>4, <3>1
      <3> QED
        BY <2>7, <3>1, <3>2, <3>3, RightGoesOn
    <2>10. f[1 .. k + 1] = v
      BY <2>2, <2>3, <2>4 DEF v
    <2> QED
      BY <2>3, <2>6, <2>7, <2>8, <2>9, <2>10
  <1>5. Done(m)
    <2> HIDE DEF Done
    <2>1. 0 \in B
      BY <1>3
    <2>2. \A k \in Nat : k \in B => k + 1 \in B
      BY <1>1, <1>4
    <2> HIDE DEF B
    <2>3. m \in B
      BY <1>1, <2>1, <2>2, CountUp
    <2>4. m <= m
      BY <1>1
    <2> QED
      BY <2>3, <2>4 DEF B
  <1> QED
    BY <1>2, <1>5 DEF m

\* What a sweep of net n that goes well adds to what its deltas were.
Swept(s, st, n) ==
    /\ \A o \in Layer : ~ (HasWeights(o) /\ o \in LayersOf(n)) => Growth(s, st)[o] = 0
    /\ \A o \in LayersOf(n) : HasWeights(o) =>
           Growth(s, st)[o] = st.content[o] + FromHeirs(Growth(s, st), n, o)
    /\ \A o \in LayersOf(n) : ~ IsView(o) /\ ~ (Model(n).mem > 0) =>
           s.content[o] = st.content[o] + FromHeirs(Growth(s, st), n, o)

LEMMA SweptWell ==
    ASSUME NetsThere, NetsApart, NEW n \in Net, NEW fill \in Nat, NEW st \in States, Backed(st),
           ~ DoBackward(st, n, fill).broken
    PROVE  /\ Model(n).mem > 0 =>
                  \A o \in LayersOf(n) : IsInput(o) \/ o \notin DoBackward(st, n, fill).has
           /\ Calm(st, n) => Swept(DoBackward(st, n, fill), st, n)
  <1> DEFINE m == Len(Host(n).backward)
             s == DoBackward(st, n, fill)
  <1>1. s \in States /\ Freed(s, n, m) /\ (Calm(st, n) => Right(s, st, n, m))
    BY DoBackwardData
  <1>2. m \in Nat /\ DOMAIN Host(n).backward = 1 .. m
    <2>1. Host(n).backward \in Seq(Layer)
      BY BackwardOrder
    <2> QED
      BY <2>1
  <1>3. \A o \in LayersOf(n) : \E j \in DOMAIN Host(n).backward : Host(n).backward[j] = o
    BY BackwardOrder DEF Elements
  <1>4. \A o : Seen(n, m, o) <=> o \in LayersOf(n)
    <2>1. \A j \in DOMAIN Host(n).backward : j <= m /\ Host(n).backward[j] \in LayersOf(n)
      BY <1>2, BackwardOrder DEF Elements
    <2> QED
      BY <1>3, <2>1 DEF Seen
  <1>5. \A o \in Layer : Growth(s, st)[o] = s.gradient[o] - st.gradient[o]
        /\ s.gradient[o] \in Nat /\ st.gradient[o] \in Nat
    BY <1>1, StateFields DEF Growth
  <1>6. ~ s.broken
    OBVIOUS
  <1> HIDE DEF m, s
  <1>7. ASSUME Model(n).mem > 0, NEW o \in LayersOf(n) PROVE IsInput(o) \/ o \notin s.has
    <2>1. PICK j \in 1 .. m : Host(n).backward[j] = o
      BY <1>2, <1>3
    <2>2. j <= m /\ j \in DOMAIN Host(n).backward
      BY <1>2
    <2> QED
      BY <1>1, <1>6, <1>7, <2>1, <2>2 DEF Freed
  <1>8. ASSUME Calm(st, n) PROVE Swept(s, st, n)
    <2>1. Right(s, st, n, m)
      BY <1>1, <1>8
    <2>2. \A o \in Layer : ~ (HasWeights(o) /\ o \in LayersOf(n)) => Growth(s, st)[o] = 0
      BY <1>4, <1>5, <2>1 DEF Right
    <2> QED
      BY <1>4, <2>1, <2>2 DEF Right, Swept
  <1> QED
    BY <1>7, <1>8 DEF s

-----------------------------------------------------------------------------
(* What is copied to the layers a net went on from.                          *)

InputsFirst(n) == \A i \in DOMAIN Host(n).lin : IsInput(Host(n).lin[i])

\* The nets that net n's inputs were copied from were built before.
FromBefore(n) ==
    \A i \in DOMAIN netinput[n] : \E m \in Net : m < n /\ netinput[n][i] \in LayersOf(m)

LEMMA CopiedData ==
    ASSUME NetsThere, NetsApart, EndsInv, NEW n \in Net, Passing(n), FromBefore(n),
           InputsFirst(n), NEW fill \in Nat, NEW s \in States, Backed(s),
           NEW i \in DOMAIN netinput[n], netinput[n][i] \notin detached
    PROVE  /\ CopiedOne(s, i, n, fill) \in States /\ Backed(CopiedOne(s, i, n, fill))
           /\ CopiedOne(s, i, n, fill).gradient = s.gradient
           /\ CopiedOne(s, i, n, fill).batch = s.batch
           /\ \A o \in Layer : ~ IsView(o) /\ o # Host(n).lin[i] /\ o # Buffer(netinput[n][i]) =>
                  /\ CopiedOne(s, i, n, fill).content[o] = s.content[o]
                  /\ o \in CopiedOne(s, i, n, fill).has <=> o \in s.has
           /\ s.has \subseteq CopiedOne(s, i, n, fill).has
           /\ Buffer(netinput[n][i]) \in CopiedOne(s, i, n, fill).has
           /\ Calm(s, n) =>
                  /\ Calm(CopiedOne(s, i, n, fill), n)
                  /\ CopiedOne(s, i, n, fill).content[Host(n).lin[i]]
                         = s.content[Host(n).lin[i]]
                  /\ CopiedOne(s, i, n, fill).content[Buffer(netinput[n][i])]
                         = s.content[Host(n).lin[i]]
  <1>1. PICK in \in LayersOf(n) : in = Host(n).lin[i] /\ IsInput(in)
    <2>0. Host(n).lin \in Seq(Layer) /\ netinput[n] \in Seq(Layer) /\ netinput[n] # <<>>
      BY NetThere DEF BuiltNet, Passing
    <2>1. i \in DOMAIN Host(n).lin
      BY <2>0 DEF Passing
    <2> QED
      BY <2>1 DEF EndsInv, Elements, InputsFirst
  <1> PICK m \in Net : m < n /\ netinput[n][i] \in LayersOf(m)
    BY DEF FromBefore
  <1>2. PICK to \in LayersOf(m) : to = netinput[n][i] /\ m < n
    OBVIOUS
  <1> DEFINE o == Buffer(to)
             u == MemDelta(s, in, fill)
             t == MemDelta(u, to, fill)
             w == CopiedOne(s, i, n, fill)
  <1>3. /\ in \in Layer /\ in \in InNets /\ Buffer(in) = in /\ ~ IsView(in)
        /\ LayersOf(n) \in SUBSET Layer
    <2>1. ~ IsView(in)
      <3>1. IsView(in) => Len(arch.parent[in]) = 1
        BY BackpropAssumption DEF IsView, NetsThere
      <3> QED
        BY <1>1, <3>1 DEF IsInput
    <2> QED
      BY <2>1, BufferThere, BufferFacts, NetThere DEF NetsThere
  <1>4. /\ to \in Layer /\ to \in InNets /\ o \in LayersOf(m) /\ o \in Layer /\ ~ IsView(o)
        /\ o \notin LayersOf(n) /\ o # in
    BY <1>2, BufferThere, NetNumbers DEF NetsApart
  <1>5. /\ u \in States /\ Backed(u) /\ s.has \subseteq u.has
        /\ Calm(s, n) => Calm(u, n) /\ Unmoved(u, s)
    BY <1>3, MemDeltaBacked, MemDeltaCalm, MemDeltaThere
  <1>6. /\ u.gradient = s.gradient /\ u.batch = s.batch
        /\ \A k \in Layer : k # in => /\ u.content[k] = s.content[k]
                                      /\ ~ IsView(k) => (k \in u.has <=> k \in s.has)
    BY <1>3, MemDeltaData
  <1> HIDE DEF u
  <1>7. /\ t \in States /\ Backed(t) /\ u.has \subseteq t.has /\ to \in t.has
    BY <1>4, <1>5, MemDeltaBacked, MemDeltaThere
  <1>8. /\ t.gradient = u.gradient /\ t.batch = u.batch
        /\ \A k \in Layer : k # o => /\ t.content[k] = u.content[k] /\ t.size[k] = u.size[k]
                                     /\ ~ IsView(k) => (k \in t.has <=> k \in u.has)
    BY <1>4, <1>5, MemDeltaData
  <1>9. o \in t.has
    <2>1. o = to \/ IsView(to)
      BY <1>4, BufferFacts DEF NetsThere
    <2> HIDE DEF t, o
    <2> QED
      BY <1>4, <1>7, <2>1 DEF Backed, ViewsBacked, IsView, o
  <1>10. PICK c \in Nat : c = t.content[in]
    BY <1>3, <1>7, StateFields
  <1>11. w = WithContent(t, o, c)
    BY <1>1, <1>2, <1>3, <1>10 DEF CopiedOne, WithContent, u
  <1> HIDE DEF t, o, w
  <1>12. /\ w \in States /\ w.has = t.has /\ w.gradient = t.gradient /\ w.batch = t.batch
         /\ w.size = t.size /\ w.content[o] = c
         /\ \A k \in Layer : k # o => w.content[k] = t.content[k]
    BY <1>4, <1>7, <1>11, SetContent, WithContentData
  <1>13. Backed(w)
    BY <1>7, <1>12 DEF Backed
  <1>14. \A k \in Layer : ~ IsView(k) /\ k # in /\ k # o =>
             w.content[k] = s.content[k] /\ (k \in w.has <=> k \in s.has)
    BY <1>6, <1>8, <1>12
  <1>15. ASSUME Calm(s, n)
         PROVE  Calm(w, n) /\ w.content[in] = s.content[in] /\ w.content[o] = s.content[in]
    <2>1. Calm(u, n) /\ u.content = s.content
      BY <1>5, <1>15 DEF Unmoved
    <2>2. t.content[in] = s.content[in]
      BY <1>3, <1>4, <1>8, <2>1
    <2>3. ASSUME NEW k \in LayersOf(n), ~ IsView(k)
          PROVE  /\ k \in w.has => w.size[k] = w.batch[n]
                 /\ k \notin w.has => w.content[k] = 0
      <3>1. k \in Layer /\ k # o
        BY <1>3, <1>4
      <3>2. /\ k \in u.has => u.size[k] = u.batch[n]
            /\ k \notin u.has => u.content[k] = 0
        BY <2>1, <2>3 DEF Calm
      <3> QED
        BY <1>8, <1>12, <2>3, <3>1, <3>2
    <2> QED
      BY <1>3, <1>4, <1>10, <1>12, <2>2, <2>3 DEF Calm
  <1> QED
    BY <1>1, <1>2, <1>5, <1>6, <1>7, <1>8, <1>9, <1>12, <1>13, <1>14, <1>15 DEF w, o

\* What the copies for the first k inputs of net n have done.
CopiedTo(e, s, n, k) ==
    /\ e.gradient = s.gradient /\ e.batch = s.batch /\ s.has \subseteq e.has
    /\ \A o \in Layer : /\ ~ IsView(o)
                        /\ o \in LayersOf(n) => ~ IsInput(o)
                        /\ \A j \in 1 .. k : netinput[n][j] \notin detached =>
                               Buffer(netinput[n][j]) # o
           => e.content[o] = s.content[o] /\ (o \in e.has <=> o \in s.has)
    /\ \A j \in 1 .. k : netinput[n][j] \notin detached => Buffer(netinput[n][j]) \in e.has
    /\ Calm(s, n) => /\ Calm(e, n)
                     /\ \A o \in LayersOf(n) : ~ IsView(o) => e.content[o] = s.content[o]
    /\ Calm(s, n) /\ ~ Shared(netinput[n]) =>
           \A j \in 1 .. k : netinput[n][j] \notin detached =>
               e.content[Buffer(netinput[n][j])] = s.content[Host(n).lin[j]]

LEMMA CopiedToNext ==
    ASSUME NetsThere, NetsApart, EndsInv, NEW n \in Net, Passing(n), FromBefore(n),
           InputsFirst(n), NEW fill \in Nat, NEW s \in States, NEW e \in States, Backed(e),
           NEW k \in Nat, k + 1 \in DOMAIN netinput[n], CopiedTo(e, s, n, k)
    PROVE  /\ Backed(CopiedOne(e, k + 1, n, fill))
           /\ CopiedTo(CopiedOne(e, k + 1, n, fill), s, n, k + 1)
  <1> DEFINE ni == netinput[n]
  <1>0. ni \in Seq(Layer) /\ ni # <<>> /\ Len(ni) = Len(Host(n).lin) /\ Host(n).lin \in Seq(Layer)
    BY NetThere DEF BuiltNet, Passing
  <1>1. PICK i \in DOMAIN ni : i = k + 1
    OBVIOUS
  <1> DEFINE w == CopiedOne(e, i, n, fill)
  <1>2. 1 .. k + 1 = (1 .. k) \cup {i} /\ \A j \in 1 .. k : j \in DOMAIN ni /\ j # i
    BY <1>0, <1>1
  <1>3. ni[i] \in Layer /\ \A j \in 1 .. k : ni[j] \in Layer
    BY <1>0, <1>2
  <1> SUFFICES Backed(w) /\ CopiedTo(w, s, n, k + 1)
    BY <1>1
  <1>4. CASE ni[i] \in detached
    <2>1. w = e
      BY <1>4 DEF CopiedOne
    <2> HIDE DEF w, ni
    <2>2. CopiedTo(e, s, n, k + 1)
      BY <1>2, <1>4 DEF CopiedTo, ni
    <2> QED
      BY <2>1, <2>2
  <1>5. CASE ni[i] \notin detached
    <2>1. PICK in \in LayersOf(n) : in = Host(n).lin[i] /\ IsInput(in)
      <3>1. i \in DOMAIN Host(n).lin
        BY <1>0, <1>1
      <3> QED
        BY <3>1 DEF EndsInv, Elements, InputsFirst
    <2>2. /\ w \in States /\ Backed(w) /\ w.gradient = e.gradient /\ w.batch = e.batch
          /\ \A o \in Layer : ~ IsView(o) /\ o # in /\ o # Buffer(ni[i]) =>
                 /\ w.content[o] = e.content[o]
                 /\ o \in w.has <=> o \in e.has
          /\ e.has \subseteq w.has /\ Buffer(ni[i]) \in w.has
          /\ Calm(e, n) => /\ Calm(w, n) /\ w.content[in] = e.content[in]
                           /\ w.content[Buffer(ni[i])] = e.content[in]
      BY <1>5, <2>1, CopiedData
    <2>3. LayersOf(n) \in SUBSET Layer
      BY NetThere
    <2>4. \A j \in DOMAIN ni : /\ Buffer(ni[j]) \in Layer /\ Buffer(ni[j]) \notin LayersOf(n)
                               /\ ~ IsView(Buffer(ni[j]))
      <3>1. SUFFICES ASSUME NEW j \in DOMAIN ni
                     PROVE  /\ Buffer(ni[j]) \in Layer /\ Buffer(ni[j]) \notin LayersOf(n)
                            /\ ~ IsView(Buffer(ni[j]))
        OBVIOUS
      <3>2. PICK m \in Net : m < n /\ ni[j] \in LayersOf(m)
        BY DEF FromBefore
      <3>3. PICK to \in LayersOf(m) : to = ni[j]
        BY <3>2
      <3>4. Buffer(to) \in LayersOf(m) /\ Buffer(to) \in Layer /\ ~ IsView(Buffer(to))
        BY BufferThere
      <3> QED
        BY <3>2, <3>3, <3>4, NetNumbers DEF NetsApart
    <2> HIDE DEF w
    <2>5. /\ w.gradient = s.gradient /\ w.batch = s.batch /\ s.has \subseteq w.has
      BY <2>2 DEF CopiedTo
    <2>6. ASSUME NEW o \in Layer, ~ IsView(o), o \in LayersOf(n) => ~ IsInput(o),
                 \A j \in 1 .. k + 1 : ni[j] \notin detached => Buffer(ni[j]) # o
          PROVE  w.content[o] = s.content[o] /\ (o \in w.has <=> o \in s.has)
      <3>1. o # in /\ o # Buffer(ni[i])
        BY <1>2, <1>5, <2>1, <2>6
      <3>2. e.content[o] = s.content[o] /\ (o \in e.has <=> o \in s.has)
        BY <1>2, <2>6 DEF CopiedTo
      <3> QED
        BY <2>2, <2>6, <3>1, <3>2
    <2>7. \A j \in 1 .. k + 1 : ni[j] \notin detached => Buffer(ni[j]) \in w.has
      BY <1>2, <2>2 DEF CopiedTo
    <2>8. ASSUME Calm(s, n)
          PROVE  /\ Calm(w, n) /\ w.content[in] = s.content[in]
                 /\ w.content[Buffer(ni[i])] = s.content[in]
                 /\ \A o \in LayersOf(n) : ~ IsView(o) => w.content[o] = s.content[o]
      <3>1. Calm(e, n) /\ \A o \in LayersOf(n) : ~ IsView(o) => e.content[o] = s.content[o]
        BY <2>8 DEF CopiedTo
      <3>2. ~ IsView(in)
        <4>1. IsView(in) => Len(arch.parent[in]) = 1
          BY BackpropAssumption DEF IsView, NetsThere
        <4> QED
          BY <2>1, <4>1 DEF IsInput
      <3> QED
        BY <2>1, <2>2, <2>3, <2>4, <3>1, <3>2
    <2>9. ASSUME Calm(s, n), ~ Shared(ni), NEW j \in 1 .. k + 1, ni[j] \notin detached
          PROVE  w.content[Buffer(ni[j])] = s.content[Host(n).lin[j]]
      <3>1. CASE j = i
        BY <2>1, <2>8, <2>9, <3>1
      <3>2. CASE j # i
        <4>1. j \in 1 .. k /\ j \in DOMAIN ni
          BY <1>2, <2>9, <3>2
        <4>2. e.content[Buffer(ni[j])] = s.content[Host(n).lin[j]]
          BY <2>9, <4>1 DEF CopiedTo
        <4>3. Buffer(ni[j]) # Buffer(ni[i]) /\ Buffer(ni[j]) # in
          BY <2>4, <2>9, <3>2, <4>1 DEF Shared
        <4>4. Buffer(ni[j]) \in Layer /\ ~ IsView(Buffer(ni[j]))
          BY <2>4, <4>1
        <4> QED
          BY <2>2, <4>2, <4>3, <4>4
      <3> QED
        BY <3>1, <3>2
    <2>10. CopiedTo(w, s, n, k + 1)
      <3> HIDE DEF ni
      <3> QED
        BY <2>5, <2>6, <2>7, <2>8, <2>9 DEF CopiedTo, ni
    <2> QED
      BY <2>2, <2>10
  <1> QED
    BY <1>4, <1>5

LEMMA CopyDeltasData ==
    ASSUME NetsThere, NetsApart, EndsInv, NEW n \in Net, Passing(n), FromBefore(n),
           InputsFirst(n), NEW fill \in Nat, NEW s \in States, Backed(s)
    PROVE  /\ CopyDeltas(s, n, fill) \in States
           /\ CopiedTo(CopyDeltas(s, n, fill), s, n, Len(netinput[n]))
  <1> DEFINE m == Len(netinput[n])
  <1>1. m \in Nat /\ DOMAIN netinput[n] = 1 .. m
    BY DEF Passing
  <1>2. PICK f : /\ CopyDeltas(s, n, fill) = f[1 .. m] /\ f[{}] = s
                 /\ \A k \in 1 .. m : f[1 .. k] = CopiedOne(f[1 .. k - 1], k, n, fill)
    BY CopyDeltasSteps
  <1> HIDE DEF m
  <1> DEFINE Good(e, k) == e \in States /\ Backed(e) /\ CopiedTo(e, s, n, k)
             Done(k) == Good(f[1 .. k], k)
             B == {k \in Nat : k <= m => Done(k)}
  <1>3. Done(0)
    <2>1. 1 .. 0 = {}
      OBVIOUS
    <2>2. CopiedTo(s, s, n, 0)
      BY <2>1 DEF CopiedTo
    <2> QED
      BY <1>2, <2>1, <2>2
  <1>4. ASSUME NEW k \in Nat, k + 1 <= m, Done(k) PROVE Done(k + 1)
    <2>1. k + 1 \in 1 .. m /\ (k + 1) - 1 = k /\ k + 1 \in DOMAIN netinput[n]
      BY <1>1, <1>4
    <2>2. f[1 .. k + 1] = CopiedOne(f[1 .. k], k + 1, n, fill)
      BY <1>2, <2>1
    <2>3. PICK e \in States : e = f[1 .. k] /\ Backed(e) /\ CopiedTo(e, s, n, k)
      BY <1>4
    <2>4. /\ Backed(CopiedOne(e, k + 1, n, fill))
          /\ CopiedTo(CopiedOne(e, k + 1, n, fill), s, n, k + 1)
      BY <2>1, <2>3, CopiedToNext
    <2>5. CopiedOne(e, k + 1, n, fill) \in States
      <3>1. PICK i \in DOMAIN netinput[n] : i = k + 1
        BY <2>1
      <3>2. CopiedOne(e, i, n, fill) \in States
        BY CopiedFacts
      <3> QED
        BY <3>1, <3>2
    <2> QED
      BY <2>2, <2>3, <2>4, <2>5
  <1>5. Done(m)
    <2> HIDE DEF Done
    <2>1. 0 \in B
      BY <1>3
    <2>2. \A k \in Nat : k \in B => k + 1 \in B
      BY <1>1, <1>4
    <2> HIDE DEF B
    <2>3. m \in B
      BY <1>1, <2>1, <2>2, CountUp
    <2>4. m <= m
      BY <1>1
    <2> QED
      BY <2>3, <2>4 DEF B
  <1> QED
    BY <1>2, <1>5 DEF m

\* Where nothing is pending a sweep adds nothing.
LEMMA ZeroFlow ==
    ASSUME NetsThere, NetsApart, NEW n \in Net, NEW q,
           \A o \in LayersOf(n) : HasWeights(o) => q[o] = FromHeirs(q, n, o)
    PROVE  /\ \A o \in LayersOf(n) : HasWeights(o) => q[o] = 0
           /\ \A o \in LayersOf(n) : FromHeirs(q, n, o) = 0
  <1> DEFINE N == Len(arch.parent)
             B == {k \in Nat : \A o \in LayersOf(n) : HasWeights(o) /\ N < o + k => q[o] = 0}
  <1>1. N \in Nat /\ LayersOf(n) \subseteq 1 .. N
    BY LayerFacts, NetThere DEF NetsThere
  <1> HIDE DEF N
  <1>2. 0 \in B
    BY <1>1
  <1>3. ASSUME NEW k \in Nat, k \in B PROVE k + 1 \in B
    <2>1. ASSUME NEW o \in LayersOf(n), HasWeights(o), N < o + (k + 1) PROVE q[o] = 0
      <3>1. o \in Nat /\ \A l \in LayersOf(n) : l \in Nat
        BY <1>1
      <3>2. \A l \in LayersOf(n) : HasWeights(l) /\ o < l => q[l] = 0
        <4>1. \A l \in LayersOf(n) : o < l => N < l + k
          BY <1>1, <2>1, <3>1
        <4> QED
          BY <1>3, <4>1
      <3>3. FromHeirs(q, n, o) = 0
        BY <3>2, FromHeirsZero
      <3> QED
        BY <2>1, <3>3
    <2> QED
      BY <2>1
  <1>4. \A k \in Nat : k \in B => k + 1 \in B
    BY <1>3
  <1> HIDE DEF B
  <1>5. \A k \in Nat : k \in B
    BY <1>2, <1>4, CountUp
  <1>6. N + 1 \in B
    BY <1>1, <1>5
  <1>7. \A o \in LayersOf(n) : HasWeights(o) => q[o] = 0
    BY <1>1, <1>6 DEF B
  <1> QED
    BY <1>7, FromHeirsZero

-----------------------------------------------------------------------------
(* Layers get what inputs have that were copied from them.                   *)

\* The inputs of the nets that L links and that pass something on.
Linking(L, d) == UNION {{k} \X {i \in DOMAIN L[k] : L[k][i] \notin d} : k \in Net}
Target(L, c) == Buffer(L[c[1]][c[2]])
CopiesTo(L, d, o) == {c \in Linking(L, d) : Target(L, c) = o}
OfInput(q) == [c \in Net \X Nat |-> q[CopyTo(c)]]
FromCopies(q, L, d, o) == Total(CopiesTo(L, d, o), OfInput(q))

\* Nets go on from layers of those built before, one for each input.
Linked(L) ==
    /\ L \in [DOMAIN arch.models -> Seq(InNets)]
    /\ \A n \in DOMAIN arch.models :
           L[n] # <<>> => /\ n \in Net /\ Len(L[n]) = Len(Host(n).lin)
                          /\ Elements(L[n]) \subseteq Elements(Model(n).feeds)

LEMMA LinkingIsFinite ==
    ASSUME NetsThere, NEW L, Linked(L), NEW d
    PROVE  IsFiniteSet(Linking(L, d))
  <1> DEFINE src(k) == {i \in DOMAIN L[k] : L[k][i] \notin d}
  <1>1. ASSUME NEW k \in Net PROVE IsFiniteSet({k} \X src(k))
    <2>1. L[k] \in Seq(InNets)
      BY NetThere DEF Linked
    <2>2. IsFiniteSet(1 .. Len(L[k])) /\ src(k) \subseteq 1 .. Len(L[k])
      BY <2>1, FS_Interval
    <2> QED
      BY <2>2, FS_Subset, FS_Singleton, FS_Product
  <1> HIDE DEF src
  <1> DEFINE T == {{k} \X src(k) : k \in Net}
             f == [k \in Net |-> {k} \X src(k)]
  <1>2. f \in Surjection(Net, T)
    BY DEF Surjection
  <1>3. IsFiniteSet(T)
    BY <1>2, NetNumbers, FS_Surjection
  <1>4. \A x \in T : IsFiniteSet(x)
    BY <1>1
  <1> HIDE DEF T
  <1>5. IsFiniteSet(UNION T)
    BY <1>3, <1>4, FS_UNION
  <1> QED
    BY <1>5 DEF T, src, Linking

LEMMA LinkingFacts ==
    ASSUME NetsThere, NetsApart, EndsInv, NEW L, Linked(L), NEW d, NEW c \in Linking(L, d)
    PROVE  /\ c \in Net \X Nat /\ c[1] \in Net /\ c[2] \in DOMAIN L[c[1]] /\ c = <<c[1], c[2]>>
           /\ L[c[1]][c[2]] \notin d /\ L[c[1]][c[2]] \in InNets
           /\ CopyTo(c) \in LayersOf(c[1]) /\ c[2] \in DOMAIN Host(c[1]).lin
           /\ CopyTo(c) \in Elements(Host(c[1]).lin)
           /\ \A m \in Net : L[c[1]][c[2]] \in LayersOf(m) => m < c[1]
           /\ \A m \in Net : L[c[1]][c[2]] \in LayersOf(m) <=> Target(L, c) \in LayersOf(m)
  <1>1. PICK k \in Net : c \in {k} \X {i \in DOMAIN L[k] : L[k][i] \notin d}
    BY DEF Linking
  <1>2. c[1] = k /\ c[2] \in DOMAIN L[k] /\ L[k][c[2]] \notin d /\ c = <<c[1], c[2]>>
    BY <1>1
  <1>3. L[k] \in Seq(InNets) /\ k \in DOMAIN arch.models
    BY NetThere DEF Linked
  <1>4. L[k] # <<>> /\ c[2] \in Nat /\ L[k][c[2]] \in InNets
    BY <1>2, <1>3
  <1>5. Len(L[k]) = Len(Host(k).lin) /\ Elements(L[k]) \subseteq Elements(Model(k).feeds)
    BY <1>3, <1>4 DEF Linked
  <1>6. Host(k).lin \in Seq(Layer)
    BY NetThere DEF BuiltNet
  <1>7. c[2] \in DOMAIN Host(k).lin
    BY <1>2, <1>3, <1>5, <1>6
  <1>8. CopyTo(c) \in Elements(Host(k).lin) /\ CopyTo(c) \in LayersOf(k)
    BY <1>2, <1>7 DEF CopyTo, Elements, EndsInv
  <1>9. \A m \in Net : L[k][c[2]] \in LayersOf(m) => m < k
    <2>1. L[k][c[2]] \in Elements(Model(k).feeds)
      BY <1>2, <1>5 DEF Elements
    <2> QED
      BY <2>1 DEF NetsApart
  <1>10. \A m \in Net : L[k][c[2]] \in LayersOf(m) <=> Target(L, c) \in LayersOf(m)
    <2>1. PICK j \in Net : L[k][c[2]] \in LayersOf(j)
      BY <1>4 DEF InNets
    <2>2. PICK l \in LayersOf(j) : l = L[k][c[2]]
      BY <2>1
    <2>3. Buffer(l) \in LayersOf(j)
      BY BufferThere
    <2> QED
      BY <1>2, <2>2, <2>3 DEF NetsApart, Target
  <1> QED
    BY <1>2, <1>4, <1>7, <1>8, <1>9, <1>10

LEMMA FromCopiesSame ==
    ASSUME NetsThere, NetsApart, EndsInv, NEW L, Linked(L), NEW K, Linked(K), NEW d, NEW o,
           NEW q, NEW r, CopiesTo(L, d, o) = CopiesTo(K, d, o),
           \A c \in CopiesTo(L, d, o) : q[CopyTo(c)] \in Int /\ q[CopyTo(c)] = r[CopyTo(c)]
    PROVE  FromCopies(q, L, d, o) = FromCopies(r, K, d, o) /\ FromCopies(q, L, d, o) \in Int
  <1> DEFINE S == CopiesTo(L, d, o)
             F == OfInput(q)
             G == OfInput(r)
  <1>1. IsFiniteSet(S)
    BY LinkingIsFinite, FS_Subset DEF CopiesTo
  <1>2. ASSUME NEW c \in S PROVE F[c] \in Int /\ F[c] = G[c]
    <2>1. c \in Net \X Nat
      BY LinkingFacts DEF CopiesTo
    <2> QED
      BY <2>1 DEF OfInput
  <1> HIDE DEF S, F, G
  <1>3. Total(S, F) = Total(S, G) /\ Total(S, F) \in Int
    BY <1>1, <1>2, TotalSame
  <1> QED
    BY <1>3 DEF FromCopies, S, F, G

LEMMA FromCopiesZero ==
    ASSUME NetsThere, NetsApart, EndsInv, NEW L, Linked(L), NEW d, NEW o, NEW q,
           \A c \in CopiesTo(L, d, o) : q[CopyTo(c)] = 0
    PROVE  FromCopies(q, L, d, o) = 0
  <1> DEFINE S == CopiesTo(L, d, o)
             F == OfInput(q)
  <1>1. IsFiniteSet(S)
    BY LinkingIsFinite, FS_Subset DEF CopiesTo
  <1>2. ASSUME NEW c \in S PROVE F[c] = 0
    <2>1. c \in Net \X Nat
      BY LinkingFacts DEF CopiesTo
    <2> QED
      BY <2>1 DEF OfInput
  <1> HIDE DEF S, F
  <1>3. Total(S, F) = 0
    BY <1>1, <1>2, TotalZero
  <1> QED
    BY <1>3 DEF FromCopies, S, F

\* One copy less.
LEMMA FromCopiesLess ==
    ASSUME NetsThere, NetsApart, EndsInv, NEW L, Linked(L), NEW K, Linked(K), NEW d, NEW o,
           NEW q, NEW r, NEW c \in CopiesTo(L, d, o),
           CopiesTo(K, d, o) = CopiesTo(L, d, o) \ {c},
           \A b \in CopiesTo(L, d, o) : q[CopyTo(b)] \in Int,
           \A b \in CopiesTo(K, d, o) : q[CopyTo(b)] = r[CopyTo(b)]
    PROVE  /\ FromCopies(q, L, d, o) = q[CopyTo(c)] + FromCopies(r, K, d, o)
           /\ FromCopies(r, K, d, o) \in Int
  <1> DEFINE S == CopiesTo(L, d, o)
             Z == CopiesTo(K, d, o)
             F == OfInput(q)
             G == OfInput(r)
  <1>1. IsFiniteSet(S) /\ IsFiniteSet(Z) /\ Z = S \ {c} /\ c \in S
    BY LinkingIsFinite, FS_Subset DEF CopiesTo
  <1>2. ASSUME NEW b \in S PROVE F[b] \in Int /\ F[b] = q[CopyTo(b)] /\ G[b] = r[CopyTo(b)]
    <2>1. b \in Net \X Nat
      BY LinkingFacts DEF CopiesTo
    <2> QED
      BY <2>1 DEF OfInput
  <1>3. \A b \in Z : F[b] \in Int /\ F[b] = G[b]
    BY <1>1, <1>2
  <1> HIDE DEF S, Z, F, G
  <1>4. Total(S, F) = F[c] + Total(S \ {c}, F)
    BY <1>1, <1>2, TotalLess
  <1>5. Total(Z, F) = Total(Z, G) /\ Total(Z, F) \in Int
    BY <1>1, <1>3, TotalSame
  <1>6. F[c] = q[CopyTo(c)]
    BY <1>1, <1>2
  <1>7. Total(S, F) = q[CopyTo(c)] + Total(Z, G)
    BY <1>1, <1>4, <1>5, <1>6
  <1> QED
    BY <1>5, <1>7 DEF FromCopies, S, Z, F, G

\* Layers of net n whose delta a sweep works with: with low memory, those of
\* inputs are zeroed.
Flowing(n, o) == ~ IsView(o) /\ (IsInput(o) => ~ (Model(n).mem > 0))

\* Of the nets from m on: each layer has what is pending, what comes from its
\* children, and what comes from the inputs that were copied from it.
Balanced(q, m, x, L, d) ==
    \A k \in Net : m <= k =>
        \A o \in LayersOf(k) : Flowing(k, o) =>
            q[o] = x[o] + FromHeirs(q, k, o) + FromCopies(q, L, d, o)

\* Only layers of the nets in R have something.
Within(q, R) ==
    \A k \in Net : \A o \in LayersOf(k) : k \notin R \/ ~ Flowing(k, o) => q[o] = 0

LEMMA WeightsFlow == ASSUME NEW n, NEW o, HasWeights(o) PROVE Flowing(n, o)
  BY DEF HasWeights, Flowing

\* A copy goes to a net that was built before.
LEMMA CopiesThere ==
    ASSUME NetsThere, NetsApart, EndsInv, NEW L, Linked(L), NEW d, NEW o, NEW c \in CopiesTo(L, d, o)
    PROVE  /\ c[1] \in Net /\ CopyTo(c) \in LayersOf(c[1]) /\ CopyTo(c) \in Layer
           /\ c \in Linking(L, d) /\ Target(L, c) = o
           /\ \A n \in Net : o \in LayersOf(n) => n < c[1] /\ c[1] # n
  <1>1. c \in Linking(L, d) /\ Target(L, c) = o
    BY DEF CopiesTo
  <1>2. /\ c[1] \in Net /\ CopyTo(c) \in LayersOf(c[1])
        /\ \A m \in Net : L[c[1]][c[2]] \in LayersOf(m) => m < c[1]
        /\ \A m \in Net : L[c[1]][c[2]] \in LayersOf(m) <=> Target(L, c) \in LayersOf(m)
    BY <1>1, LinkingFacts
  <1>3. ASSUME NEW n \in Net, o \in LayersOf(n) PROVE n < c[1] /\ c[1] # n
    <2>1. n < c[1] /\ n \in Nat /\ c[1] \in Nat
      BY <1>1, <1>2, <1>3, NetNumbers
    <2> QED
      BY <2>1
  <1> QED
    BY <1>1, <1>2, <1>3, NetThere

Without(L, n) == [L EXCEPT ![n] = <<>>]

\* The copies that are left when net n's link is gone.
LEMMA Unlinked ==
    ASSUME NetsThere, NetsApart, EndsInv, NEW L, Linked(L), NEW n \in Net, NEW d
    PROVE  /\ Linked(Without(L, n))
           /\ \A o : CopiesTo(Without(L, n), d, o) = {c \in CopiesTo(L, d, o) : c[1] # n}
  <1> DEFINE K == Without(L, n)
  <1>1. L \in [DOMAIN arch.models -> Seq(InNets)] /\ n \in DOMAIN arch.models
    BY DEF Linked, NetsThere
  <1>2. /\ K \in [DOMAIN arch.models -> Seq(InNets)]
        /\ K[n] = <<>> /\ \A k \in DOMAIN arch.models : k # n => K[k] = L[k]
    BY <1>1 DEF Without
  <1> HIDE DEF K
  <1>3. Linked(K)
    BY <1>1, <1>2 DEF Linked
  <1>4. ASSUME NEW o, NEW c \in CopiesTo(K, d, o) PROVE c \in CopiesTo(L, d, o) /\ c[1] # n
    <2>1. c \in Linking(K, d) /\ Target(K, c) = o
      BY DEF CopiesTo
    <2>2. PICK k \in Net : c \in {k} \X {i \in DOMAIN K[k] : K[k][i] \notin d}
      BY <2>1 DEF Linking
    <2>3. c[1] = k /\ c[2] \in DOMAIN K[k]
      BY <2>2
    <2>4. k # n
      BY <1>2, <2>3
    <2>5. K[k] = L[k]
      BY <1>2, <2>4, NetThere
    <2>6. c \in Linking(L, d) /\ Target(L, c) = o
      BY <2>1, <2>2, <2>3, <2>5 DEF Linking, Target
    <2> QED
      BY <2>3, <2>4, <2>6 DEF CopiesTo
  <1>5. ASSUME NEW o, NEW c \in CopiesTo(L, d, o), c[1] # n PROVE c \in CopiesTo(K, d, o)
    <2>1. c \in Linking(L, d) /\ Target(L, c) = o
      BY DEF CopiesTo
    <2>2. PICK k \in Net : c \in {k} \X {i \in DOMAIN L[k] : L[k][i] \notin d}
      BY <2>1 DEF Linking
    <2>3. c[1] = k
      BY <2>2
    <2>4. K[k] = L[k]
      BY <1>2, <1>5, <2>3, NetThere
    <2>5. c \in Linking(K, d) /\ Target(K, c) = o
      BY <2>1, <2>2, <2>3, <2>4 DEF Linking, Target
    <2> QED
      BY <2>5 DEF CopiesTo
  <1> QED
    BY <1>3, <1>4, <1>5 DEF K

\* After the sweep of net n nothing has changed for the nets after it.
LEMMA FlowStays ==
    ASSUME NetsThere, NetsApart, EndsInv, NEW L, Linked(L), NEW n \in Net, NEW m \in Net, n < m,
           NEW d, NEW q \in [Layer -> Int], NEW x, NEW z, Balanced(q, m, x, L, d),
           \A k \in Net : m <= k => \A o \in LayersOf(k) : Flowing(k, o) => z[o] = x[o]
    PROVE  Balanced(q, m, z, Without(L, n), d)
  <1>1. PICK K : K = Without(L, n)
    OBVIOUS
  <1>2. ASSUME NEW k \in Net, m <= k, NEW o \in LayersOf(k), Flowing(k, o)
        PROVE  q[o] = z[o] + FromHeirs(q, k, o) + FromCopies(q, K, d, o)
    <2>1. q[o] = x[o] + FromHeirs(q, k, o) + FromCopies(q, L, d, o)
      BY <1>2 DEF Balanced
    <2>2. \A c \in CopiesTo(L, d, o) : c[1] # n /\ CopyTo(c) \in Layer
      <3>1. SUFFICES ASSUME NEW c \in CopiesTo(L, d, o) PROVE c[1] # n /\ CopyTo(c) \in Layer
        OBVIOUS
      <3>2. c[1] \in Net /\ k < c[1] /\ CopyTo(c) \in Layer
        BY CopiesThere
      <3>3. k \in Nat /\ c[1] \in Nat /\ n \in Nat /\ m \in Nat
        BY <3>2, NetNumbers
      <3> QED
        BY <1>2, <3>2, <3>3
    <2>3. CopiesTo(L, d, o) = CopiesTo(K, d, o) /\ Linked(K)
      <3>1. /\ Linked(K)
            /\ \A p : CopiesTo(K, d, p) = {c \in CopiesTo(L, d, p) : c[1] # n}
        BY <1>1, Unlinked
      <3> QED
        BY <2>2, <3>1
    <2>4. \A c \in CopiesTo(L, d, o) : q[CopyTo(c)] \in Int /\ q[CopyTo(c)] = q[CopyTo(c)]
      BY <2>2
    <2>5. FromCopies(q, L, d, o) = FromCopies(q, K, d, o)
      BY <2>3, <2>4, FromCopiesSame
    <2> QED
      BY <1>2, <2>1, <2>5
  <1> QED
    BY <1>1, <1>2 DEF Balanced

\* What net n has used is no longer to come, what it copied is pending now.
Passes(o, n, L, d, a, x, z, S) ==
    \/ z[o] = x[o] /\ \A c \in CopiesTo(L, d, o) : c[1] # n
    \/ \E c \in CopiesTo(L, d, o) :
           /\ c[1] = n /\ \A b \in CopiesTo(L, d, o) : b[1] = n => b = c
           /\ x[o] = 0 /\ z[o] = a[CopyTo(c)] /\ n \notin S /\ Flowing(n, CopyTo(c))

Left(q, n, a) ==
    [o \in Layer |-> IF o \in LayersOf(n) /\ Flowing(n, o) THEN q[o] - a[o] ELSE q[o]]

LEMMA FlowPasses ==
    ASSUME NetsThere, NetsApart, EndsInv, NEW L, Linked(L), NEW n \in Net, NEW m \in Net, m <= n,
           NEW d, NEW q \in [Layer -> Int], NEW x \in [Layer -> Int], NEW z \in [Layer -> Int],
           NEW a \in [Layer -> Int], NEW S \in SUBSET Net,
           Within(q, S \cup {n}), Balanced(q, m, x, L, d),
           \A o \in LayersOf(n) : Flowing(n, o) => a[o] = x[o] + FromHeirs(a, n, o) /\ z[o] = 0,
           \A o \in LayersOf(n) : \A c \in CopiesTo(L, d, o) : c[1] \in S => n \in S,
           \A k \in Net : m <= k /\ k # n =>
               \A o \in LayersOf(k) : Flowing(k, o) => Passes(o, n, L, d, a, x, z, S)
    PROVE  /\ Left(q, n, a) \in [Layer -> Int]
           /\ Within(Left(q, n, a), S)
           /\ Balanced(Left(q, n, a), m, z, Without(L, n), d)
  <1> DEFINE r == Left(q, n, a)
  <1>1. PICK K : K = Without(L, n)
    OBVIOUS
  <1>2. /\ Linked(K)
        /\ \A o : CopiesTo(K, d, o) = {c \in CopiesTo(L, d, o) : c[1] # n}
        /\ \A o \in LayersOf(n) : \A c \in CopiesTo(L, d, o) : c[1] # n
        /\ \A o : \A c \in CopiesTo(L, d, o) :
               c[1] \in Net /\ CopyTo(c) \in LayersOf(c[1]) /\ CopyTo(c) \in Layer
    <2>1. /\ Linked(K)
          /\ \A o : CopiesTo(K, d, o) = {c \in CopiesTo(L, d, o) : c[1] # n}
      BY <1>1, Unlinked
    <2>2. /\ \A o \in LayersOf(n) : \A c \in CopiesTo(L, d, o) : c[1] # n
          /\ \A o : \A c \in CopiesTo(L, d, o) :
                 c[1] \in Net /\ CopyTo(c) \in LayersOf(c[1]) /\ CopyTo(c) \in Layer
      BY CopiesThere
    <2> QED
      BY <2>1, <2>2
  <1>3. /\ r \in [Layer -> Int]
        /\ \A o \in LayersOf(n) : Flowing(n, o) => r[o] = q[o] - a[o]
        /\ \A o \in Layer : o \notin LayersOf(n) \/ ~ Flowing(n, o) => r[o] = q[o]
        /\ LayersOf(n) \in SUBSET Layer
    BY NetThere DEF Left
  <1>4. /\ \A o \in Layer : q[o] \in Int /\ a[o] \in Int /\ x[o] \in Int /\ z[o] \in Int
        /\ \A k \in Net : LayersOf(k) \in SUBSET Layer
    BY NetThere
  <1> HIDE DEF r
  \* Net n itself.
  <1>5. \A o \in LayersOf(n) : CopiesTo(K, d, o) = CopiesTo(L, d, o)
    BY <1>2
  <1>6. ASSUME NEW o \in LayersOf(n)
        PROVE  /\ FromCopies(q, L, d, o) = FromCopies(r, K, d, o)
               /\ FromCopies(q, L, d, o) \in Int
    <2>1. ASSUME NEW c \in CopiesTo(L, d, o) PROVE q[CopyTo(c)] \in Int /\ q[CopyTo(c)] = r[CopyTo(c)]
      <3>1. c[1] \in Net /\ c[1] # n /\ CopyTo(c) \in LayersOf(c[1]) /\ CopyTo(c) \in Layer
        BY <1>2
      <3>2. CopyTo(c) \notin LayersOf(n)
        BY <3>1 DEF NetsApart
      <3> QED
        BY <1>3, <1>4, <3>1, <3>2
    <2> QED
      BY <1>2, <1>5, <2>1, FromCopiesSame
  <1>7. ASSUME NEW o
        PROVE  /\ FromHeirs(q, n, o) = FromHeirs(r, n, o) + FromHeirs(a, n, o)
               /\ FromHeirs(r, n, o) \in Int /\ FromHeirs(a, n, o) \in Int
    <2>1. \A l \in LayersOf(n) : HasWeights(l) =>
              r[l] \in Int /\ a[l] \in Int /\ q[l] = r[l] + a[l]
      BY <1>3, <1>4, WeightsFlow
    <2> QED
      BY <2>1, FromHeirsPlus, FromHeirsSame
  <1>8. \A o \in LayersOf(n) : Flowing(n, o) =>
            r[o] = FromHeirs(r, n, o) + FromCopies(r, K, d, o)
    <2>1. SUFFICES ASSUME NEW o \in LayersOf(n), Flowing(n, o)
                   PROVE  r[o] = FromHeirs(r, n, o) + FromCopies(r, K, d, o)
      OBVIOUS
    <2>2. q[o] = x[o] + FromHeirs(q, n, o) + FromCopies(q, L, d, o)
      BY <2>1 DEF Balanced
    <2>3. a[o] = x[o] + FromHeirs(a, n, o)
      BY <2>1
    <2>4. r[o] = q[o] - a[o] /\ x[o] \in Int
      BY <1>3, <1>4, <2>1
    <2> QED
      BY <1>6, <1>7, <2>2, <2>3, <2>4
  \* If n is done it has nothing left.
  <1>9. ASSUME n \notin S, NEW o \in LayersOf(n), Flowing(n, o) PROVE r[o] = 0
    <2>1. ASSUME NEW p \in LayersOf(n) PROVE FromCopies(r, K, d, p) = 0
      <3>1. ASSUME NEW c \in CopiesTo(K, d, p) PROVE r[CopyTo(c)] = 0
        <4>1. c \in CopiesTo(L, d, p) /\ c[1] \in Net /\ c[1] # n
              /\ CopyTo(c) \in LayersOf(c[1]) /\ CopyTo(c) \in Layer
          BY <1>2
        <4>2. c[1] \notin S \cup {n} /\ CopyTo(c) \notin LayersOf(n)
          BY <1>9, <4>1 DEF NetsApart
        <4>3. q[CopyTo(c)] = 0
          BY <4>1, <4>2 DEF Within
        <4> QED
          BY <1>3, <4>1, <4>2, <4>3
      <3> QED
        BY <1>2, <3>1, FromCopiesZero
    <2>2. \A p \in LayersOf(n) : HasWeights(p) => r[p] = FromHeirs(r, n, p)
      <3>1. SUFFICES ASSUME NEW p \in LayersOf(n), HasWeights(p) PROVE r[p] = FromHeirs(r, n, p)
        OBVIOUS
      <3>2. r[p] = FromHeirs(r, n, p) + FromCopies(r, K, d, p)
        BY <1>8, <3>1, WeightsFlow
      <3> QED
        BY <1>7, <2>1, <3>2
    <2>3. FromHeirs(r, n, o) = 0
      BY <2>2, ZeroFlow
    <2>4. r[o] = FromHeirs(r, n, o) + FromCopies(r, K, d, o)
      BY <1>8, <1>9
    <2> QED
      BY <2>1, <2>3, <2>4
  <1>10. Within(r, S)
    <2>1. SUFFICES ASSUME NEW k \in Net, NEW o \in LayersOf(k), k \notin S \/ ~ Flowing(k, o)
                   PROVE  r[o] = 0
      BY DEF Within
    <2>2. CASE k = n /\ Flowing(n, o)
      BY <1>9, <2>1, <2>2
    <2>3. CASE k = n /\ ~ Flowing(n, o)
      BY <1>3, <2>3 DEF Within
    <2>4. CASE k # n
      <3>1. o \in Layer /\ o \notin LayersOf(n) /\ q[o] = 0
        BY <1>4, <2>1, <2>4 DEF Within, NetsApart
      <3> QED
        BY <1>3, <3>1
    <2> QED
      BY <2>2, <2>3, <2>4
  \* The other nets.
  <1>11. ASSUME NEW k \in Net, m <= k, k # n, NEW o \in LayersOf(k), Flowing(k, o)
         PROVE  r[o] = z[o] + FromHeirs(r, k, o) + FromCopies(r, K, d, o)
    <2>1. o \in Layer /\ r[o] = q[o]
      BY <1>3, <1>4, <1>11 DEF NetsApart
    <2>2. q[o] = x[o] + FromHeirs(q, k, o) + FromCopies(q, L, d, o)
      BY <1>11 DEF Balanced
    <2>3. FromHeirs(q, k, o) = FromHeirs(r, k, o) /\ FromHeirs(q, k, o) \in Int
      <3>1. \A l \in LayersOf(k) : HasWeights(l) => q[l] \in Int /\ q[l] = r[l]
        BY <1>3, <1>4, <1>11 DEF NetsApart
      <3> QED
        BY <3>1, FromHeirsSame
    <2>4. \A c \in CopiesTo(K, d, o) : q[CopyTo(c)] = r[CopyTo(c)]
      <3>1. SUFFICES ASSUME NEW c \in CopiesTo(K, d, o) PROVE q[CopyTo(c)] = r[CopyTo(c)]
        OBVIOUS
      <3>2. c[1] \in Net /\ c[1] # n /\ CopyTo(c) \in LayersOf(c[1]) /\ CopyTo(c) \in Layer
        BY <1>2
      <3>3. CopyTo(c) \notin LayersOf(n)
        BY <3>2 DEF NetsApart
      <3> QED
        BY <1>3, <3>2, <3>3
    <2>5. \A c \in CopiesTo(L, d, o) : q[CopyTo(c)] \in Int
      BY <1>2, <1>4
    <2>6. CASE z[o] = x[o] /\ \A c \in CopiesTo(L, d, o) : c[1] # n
      <3>1. CopiesTo(L, d, o) = CopiesTo(K, d, o)
        BY <1>2, <2>6
      <3>2. FromCopies(q, L, d, o) = FromCopies(r, K, d, o)
        BY <1>2, <2>4, <2>5, <3>1, FromCopiesSame
      <3> QED
        BY <2>1, <2>2, <2>3, <2>6, <3>2
    <2>7. ASSUME NEW c \in CopiesTo(L, d, o), c[1] = n,
                 \A b \in CopiesTo(L, d, o) : b[1] = n => b = c,
                 x[o] = 0, z[o] = a[CopyTo(c)], n \notin S, Flowing(n, CopyTo(c))
          PROVE  r[o] = z[o] + FromHeirs(r, k, o) + FromCopies(r, K, d, o)
      <3>1. CopiesTo(K, d, o) = CopiesTo(L, d, o) \ {c}
        BY <1>2, <2>7
      <3>2. /\ FromCopies(q, L, d, o) = q[CopyTo(c)] + FromCopies(r, K, d, o)
            /\ FromCopies(r, K, d, o) \in Int
        BY <1>2, <2>4, <2>5, <3>1, FromCopiesLess
      <3>3. CopyTo(c) \in LayersOf(n) /\ CopyTo(c) \in Layer
        BY <1>2, <2>7
      <3>4. r[CopyTo(c)] = 0
        BY <1>9, <2>7, <3>3
      <3>5. q[CopyTo(c)] = a[CopyTo(c)]
        BY <1>3, <1>4, <2>7, <3>3, <3>4
      <3> QED
        BY <1>4, <2>1, <2>2, <2>3, <2>7, <3>2, <3>3, <3>5
    <2>8. Passes(o, n, L, d, a, x, z, S)
      BY <1>11
    <2> QED
      BY <2>6, <2>7, <2>8 DEF Passes
  <1>12. Balanced(r, m, z, K, d)
    <2>1. SUFFICES ASSUME NEW k \in Net, m <= k, NEW o \in LayersOf(k), Flowing(k, o)
                   PROVE  r[o] = z[o] + FromHeirs(r, k, o) + FromCopies(r, K, d, o)
      BY DEF Balanced
    <2>2. CASE k = n
      <3>1. z[o] = 0 /\ r[o] = FromHeirs(r, n, o) + FromCopies(r, K, d, o)
        BY <1>8, <2>1, <2>2
      <3>2. FromHeirs(r, n, o) \in Int /\ FromCopies(r, K, d, o) \in Int
        BY <1>6, <1>7, <2>1, <2>2
      <3> QED
        BY <2>2, <3>1, <3>2
    <2> QED
      BY <1>11, <2>1, <2>2
  <1> QED
    BY <1>1, <1>3, <1>10, <1>12 DEF r

-----------------------------------------------------------------------------
(* What one sweep does with the deltas and gradients there are.              *)

\* do_delta() and do_backward() of net n.
SweepOf(st, n, fill) == DoBackward(DoDelta(st, n, fill), n, fill)

\* Whether a loss writes into the delta of layer o of net n.
HasLoss(n, o) == Lost(n, Len(Host(n).lout), o)

\* A sweep of net n from st to s that goes well: it worked with a.
Works(a, s, st, n) ==
    /\ \A o \in LayersOf(n) : Flowing(n, o) /\ HasLoss(n, o) => a[o] = 1 + FromHeirs(a, n, o)
    /\ \A o \in LayersOf(n) : Flowing(n, o) /\ ~ HasLoss(n, o) =>
           a[o] = st.content[o] + FromHeirs(a, n, o)
    /\ \A o \in LayersOf(n) : HasWeights(o) => s.gradient[o] = st.gradient[o] + a[o]
    /\ \A o \in LayersOf(n) : Flowing(n, o) /\ IsInput(o) => a[o] = s.content[o]

LEMMA FlowingCases ==
    ASSUME NEW n, NEW o
    PROVE  Flowing(n, o) <=> HasWeights(o) \/ (IsInput(o) /\ ~ IsView(o) /\ ~ (Model(n).mem > 0))
  BY DEF Flowing, HasWeights

LEMMA SweepWorks ==
    ASSUME NetsThere, NetsApart, NEW n \in Net, NEW s \in States, NEW y \in States,
           NEW st \in States, Swept(s, y, n), y.gradient = st.gradient,
           \A o \in Layer : /\ HasLoss(n, o) => y.content[o] = 1
                            /\ ~ HasLoss(n, o) => y.content[o] = st.content[o]
    PROVE  \E a \in [Layer -> Int] : Works(a, s, st, n)
  <1> DEFINE G == Growth(s, y)
             a == [o \in Layer |-> IF IsInput(o) THEN s.content[o] ELSE G[o]]
  <1>1. \A o \in Layer : /\ G[o] \in Int /\ s.gradient[o] = y.gradient[o] + G[o]
                         /\ s.content[o] \in Nat /\ y.content[o] \in Nat
    BY GrowthType, StateFields
  <1>2. LayersOf(n) \in SUBSET Layer
    BY NetThere
  <1>3. a \in [Layer -> Int] /\ \A o \in Layer : /\ IsInput(o) => a[o] = s.content[o]
                                                 /\ ~ IsInput(o) => a[o] = G[o]
    BY <1>1
  <1>4. /\ \A o \in LayersOf(n) : HasWeights(o) => G[o] = y.content[o] + FromHeirs(G, n, o)
        /\ \A o \in LayersOf(n) : ~ IsView(o) /\ ~ (Model(n).mem > 0) =>
               s.content[o] = y.content[o] + FromHeirs(G, n, o)
    BY DEF Swept
  <1> HIDE DEF G, a
  <1>5. \A o : FromHeirs(a, n, o) = FromHeirs(G, n, o)
    <2>1. \A l \in LayersOf(n) : HasWeights(l) => a[l] \in Int /\ a[l] = G[l]
      BY <1>1, <1>2, <1>3 DEF HasWeights
    <2> QED
      BY <2>1, FromHeirsSame
  <1>6. ASSUME NEW o \in LayersOf(n), Flowing(n, o)
        PROVE  a[o] = y.content[o] + FromHeirs(a, n, o)
    <2>1. CASE HasWeights(o)
      BY <1>2, <1>3, <1>4, <1>5, <2>1 DEF HasWeights
    <2>2. CASE IsInput(o) /\ ~ IsView(o) /\ ~ (Model(n).mem > 0)
      BY <1>2, <1>3, <1>4, <1>5, <2>2
    <2> QED
      BY <1>6, <2>1, <2>2, FlowingCases
  <1>7. \A o \in LayersOf(n) : HasWeights(o) => s.gradient[o] = st.gradient[o] + a[o]
    BY <1>1, <1>2, <1>3 DEF HasWeights
  <1>8. Works(a, s, st, n)
    <2>1. \A o \in LayersOf(n) : Flowing(n, o) /\ HasLoss(n, o) => a[o] = 1 + FromHeirs(a, n, o)
      BY <1>2, <1>6
    <2>2. \A o \in LayersOf(n) : Flowing(n, o) /\ ~ HasLoss(n, o) =>
              a[o] = st.content[o] + FromHeirs(a, n, o)
      BY <1>2, <1>6
    <2>3. \A o \in LayersOf(n) : Flowing(n, o) /\ IsInput(o) => a[o] = s.content[o]
      BY <1>2, <1>3
    <2> QED
      BY <1>7, <2>1, <2>2, <2>3 DEF Works
  <1> QED
    BY <1>3, <1>8

LEMMA SweepOfData ==
    ASSUME NetsThere, NetsApart, EndsInv, NEW n \in Net, NEW fill \in Nat, NEW st \in States,
           Backed(st), ~ SweepOf(st, n, fill).broken
    PROVE  /\ SweepOf(st, n, fill) \in States /\ Backed(SweepOf(st, n, fill))
           /\ Beyond(SweepOf(st, n, fill), st, n)
           /\ Model(n).mem > 0 =>
                  \A o \in LayersOf(n) : IsInput(o) \/ o \notin SweepOf(st, n, fill).has
           /\ Calm(st, n) =>
                  /\ Calm(SweepOf(st, n, fill), n)
                  /\ \E a \in [Layer -> Int] : Works(a, SweepOf(st, n, fill), st, n)
  <1> DEFINE y == DoDelta(st, n, fill)
             s == DoBackward(y, n, fill)
  <1>1. /\ y \in States /\ Backed(y) /\ Beyond(y, st, n) /\ y.gradient = st.gradient
        /\ Calm(st, n) =>
               /\ Calm(y, n)
               /\ \A o \in Layer : /\ HasLoss(n, o) => y.content[o] = 1
                                   /\ ~ HasLoss(n, o) => y.content[o] = st.content[o]
    BY DoDeltaData DEF HasLoss
  <1>2. s = SweepOf(st, n, fill) /\ ~ s.broken
    BY DEF SweepOf
  <1> HIDE DEF y
  <1>3. /\ s \in States /\ Backed(s) /\ Beyond(s, y, n)
        /\ Calm(y, n) => Calm(s, n)
    BY <1>1, <1>2, DoBackwardData
  <1>4. /\ Model(n).mem > 0 => \A o \in LayersOf(n) : IsInput(o) \/ o \notin s.has
        /\ Calm(y, n) => Swept(s, y, n)
    BY <1>1, <1>2, SweptWell
  <1> HIDE DEF s
  <1>5. Beyond(s, st, n)
    BY <1>1, <1>3, BeyondFurther
  <1>6. ASSUME Calm(st, n) PROVE Calm(s, n) /\ \E a \in [Layer -> Int] : Works(a, s, st, n)
    BY <1>1, <1>3, <1>4, <1>6, SweepWorks
  <1> QED
    BY <1>2, <1>3, <1>4, <1>5, <1>6

\* Layer o gets the delta of an input of net n.
FedFrom(n, o) == \E i \in DOMAIN netinput[n] : /\ netinput[n][i] \notin detached
                                               /\ Buffer(netinput[n][i]) = o

\* What a sweep of net n that goes on, or does not, changes at most.
Moves(n, c2, g2, on) ==
    /\ \A o \in Layer \ LayersOf(n) : g2[o] = gradient[o]
    /\ \A k \in Net : k # n => \A o \in LayersOf(k) :
           ~ IsView(o) /\ ~ (on /\ FedFrom(n, o)) => c2[o] = content[o]
    /\ Model(n).mem > 0 => \A o \in LayersOf(n) : ~ IsInput(o) /\ ~ IsView(o) => c2[o] = 0

\* What it does if it goes well.
Worked(a, n, c2, g2, on) ==
    /\ \A o \in LayersOf(n) : Flowing(n, o) /\ HasLoss(n, o) => a[o] = 1 + FromHeirs(a, n, o)
    /\ \A o \in LayersOf(n) : Flowing(n, o) /\ ~ HasLoss(n, o) =>
           a[o] = content[o] + FromHeirs(a, n, o)
    /\ \A o \in LayersOf(n) : HasWeights(o) => g2[o] = gradient[o] + a[o]
    /\ on /\ ~ Shared(netinput[n]) /\ ~ (Model(n).mem > 0) =>
           \A i \in DOMAIN netinput[n] : netinput[n][i] \notin detached =>
               c2[Buffer(netinput[n][i])] = a[Host(n).lin[i]]

\* A delta that does not exist counts as zero.
Normal(h, c) == \A l \in Layer : l \notin h => c[l] = 0

\* What was fed to a net came from where it goes on.
FedInv == \A n \in DOMAIN arch.models : Elements(netinput[n]) \subseteq Elements(Model(n).feeds)

LEMMA FedBefore ==
    ASSUME NetsThere, NetsApart, ChainInv, FedInv, NEW n \in Net
    PROVE  FromBefore(n)
  <1>1. n \in DOMAIN arch.models
    BY DEF NetsThere
  <1>2. SUFFICES ASSUME NEW i \in DOMAIN netinput[n]
                 PROVE  \E m \in Net : m < n /\ netinput[n][i] \in LayersOf(m)
    BY DEF FromBefore
  <1>3. netinput[n] \in Seq(InNets)
    BY <1>1 DEF ChainInv
  <1>4. netinput[n][i] \in InNets /\ netinput[n][i] \in Elements(Model(n).feeds)
    <2>1. netinput[n][i] \in Elements(netinput[n])
      BY DEF Elements
    <2>2. Elements(netinput[n]) \subseteq Elements(Model(n).feeds)
      BY <1>1 DEF FedInv
    <2> QED
      BY <1>3, <2>1, <2>2
  <1>5. PICK m \in Net : netinput[n][i] \in LayersOf(m)
    BY <1>4 DEF InNets
  <1> QED
    BY <1>4, <1>5 DEF NetsApart

\* A target is in another net than the one it is fed from.
LEMMA FedElsewhere ==
    ASSUME NetsThere, NetsApart, ChainInv, FedInv, NEW n \in Net, NEW i \in DOMAIN netinput[n]
    PROVE  \E m \in Net : /\ m < n /\ m # n /\ netinput[n][i] \in LayersOf(m)
                          /\ NetOf(netinput[n][i]) = m
                          /\ Buffer(netinput[n][i]) \in LayersOf(m)
                          /\ Buffer(netinput[n][i]) \notin LayersOf(n)
                          /\ ~ IsView(Buffer(netinput[n][i]))
  <1>1. PICK m \in Net : m < n /\ netinput[n][i] \in LayersOf(m)
    BY FedBefore DEF FromBefore
  <1>2. PICK l \in LayersOf(m) : l = netinput[n][i]
    BY <1>1
  <1>3. Buffer(l) \in LayersOf(m) /\ ~ IsView(Buffer(l)) /\ NetOf(l) = m
    BY BufferThere
  <1>4. m # n
    BY <1>1, NetNumbers
  <1> QED
    BY <1>1, <1>2, <1>3, <1>4 DEF NetsApart

\* The sweep alone.
LEMMA OneMoves ==
    ASSUME NetsThere, NetsApart, EndsInv, SweepInv, Backed(State), Normal(has, content),
           NEW n \in Net, NEW fill \in Nat, ~ SweepOf(State, n, fill).broken,
           Becomes(SweepOf(State, n, fill))
    PROVE  /\ Moves(n, content', gradient', FALSE)
           /\ Calm(State, n) => \E a \in [Layer -> Int] : Worked(a, n, content', gradient', FALSE)
  <1> DEFINE s == SweepOf(State, n, fill)
  <1>0. /\ State \in States /\ State.has = has /\ State.content = content
        /\ State.gradient = gradient
    BY DEF SweepInv, State
  <1>1. /\ s \in States /\ Beyond(s, State, n)
        /\ Model(n).mem > 0 => \A o \in LayersOf(n) : IsInput(o) \/ o \notin s.has
        /\ Calm(State, n) => \E a \in [Layer -> Int] : Works(a, s, State, n)
    BY <1>0, SweepOfData
  <1>2. /\ gradient' = s.gradient
        /\ content' = [l \in Layer |-> IF l \in s.has THEN s.content[l] ELSE 0]
    BY DEF Becomes
  <1> HIDE DEF s
  <1>3. \A l \in Layer : content'[l] = IF l \in s.has THEN s.content[l] ELSE 0
    BY <1>2
  <1>4. \A k \in Layer \ LayersOf(n) : /\ s.content[k] = content[k] /\ s.gradient[k] = gradient[k]
                                       /\ k \in has => k \in s.has
    BY <1>0, <1>1 DEF Beyond
  <1>5. \A k \in Layer \ LayersOf(n) : content'[k] = content[k]
    BY <1>3, <1>4 DEF Normal
  <1>6. \A k \in Net : LayersOf(k) \in SUBSET Layer
    BY NetThere
  <1>7. Moves(n, content', gradient', FALSE)
    <2>1. \A k \in Net : k # n => \A o \in LayersOf(k) : o \in Layer \ LayersOf(n)
      BY <1>6 DEF NetsApart
    <2>2. Model(n).mem > 0 => \A o \in LayersOf(n) : ~ IsInput(o) => content'[o] = 0
      BY <1>1, <1>3, <1>6
    <2> QED
      BY <1>2, <1>4, <1>5, <2>1, <2>2 DEF Moves
  <1>8. ASSUME NEW a \in [Layer -> Int], Works(a, s, State, n)
        PROVE  Worked(a, n, content', gradient', FALSE)
    BY <1>0, <1>2, <1>8 DEF Works, Worked
  <1> QED
    BY <1>1, <1>7, <1>8

\* The sweep and the copies.
LEMMA GoesOnMoves ==
    ASSUME NetsThere, NetsApart, EndsInv, SweepInv, Backed(State), Normal(has, content), FedInv,
           NEW n \in Net, InputsFirst(n), NEW fill \in Nat, ~ SweepOf(State, n, fill).broken,
           Becomes(CopyDeltas(SweepOf(State, n, fill), n, fill))
    PROVE  /\ Moves(n, content', gradient', TRUE)
           /\ Calm(State, n) => \E a \in [Layer -> Int] : Worked(a, n, content', gradient', TRUE)
  <1> DEFINE s == SweepOf(State, n, fill)
             e == CopyDeltas(s, n, fill)
             ni == netinput[n]
             N == Len(ni)
  <1>0. /\ State \in States /\ State.has = has /\ State.content = content
        /\ State.gradient = gradient /\ ChainInv
    BY DEF SweepInv, State
  <1>1. /\ s \in States /\ Backed(s) /\ Beyond(s, State, n)
        /\ Model(n).mem > 0 => \A o \in LayersOf(n) : IsInput(o) \/ o \notin s.has
        /\ Calm(State, n) => Calm(s, n) /\ \E a \in [Layer -> Int] : Works(a, s, State, n)
    BY <1>0, SweepOfData
  <1>2. /\ gradient' = e.gradient
        /\ content' = [l \in Layer |-> IF l \in e.has THEN e.content[l] ELSE 0]
    BY DEF Becomes
  <1> HIDE DEF s
  <1>3. Passing(n) /\ FromBefore(n)
    BY <1>0, PassingThere, FedBefore
  <1>4. e \in States /\ CopiedTo(e, s, n, N)
    BY <1>1, <1>3, CopyDeltasData
  <1> HIDE DEF e
  <1>5. DOMAIN ni = 1 .. N /\ Host(n).lin \in Seq(Layer) /\ N = Len(ni)
        /\ (ni # <<>> => Len(ni) = Len(Host(n).lin))
    BY <1>3, NetThere DEF Passing, BuiltNet
  <1> HIDE DEF N
  <1>6. \A l \in Layer : content'[l] = IF l \in e.has THEN e.content[l] ELSE 0
    BY <1>2
  <1>7. \A k \in Layer \ LayersOf(n) : /\ s.content[k] = content[k] /\ s.gradient[k] = gradient[k]
                                       /\ k \in has => k \in s.has
    BY <1>0, <1>1 DEF Beyond
  <1>8. /\ e.gradient = s.gradient /\ s.has \subseteq e.has
        /\ \A o \in Layer : /\ ~ IsView(o)
                            /\ o \in LayersOf(n) => ~ IsInput(o)
                            /\ ~ FedFrom(n, o)
               => e.content[o] = s.content[o] /\ (o \in e.has <=> o \in s.has)
        /\ \A j \in DOMAIN ni : ni[j] \notin detached => Buffer(ni[j]) \in e.has
        /\ Calm(s, n) /\ ~ Shared(ni) =>
               \A j \in DOMAIN ni : ni[j] \notin detached =>
                   e.content[Buffer(ni[j])] = s.content[Host(n).lin[j]]
    BY <1>4, <1>5 DEF CopiedTo, FedFrom
  <1>9. \A k \in Net : LayersOf(k) \in SUBSET Layer
    BY NetThere
  <1>10. \A o : FedFrom(n, o) => o \notin LayersOf(n)
    BY <1>0, FedElsewhere DEF FedFrom
  <1>11. Moves(n, content', gradient', TRUE)
    <2>1. \A k \in Net : k # n => \A o \in LayersOf(k) : o \in Layer \ LayersOf(n)
      BY <1>9 DEF NetsApart
    <2>2. ASSUME NEW o \in Layer \ LayersOf(n), ~ IsView(o), ~ FedFrom(n, o)
          PROVE  content'[o] = content[o]
      <3>1. e.content[o] = s.content[o] /\ (o \in e.has <=> o \in s.has)
        BY <1>8, <2>2
      <3> QED
        BY <1>6, <1>7, <3>1 DEF Normal
    <2>3. ASSUME Model(n).mem > 0, NEW o \in LayersOf(n), ~ IsInput(o), ~ IsView(o)
          PROVE  content'[o] = 0
      <3>1. o \in Layer /\ o \notin s.has /\ ~ FedFrom(n, o)
        BY <1>1, <1>9, <1>10, <2>3
      <3> QED
        BY <1>6, <1>8, <2>3, <3>1
    <2>4. \A o \in Layer \ LayersOf(n) : gradient'[o] = gradient[o]
      BY <1>2, <1>7, <1>8
    <2> QED
      BY <2>1, <2>2, <2>3, <2>4 DEF Moves
  <1>12. ASSUME NEW a \in [Layer -> Int], Works(a, s, State, n), Calm(s, n)
         PROVE  Worked(a, n, content', gradient', TRUE)
    <2>1. ASSUME ~ Shared(ni), ~ (Model(n).mem > 0), NEW i \in DOMAIN ni, ni[i] \notin detached
          PROVE  content'[Buffer(ni[i])] = a[Host(n).lin[i]]
      <3>1. e.content[Buffer(ni[i])] = s.content[Host(n).lin[i]] /\ Buffer(ni[i]) \in e.has
        BY <1>8, <1>12, <2>1
      <3>2. PICK in \in LayersOf(n) : in = Host(n).lin[i] /\ IsInput(in)
        <4>1. i \in DOMAIN Host(n).lin
          <5>1. ni # <<>>
            BY <1>5, <2>1
          <5> QED
            BY <1>5, <5>1
        <4> QED
          BY <4>1 DEF EndsInv, Elements, InputsFirst
      <3>3. ~ IsView(in)
        <4>1. IsView(in) => Len(arch.parent[in]) = 1
          BY BackpropAssumption DEF IsView, NetsThere
        <4> QED
          BY <3>2, <4>1 DEF IsInput
      <3>4. a[in] = s.content[in]
        BY <1>12, <2>1, <3>2, <3>3 DEF Works, Flowing
      <3>5. Buffer(ni[i]) \in Layer
        BY <1>4, <3>1, StateFields
      <3> QED
        BY <1>6, <3>1, <3>2, <3>4, <3>5
    <2>2. /\ \A o \in LayersOf(n) : Flowing(n, o) /\ HasLoss(n, o) => a[o] = 1 + FromHeirs(a, n, o)
          /\ \A o \in LayersOf(n) : Flowing(n, o) /\ ~ HasLoss(n, o) =>
                 a[o] = content[o] + FromHeirs(a, n, o)
          /\ \A o \in LayersOf(n) : HasWeights(o) => gradient'[o] = gradient[o] + a[o]
      BY <1>0, <1>2, <1>8, <1>12 DEF Works
    <2> QED
      BY <2>1, <2>2 DEF Worked
  <1> QED
    BY <1>1, <1>11, <1>12

-----------------------------------------------------------------------------
(* The calls of backward() that are still to come.                           *)

LossOn(td, k) == td # <<>> /\ Head(td).call = "loss" /\ Head(td).net = k
Chained(td, k) == \E i \in DOMAIN td : td[i].call = "chain" /\ td[i].net = k

AllChained(td) == \A i \in DOMAIN td : td[i].call = "chain"

\* One call of the program, or some that it goes on to.
TodoShape(td) == (\E c \in Calling : td = <<c>>) \/ AllChained(td)

\* After net n's turn there are those that it goes on to, too.
Follows(td, n) ==
    /\ td \in Seq(Calling) /\ AllChained(td)
    /\ \A k : Chained(todo, k) /\ k # n => Chained(td, k)
    /\ \A k \in Net : Chained(td, k) => Chained(todo, k) \/ k < n
    /\ \A k \in Net : Chained(td, k) => Chained(todo, k) \/
           \E i \in DOMAIN netinput[n] : netinput[n][i] \notin detached /\ netinput[n][i] \in LayersOf(k)
    /\ \A i \in DOMAIN netinput[n] : netinput[n][i] \notin detached =>
           Chained(td, NetOf(netinput[n][i]))

LEMMA NextNetsFacts ==
    ASSUME NetsThere, NetsApart, ChainInv, FedInv, NEW n \in Net
    PROVE  /\ NextNets(n) \in Seq(Calling) /\ AllChained(NextNets(n))
           /\ \A k : Chained(NextNets(n), k) =>
                  \E i \in DOMAIN netinput[n] : /\ netinput[n][i] \notin detached
                                                /\ netinput[n][i] \in LayersOf(k) /\ k < n
           /\ \A i \in DOMAIN netinput[n] : netinput[n][i] \notin detached =>
                  Chained(NextNets(n), NetOf(netinput[n][i]))
  <1> DEFINE ni == netinput[n]
             from == Kept(ni, Layer \ detached)
             all == [i \in DOMAIN from |-> NetOf(from[i])]
             firsts == {i \in DOMAIN all : \A j \in 1 .. i - 1 : all[j] # all[i]}
             ids == [i \in DOMAIN all |-> i]
             new == Kept(ids, firsts)
  <1>0. ni \in Seq(InNets) /\ DOMAIN ni = 1 .. Len(ni)
    <2>1. ni \in Seq(InNets)
      BY DEF ChainInv, NetsThere
    <2> QED
      BY <2>1
  <1>1. from \in Seq(InNets) /\ Elements(from) = Elements(ni) \cap (Layer \ detached)
    BY <1>0, KeptType, KeptElements
  <1>a. \A i \in DOMAIN ni : ni[i] \in Layer /\ ni[i] \in Elements(ni)
    BY <1>0, InNetsType DEF Elements
  <1> HIDE DEF from
  <1>2. DOMAIN from = 1 .. Len(from) /\ Len(from) \in Nat
    BY <1>1
  <1>3. /\ DOMAIN all = DOMAIN from /\ ids \in Seq(DOMAIN from)
        /\ \A i \in DOMAIN from : all[i] = NetOf(from[i]) /\ all[i] \in Net
    <2>1. \A i \in DOMAIN from : NetOf(from[i]) \in Net
      BY <1>1, NetOfType
    <2>2. ids \in [1 .. Len(from) -> DOMAIN from]
      BY <1>2
    <2> QED
      BY <1>2, <2>1, <2>2
  <1>4. Elements(ids) = DOMAIN from
    BY <1>3 DEF Elements
  <1>5. firsts \subseteq DOMAIN from /\ firsts = {i \in DOMAIN from : \A j \in 1 .. i - 1 : all[j] # all[i]}
    BY <1>3
  <1> HIDE DEF all, ids
  <1>6. new \in Seq(DOMAIN from) /\ Elements(new) = firsts
    <2> HIDE DEF firsts
    <2>1. Elements(new) = Elements(ids) \cap firsts
      BY <1>3, KeptElements
    <2> QED
      BY <1>3, <1>4, <1>5, <2>1, KeptType
  <1> HIDE DEF new
  <1>7. NextNets(n) = [i \in DOMAIN new |-> [net |-> all[new[i]], call |-> "chain"]]
    BY DEF NextNets, new, ids, firsts, all, from
  <1> HIDE DEF firsts
  <1>8. /\ DOMAIN NextNets(n) = DOMAIN new
        /\ \A i \in DOMAIN new : /\ NextNets(n)[i].call = "chain"
                                 /\ NextNets(n)[i].net = all[new[i]]
                                 /\ new[i] \in DOMAIN from
    BY <1>6, <1>7
  <1>9. AllChained(NextNets(n))
    BY <1>8 DEF AllChained
  <1>10. \A k : Chained(NextNets(n), k) <=> \E i \in DOMAIN new : all[new[i]] = k
    BY <1>8 DEF Chained
  <1>11. ASSUME NEW k, Chained(NextNets(n), k)
         PROVE  \E i \in DOMAIN ni : ni[i] \notin detached /\ ni[i] \in LayersOf(k) /\ k < n
    <2>1. PICK j \in DOMAIN new : all[new[j]] = k
      BY <1>10, <1>11
    <2>2. PICK f \in DOMAIN from : f = new[j]
      BY <1>8
    <2>3. k = NetOf(from[f]) /\ from[f] \in Elements(from)
      BY <1>3, <2>1, <2>2 DEF Elements
    <2>4. from[f] \in Elements(ni) /\ from[f] \notin detached
      BY <1>1, <2>3
    <2>5. PICK i \in DOMAIN ni : ni[i] = from[f]
      BY <2>4 DEF Elements
    <2>6. PICK m \in Net : m < n /\ ni[i] \in LayersOf(m) /\ NetOf(ni[i]) = m
      BY FedElsewhere
    <2> QED
      BY <2>3, <2>4, <2>5, <2>6
  <1>12. ASSUME NEW i \in DOMAIN ni, ni[i] \notin detached
         PROVE  Chained(NextNets(n), NetOf(ni[i]))
    <2>1. ni[i] \in Elements(from)
      BY <1>1, <1>a, <1>12
    <2>2. PICK f \in DOMAIN from : from[f] = ni[i]
      BY <2>1 DEF Elements
    <2> DEFINE Same == {j \in DOMAIN from : all[j] = all[f]}
    <2>3. PICK g \in Same : \A h \in Same : g <= h
      <3>1. Same \in SUBSET Nat /\ f \in Same
        BY <1>2
      <3> HIDE DEF Same
      <3> QED
        BY <3>1, LeastOfNaturals
    <2>4. g \in DOMAIN from /\ all[g] = all[f]
      OBVIOUS
    <2>5. \A j \in 1 .. g - 1 : all[j] # all[g]
      <3>1. SUFFICES ASSUME NEW j \in 1 .. g - 1, all[j] = all[g] PROVE FALSE
        OBVIOUS
      <3>2. j \in DOMAIN from /\ ~ (g <= j)
        BY <1>2, <2>4
      <3> QED
        BY <2>3, <2>4, <3>1, <3>2
    <2>6. g \in firsts
      BY <1>5, <2>4, <2>5
    <2>7. PICK j \in DOMAIN new : new[j] = g
      BY <1>6, <2>6 DEF Elements
    <2>8. all[new[j]] = NetOf(ni[i])
      BY <1>3, <2>2, <2>4, <2>7
    <2> QED
      BY <1>10, <2>8
  <1> QED
    BY <1>9, <1>11, <1>12, NextNetsType

LEMMA Appended ==
    ASSUME NEW s \in Seq(Calling), NEW t \in Seq(Calling), AllChained(s), AllChained(t)
    PROVE  /\ s \o t \in Seq(Calling) /\ AllChained(s \o t)
           /\ \A k : Chained(s \o t, k) <=> Chained(s, k) \/ Chained(t, k)
  <1> DEFINE C == Calling
  <1>1. s \in Seq(C) /\ t \in Seq(C)
    OBVIOUS
  <1> HIDE DEF C
  <1>2. /\ s \o t \in Seq(C) /\ DOMAIN (s \o t) = 1 .. Len(s) + Len(t)
        /\ DOMAIN s = 1 .. Len(s) /\ DOMAIN t = 1 .. Len(t)
        /\ Len(s) \in Nat /\ Len(t) \in Nat
        /\ \A i \in 1 .. Len(s) : (s \o t)[i] = s[i]
        /\ \A i \in 1 .. Len(t) : (s \o t)[Len(s) + i] = t[i]
    BY <1>1
  <1> DEFINE r == s \o t
  <1> HIDE DEF r
  <1>3. \A i \in DOMAIN r : \/ i \in DOMAIN s /\ r[i] = s[i]
                            \/ i - Len(s) \in DOMAIN t /\ r[i] = t[i - Len(s)]
    <2>1. SUFFICES ASSUME NEW i \in 1 .. Len(s) + Len(t), i \notin 1 .. Len(s)
                   PROVE  i - Len(s) \in 1 .. Len(t) /\ r[i] = t[i - Len(s)]
      BY <1>2 DEF r
    <2>2. i - Len(s) \in 1 .. Len(t) /\ Len(s) + (i - Len(s)) = i
      BY <1>2, <2>1
    <2> QED
      BY <1>2, <2>2 DEF r
  <1>4. \A i \in DOMAIN s : i \in DOMAIN r /\ r[i] = s[i]
    BY <1>2 DEF r
  <1>5. \A i \in DOMAIN t : Len(s) + i \in DOMAIN r /\ r[Len(s) + i] = t[i]
    BY <1>2 DEF r
  <1>6. AllChained(r)
    BY <1>3 DEF AllChained
  <1>7. ASSUME NEW k PROVE Chained(r, k) <=> Chained(s, k) \/ Chained(t, k)
    <2>1. Chained(r, k) => Chained(s, k) \/ Chained(t, k)
      BY <1>3 DEF Chained
    <2>2. Chained(s, k) => Chained(r, k)
      BY <1>4 DEF Chained
    <2>3. Chained(t, k) => Chained(r, k)
      BY <1>5 DEF Chained
    <2> QED
      BY <2>1, <2>2, <2>3
  <1> QED
    BY <1>2, <1>6, <1>7 DEF r, C

\* What a turn leaves to be done.
LEMMA TailFacts ==
    ASSUME todo \in Seq(Calling), TodoShape(todo), todo # <<>>
    PROVE  /\ Tail(todo) \in Seq(Calling) /\ AllChained(Tail(todo))
           /\ \A k : Chained(Tail(todo), k) => Chained(todo, k)
           /\ \A k : Chained(todo, k) /\ k # Head(todo).net => Chained(Tail(todo), k)
           /\ Head(todo).call # "chain" => Tail(todo) = <<>>
           /\ \A i \in DOMAIN todo : todo[i].net = Head(todo).net \/ Chained(todo, todo[i].net)
           /\ Head(todo) \in Calling
  <1> DEFINE C == Calling
             t == Tail(todo)
  <1>0. todo \in Seq(C)
    OBVIOUS
  <1> HIDE DEF C
  <1>1. /\ t \in Seq(C) /\ Head(todo) \in C /\ Head(todo) = todo[1]
        /\ Len(todo) \in Nat /\ DOMAIN todo = 1 .. Len(todo) /\ 1 \in DOMAIN todo
        /\ DOMAIN t = 1 .. Len(todo) - 1
        /\ \A i \in DOMAIN t : t[i] = todo[i + 1] /\ i + 1 \in DOMAIN todo
    BY <1>0
  <1>2. CASE \E c \in Calling : todo = <<c>>
    <2>1. PICK c : todo = <<c>>
      BY <1>2
    <2>2. t = <<>> /\ Head(todo) = c /\ DOMAIN todo = {1} /\ todo[1] = c
      BY <2>1
    <2>3. AllChained(t) /\ \A k : ~ Chained(t, k)
      BY <2>2 DEF AllChained, Chained
    <2>4. \A k : Chained(todo, k) => k = Head(todo).net
      BY <2>2 DEF Chained
    <2> HIDE DEF t
    <2> QED
      BY <1>1, <2>2, <2>3, <2>4 DEF C, t
  <1>3. CASE AllChained(todo)
    <2>1. \A i \in DOMAIN todo : todo[i].call = "chain"
      BY <1>3 DEF AllChained
    <2>2. AllChained(t) /\ Head(todo).call = "chain"
      BY <1>1, <2>1 DEF AllChained
    <2>3. ASSUME NEW k, Chained(t, k) PROVE Chained(todo, k)
      BY <1>1, <2>1, <2>3 DEF Chained
    <2>4. ASSUME NEW k, Chained(todo, k), k # Head(todo).net PROVE Chained(t, k)
      <3>1. PICK i \in DOMAIN todo : todo[i].call = "chain" /\ todo[i].net = k
        BY <2>4 DEF Chained
      <3>2. i # 1
        BY <1>1, <2>4, <3>1
      <3>3. i - 1 \in DOMAIN t /\ (i - 1) + 1 = i
        BY <1>1, <3>2
      <3> QED
        BY <1>1, <3>1, <3>3 DEF Chained
    <2>5. \A i \in DOMAIN todo : Chained(todo, todo[i].net)
      BY <2>1 DEF Chained
    <2> HIDE DEF t
    <2> QED
      BY <1>1, <2>2, <2>3, <2>4, <2>5 DEF C, t
  <1> QED
    BY <1>2, <1>3 DEF TodoShape

LEMMA TodoFollows ==
    ASSUME NetsThere, NetsApart, SweepInv, FedInv, TodoShape(todo), todo # <<>>,
           NEW n \in Net, n = Head(todo).net
    PROVE  Follows(NextNets(n) \o Tail(todo), n)
  <1> DEFINE s == NextNets(n)
             t == Tail(todo)
  <1>0. ChainInv /\ todo \in Seq(Calling)
    BY DEF SweepInv
  <1>1. /\ s \in Seq(Calling) /\ AllChained(s)
        /\ \A k : Chained(s, k) =>
               \E i \in DOMAIN netinput[n] : /\ netinput[n][i] \notin detached
                                             /\ netinput[n][i] \in LayersOf(k) /\ k < n
        /\ \A i \in DOMAIN netinput[n] : netinput[n][i] \notin detached =>
               Chained(s, NetOf(netinput[n][i]))
    BY <1>0, NextNetsFacts
  <1>2. /\ t \in Seq(Calling) /\ AllChained(t)
        /\ \A k : Chained(t, k) => Chained(todo, k)
        /\ \A k : Chained(todo, k) /\ k # n => Chained(t, k)
    BY <1>0, TailFacts
  <1> HIDE DEF s, t
  <1>3. /\ s \o t \in Seq(Calling) /\ AllChained(s \o t)
        /\ \A k : Chained(s \o t, k) <=> Chained(s, k) \/ Chained(t, k)
    BY <1>1, <1>2, Appended
  <1> DEFINE r == s \o t
  <1> HIDE DEF r
  <1>4. Follows(r, n)
    BY <1>1, <1>2, <1>3 DEF Follows, r
  <1> QED
    BY <1>4 DEF r, s, t

(***************************************************************************)
(* What is still missing from the gradients while a backward() goes on.      *)
(***************************************************************************)

\* Net k keeps its deltas after a sweep (no low memory), and one has used them.
Spent(k, u) == ~ (Model(k).mem > 0) /\ u \cap LayersOf(k) # {}

\* What a sweep of net k will find in the delta of layer o, or write into it.
PendingAt(td, c, k, o) ==
    IF LossOn(td, k) THEN (IF HasLoss(k, o) THEN 1 ELSE 0)
    ELSE IF Chained(td, k) THEN c[o] ELSE 0

Pending(td, c) ==
    [o \in Layer |-> IF o \in InNets THEN PendingAt(td, c, NetOf(o), o) ELSE 0]

\* Why net k may pass on something wrong to net m.
Bad(k, m, td, L, u) ==
    \/ Spent(k, u)
    \/ m < k /\ L[k] # <<>> /\ Model(k).mem > 0
    \/ Shared(Host(k).lout)
    \/ Model(k).losses > 0 /\ ~ LossOn(td, k)

\* R has all nets from m on that the calls to come may get to, and they are fine.
Clear(R, m, td, L, d, u) ==
    /\ R \in SUBSET Net /\ \A k \in R : m <= k
    /\ \A i \in DOMAIN td : m <= td[i].net => td[i].net \in R
    /\ \A k \in R : \A i \in DOMAIN L[k] : L[k][i] \notin d =>
           \A j \in Net : m <= j /\ L[k][i] \in LayersOf(j) => j \in R
    /\ \A k \in R : ~ Bad(k, m, td, L, u)

\* What the calls to come will add to the gradients of net m is what is missing.
Explained(R, m, x, L, d, g, D) ==
    \E q \in [Layer -> Int] :
        /\ Within(q, R) /\ Balanced(q, m, x, L, d)
        /\ \A l \in LayersOf(m) : HasWeights(l) => g[l] + q[l] = D[l]

\* Deltas that nobody has used or written hold nothing, but for those a loss
\* will write.
CleanIn(td, c, u) ==
    \A n \in Net : ~ Chained(td, n) /\ ~ Spent(n, u) =>
        \A o \in LayersOf(n) : Flowing(n, o) /\ c[o] # 0 => HasLoss(n, o)

LEMMA PendingFacts ==
    ASSUME NetsThere, NetsApart, NEW td, NEW c \in [Layer -> Nat]
    PROVE  /\ Pending(td, c) \in [Layer -> Int]
           /\ \A k \in Net : \A o \in LayersOf(k) :
                  /\ LossOn(td, k) /\ HasLoss(k, o) => Pending(td, c)[o] = 1
                  /\ LossOn(td, k) /\ ~ HasLoss(k, o) => Pending(td, c)[o] = 0
                  /\ ~ LossOn(td, k) /\ Chained(td, k) => Pending(td, c)[o] = c[o]
                  /\ ~ LossOn(td, k) /\ ~ Chained(td, k) => Pending(td, c)[o] = 0
  <1>1. \A k, o : PendingAt(td, c, k, o) \in {0, 1, c[o]}
    BY DEF PendingAt
  <1>2. \A o \in Layer : c[o] \in Int
    OBVIOUS
  <1>3. ASSUME NEW o \in Layer
        PROVE  (IF o \in InNets THEN PendingAt(td, c, NetOf(o), o) ELSE 0) \in Int
    BY <1>1, <1>2
  <1>4. Pending(td, c) \in [Layer -> Int]
    BY <1>3 DEF Pending
  <1>5. ASSUME NEW k \in Net, NEW o \in LayersOf(k)
        PROVE  Pending(td, c)[o] = PendingAt(td, c, k, o)
    <2>1. o \in Layer /\ o \in InNets /\ NetOf(o) = k
      BY BufferThere
    <2> QED
      BY <2>1 DEF Pending
  <1>6. ASSUME NEW k \in Net, NEW o \in LayersOf(k)
        PROVE  /\ LossOn(td, k) /\ HasLoss(k, o) => Pending(td, c)[o] = 1
               /\ LossOn(td, k) /\ ~ HasLoss(k, o) => Pending(td, c)[o] = 0
               /\ ~ LossOn(td, k) /\ Chained(td, k) => Pending(td, c)[o] = c[o]
               /\ ~ LossOn(td, k) /\ ~ Chained(td, k) => Pending(td, c)[o] = 0
    BY <1>5 DEF PendingAt
  <1> QED
    BY <1>4, <1>6

LEMMA NoLossAmongChained ==
    ASSUME NEW td \in Seq(Calling), AllChained(td), NEW k
    PROVE  ~ LossOn(td, k)
  <1>1. SUFFICES ASSUME td # <<>> PROVE Head(td).call = "chain"
    BY DEF LossOn
  <1>2. 1 \in DOMAIN td /\ Head(td) = td[1]
    BY <1>1
  <1> QED
    BY <1>2 DEF AllChained

\* With one call of the program nothing is chained but what it says.
LEMMA LossAlone ==
    ASSUME todo \in Seq(Calling), TodoShape(todo), NEW n, LossOn(todo, n)
    PROVE  /\ \A k : ~ Chained(todo, k) /\ (LossOn(todo, k) => k = n)
           /\ todo # <<>> /\ n = Head(todo).net /\ Head(todo).call = "loss"
  <1>1. todo # <<>> /\ n = Head(todo).net /\ Head(todo).call = "loss"
    BY DEF LossOn
  <1>2. ~ AllChained(todo)
    BY <1>1, NoLossAmongChained
  <1>3. PICK c \in Calling : todo = <<c>>
    BY <1>2 DEF TodoShape
  <1>4. c.call = "loss" /\ DOMAIN todo = {1} /\ todo[1] = c
    BY <1>1, <1>3
  <1> QED
    BY <1>1, <1>4 DEF Chained, LossOn

\* What net k, which does not turn bad when net n has been swept, was before.
LEMMA NotBadBefore ==
    ASSUME NetsThere, LinkInv, NEW n \in Net, NEW m, NEW k \in Net,
           NEW td, td \in Seq(Calling), AllChained(td),
           ~ Bad(k, m, td, Without(link, n), used \cup LayersOf(n))
    PROVE  /\ ~ Spent(k, used) /\ ~ Spent(k, used \cup LayersOf(n))
           /\ k # n => ~ (m < k /\ link[k] # <<>> /\ Model(k).mem > 0)
           /\ ~ Shared(Host(k).lout) /\ ~ (Model(k).losses > 0)
  <1>1. ~ LossOn(td, k)
    BY NoLossAmongChained
  <1>2. k # n => Without(link, n)[k] = link[k]
    BY NetThere DEF Without, LinkInv
  <1>3. ~ Spent(k, used \cup LayersOf(n)) => ~ Spent(k, used)
    BY DEF Spent
  <1> QED
    BY <1>1, <1>2, <1>3 DEF Bad

\* Net n has its turn in a backward() that goes on: td is what is to be done
\* then, c2 and g2 what is in the deltas and gradients.
Turn(n, td, c2, g2) ==
    /\ NetsThere /\ NetsApart /\ EndsInv /\ SweepInv /\ FedInv /\ LinkInv
    /\ TodoShape(todo) /\ todo # <<>> /\ n \in Net /\ n = Head(todo).net
    /\ Head(todo).call # "target" /\ InputsFirst(n) /\ CleanIn(todo, content, used)
    /\ Follows(td, n) /\ c2 \in [Layer -> Nat] /\ Moves(n, c2, g2, TRUE)

\* What is clear for net m then.
ClearThen(R, m, n, td) == Clear(R, m, td, Without(link, n), detached, used \cup LayersOf(n))

LEMMA LaterNets ==
    ASSUME NEW n, NEW td, NEW c2, NEW g2, Turn(n, td, c2, g2), NEW m \in Net,
           NEW R, ClearThen(R, m, n, td), n < m,
           \A S : Clear(S, m, todo, link, detached, used) =>
                      Explained(S, m, Pending(todo, content), link, detached, gradient, due)
    PROVE  Explained(R, m, Pending(td, c2), Without(link, n), detached, g2, due)
  <1> SUFFICES ASSUME NetsThere, NetsApart, EndsInv, SweepInv, FedInv, LinkInv,
                      TodoShape(todo), todo # <<>>, n \in Net, n = Head(todo).net,
                      Head(todo).call # "target", InputsFirst(n),
                      CleanIn(todo, content, used), Follows(td, n), c2 \in [Layer -> Nat],
                      Moves(n, c2, g2, TRUE),
                      Clear(R, m, td, Without(link, n), detached, used \cup LayersOf(n))
               PROVE  Explained(R, m, Pending(td, c2), Without(link, n), detached, g2, due)
    BY DEF Turn, ClearThen
  <1> DEFINE K == Without(link, n)
             x == Pending(todo, content)
             z == Pending(td, c2)
  <1>1. n \in Nat /\ m \in Nat /\ \A k \in Net : k \in Nat
    BY NetNumbers
  <1>2. todo \in Seq(Calling) /\ ChainInv /\ State \in States
    BY DEF SweepInv
  <1>3. td \in Seq(Calling) /\ AllChained(td)
    BY DEF Follows
  <1>4. \A k \in Net : k # n => K[k] = link[k]
    BY NetThere DEF Without, LinkInv
  <1>5. R \in SUBSET Net /\ \A k \in R : m <= k /\ k # n
    BY <1>1 DEF Clear
  <1>6. Clear(R, m, todo, link, detached, used)
    <2>1. ASSUME NEW i \in DOMAIN todo, m <= todo[i].net PROVE todo[i].net \in R
      <3>1. todo[i].net # n
        BY <1>1, <2>1
      <3>2. Chained(todo, todo[i].net)
        BY <1>2, <3>1, TailFacts
      <3>3. Chained(td, todo[i].net)
        BY <3>1, <3>2 DEF Follows
      <3> QED
        BY <2>1, <3>3 DEF Clear, Chained
    <2>2. \A k \in R : \A i \in DOMAIN link[k] : link[k][i] \notin detached =>
              \A j \in Net : m <= j /\ link[k][i] \in LayersOf(j) => j \in R
      BY <1>4, <1>5 DEF Clear
    <2>3. ASSUME NEW k \in R PROVE ~ Bad(k, m, todo, link, used)
      <3>1. ~ Bad(k, m, td, Without(link, n), used \cup LayersOf(n)) /\ k \in Net /\ k # n
        BY <1>5 DEF Clear
      <3> QED
        BY <1>3, <3>1, NotBadBefore DEF Bad
    <2> QED
      BY <1>5, <2>1, <2>2, <2>3 DEF Clear
  <1>7. PICK q \in [Layer -> Int] :
            /\ Within(q, R) /\ Balanced(q, m, x, link, detached)
            /\ \A l \in LayersOf(m) : HasWeights(l) => gradient[l] + q[l] = due[l]
    BY <1>6 DEF Explained
  <1>8. content \in [Layer -> Nat]
    BY <1>2 DEF State, States
  <1>9. ASSUME NEW k \in Net, m <= k, NEW o \in LayersOf(k), Flowing(k, o) PROVE z[o] = x[o]
    <2>1. k # n /\ n < k
      BY <1>1, <1>9
    <2>2. ~ LossOn(todo, k) /\ ~ LossOn(td, k)
      BY <1>3, <2>1, NoLossAmongChained DEF LossOn
    <2>3. Chained(todo, k) <=> Chained(td, k)
      BY <1>1, <2>1 DEF Follows
    <2>4. c2[o] = content[o]
      <3>1. ~ IsView(o)
        BY <1>9 DEF Flowing
      <3>2. ~ FedFrom(n, o)
        <4>1. SUFFICES ASSUME NEW i \in DOMAIN netinput[n], Buffer(netinput[n][i]) = o
                       PROVE  FALSE
          BY DEF FedFrom
        <4>2. PICK j \in Net : j < n /\ Buffer(netinput[n][i]) \in LayersOf(j)
          BY <1>2, FedElsewhere
        <4>3. j = k
          BY <4>1, <4>2 DEF NetsApart
        <4> QED
          BY <1>1, <2>1, <4>2, <4>3
      <3> QED
        BY <2>1, <3>1, <3>2 DEF Moves
    <2>5. (~ LossOn(todo, k) /\ Chained(todo, k) => x[o] = content[o])
          /\ (~ LossOn(todo, k) /\ ~ Chained(todo, k) => x[o] = 0)
      BY <1>8, PendingFacts
    <2>6. (~ LossOn(td, k) /\ Chained(td, k) => z[o] = c2[o])
          /\ (~ LossOn(td, k) /\ ~ Chained(td, k) => z[o] = 0)
      BY PendingFacts
    <2> QED
      BY <2>2, <2>3, <2>4, <2>5, <2>6
  <1>10. Balanced(q, m, z, K, detached)
    <2>1. Linked(link)
      BY DEF LinkInv, Linked
    <2>2. \A k \in Net : m <= k => \A o \in LayersOf(k) : Flowing(k, o) => z[o] = x[o]
      BY <1>9
    <2> HIDE DEF x, z
    <2> QED
      BY <1>7, <2>1, <2>2, FlowStays
  <1>11. \A l \in LayersOf(m) : g2[l] = gradient[l]
    <2>1. \A l \in LayersOf(m) : l \in Layer /\ l \notin LayersOf(n)
      BY <1>1, NetThere DEF NetsApart
    <2> QED
      BY <2>1 DEF Moves
  <1> HIDE DEF x, z, K
  <1>12. \A l \in LayersOf(m) : HasWeights(l) => g2[l] + q[l] = due[l]
    BY <1>7, <1>11
  <1>13. Explained(R, m, z, K, detached, g2, due)
    BY <1>7, <1>10, <1>12 DEF Explained
  <1> QED
    BY <1>13 DEF z, K

LEMMA LossesType ==
    ASSUME NetsThere, NEW n \in Net
    PROVE  Model(n).losses \in Nat
  <1>1. Model(n).losses \in Nat
    <2> DEFINE M == [in : Seq(DOMAIN arch.parent), out : Seq(DOMAIN arch.parent),
                     losses : Nat, mem : {0, 1}, isLoss : BOOLEAN,
                     feeds : Seq(DOMAIN arch.parent)]
    <2>1. arch.models \in Seq(M)
      BY ArchitectureAssumption DEF NetsThere
    <2>2. arch.models[n] \in M
      <3> HIDE DEF M
      <3> QED
        BY <2>1 DEF NetsThere
    <2> QED
      BY <2>2 DEF Model
  <1> QED
    BY <1>1

\* Net n copies what it has to copy.
ChainFine(n) ==
    /\ netinput[n] = link[n] /\ (netinput[n] # <<>> => ~ (Model(n).mem > 0))
    /\ ~ Shared(netinput[n])
    /\ \A l \in Elements(netinput[n]) : content[Buffer(l)] = 0

\* Nothing is wrong with net n, nor with what it copies before net m has its turn.
FineNow(n, m) ==
    /\ ~ Spent(n, used) /\ ~ Shared(Host(n).lout)
    /\ Head(todo).call = "chain" => ~ (Model(n).losses > 0)
    /\ m < n => ChainFine(n)

LEMMA LinkGoesDown ==
    ASSUME LinkInv, NetsApart, NEW n \in Net, n \in DOMAIN arch.models, NEW i \in DOMAIN link[n],
           NEW j \in Net, link[n][i] \in LayersOf(j)
    PROVE  j < n /\ link[n][i] \in Elements(Model(n).feeds)
  <1>1. link[n] # <<>> /\ link[n][i] \in Elements(link[n])
    BY DEF Elements, LinkInv
  <1>2. Elements(link[n]) \subseteq Elements(Model(n).feeds)
    BY <1>1 DEF LinkInv
  <1>3. link[n][i] \in Elements(Model(n).feeds)
    BY <1>1, <1>2
  <1>4. j < n
    BY <1>3 DEF NetsApart
  <1> QED
    BY <1>3, <1>4

\* What is fine after net n's turn, and net n, were fine before.
LEMMA ClearBefore ==
    ASSUME NEW n, NEW td, NEW c2, NEW g2, Turn(n, td, c2, g2), NEW m \in Net,
           NEW R, ClearThen(R, m, n, td), m <= n, FineNow(n, m)
    PROVE  Clear(R \cup {n}, m, todo, link, detached, used)
  <1> SUFFICES ASSUME NetsThere, NetsApart, EndsInv, SweepInv, FedInv, LinkInv,
                      TodoShape(todo), todo # <<>>, n \in Net, n = Head(todo).net,
                      Head(todo).call # "target", InputsFirst(n),
                      CleanIn(todo, content, used), Follows(td, n), c2 \in [Layer -> Nat],
                      Moves(n, c2, g2, TRUE),
                      Clear(R, m, td, Without(link, n), detached, used \cup LayersOf(n)),
                      ~ Spent(n, used), ~ Shared(Host(n).lout),
                      Head(todo).call = "chain" => ~ (Model(n).losses > 0),
                      m < n => ChainFine(n)
               PROVE  Clear(R \cup {n}, m, todo, link, detached, used)
    BY DEF Turn, ClearThen, FineNow
  <1> DEFINE K == Without(link, n)
             S == R \cup {n}
  <1>1. n \in Nat /\ m \in Nat /\ \A k \in Net : k \in Nat
    BY NetNumbers
  <1>2. todo \in Seq(Calling) /\ ChainInv /\ State \in States
    BY DEF SweepInv
  <1>3. td \in Seq(Calling) /\ AllChained(td)
    BY DEF Follows
  <1>4. \A k \in Net : k # n => K[k] = link[k]
    BY NetThere DEF Without, LinkInv
  <1>5. S \in SUBSET Net /\ \A k \in S : m <= k
    BY DEF Clear
  <1>6. ASSUME NEW i \in DOMAIN todo, m <= todo[i].net PROVE todo[i].net \in S
    <2>1. CASE todo[i].net = n
      BY <2>1
    <2>2. CASE todo[i].net # n
      <3>1. Chained(todo, todo[i].net)
        BY <1>2, <2>2, TailFacts
      <3>2. Chained(td, todo[i].net)
        BY <2>2, <3>1 DEF Follows
      <3> QED
        BY <1>6, <3>2 DEF Clear, Chained
    <2> QED
      BY <2>1, <2>2
  <1>7. ASSUME NEW k \in S, NEW i \in DOMAIN link[k], link[k][i] \notin detached,
               NEW j \in Net, m <= j, link[k][i] \in LayersOf(j)
        PROVE  j \in S
    <2>1. CASE k # n
      <3>1. K[k] = link[k] /\ k \in R
        BY <1>4, <1>5, <2>1
      <3> QED
        BY <1>7, <3>1 DEF Clear
    <2>2. CASE k = n
      <3>0. n \in DOMAIN arch.models /\ i \in DOMAIN link[n] /\ link[n][i] \in LayersOf(j)
        BY <1>7, <2>2, NetThere
      <3>1. j < n /\ link[n][i] \in Elements(Model(n).feeds)
        BY <3>0, LinkGoesDown
      <3>2. m < n
        BY <1>1, <1>7, <3>1
      <3>3. netinput[n] = link[n]
        BY <3>2 DEF ChainFine
      <3>4. i \in DOMAIN netinput[n] /\ netinput[n][i] \notin detached
            /\ netinput[n][i] \in LayersOf(j)
        BY <1>7, <2>2, <3>3
      <3>5. NetOf(netinput[n][i]) = j
        BY <3>4, BufferThere
      <3>6. Chained(td, j)
        BY <3>4, <3>5 DEF Follows
      <3> QED
        BY <1>7, <3>6 DEF Clear, Chained
    <2> QED
      BY <2>1, <2>2
  <1>8. ASSUME NEW k \in S PROVE ~ Bad(k, m, todo, link, used)
    <2>1. CASE k # n
      <3>1. ~ Bad(k, m, td, Without(link, n), used \cup LayersOf(n)) /\ k \in Net /\ k # n
        BY <1>5, <2>1 DEF Clear
      <3> QED
        BY <1>3, <3>1, NotBadBefore DEF Bad
    <2>2. CASE k = n
      <3>1. ~ (m < n /\ link[n] # <<>> /\ Model(n).mem > 0)
        BY DEF ChainFine
      <3>2. ~ (Model(n).losses > 0 /\ ~ LossOn(todo, n))
        <4>1. Head(todo) \in Calling
          BY <1>2, TailFacts
        <4> QED
          BY <4>1 DEF Calling, LossOn
      <3> QED
        BY <2>2, <3>1, <3>2 DEF Bad
    <2> QED
      BY <2>1, <2>2
  <1> HIDE DEF S, K
  <1>9. Clear(S, m, todo, link, detached, used)
    BY <1>5, <1>6, <1>7, <1>8 DEF Clear
  <1> QED
    BY <1>9 DEF S

\* Layer o of net n starts with what is pending, and nothing is pending then.
Starts(a, n, o, x, z) == a[o] = x[o] + FromHeirs(a, n, o) /\ z[o] = 0

\* The net's own layers work with what is pending, and nothing is pending then.
LEMMA OwnPending ==
    ASSUME NEW n, NEW td, NEW c2, NEW g2, Turn(n, td, c2, g2), NEW m \in Net,
           NEW R, ClearThen(R, m, n, td), m <= n, FineNow(n, m),
           NEW a, Worked(a, n, c2, g2, TRUE), NEW o \in LayersOf(n), Flowing(n, o)
    PROVE  Starts(a, n, o, Pending(todo, content), Pending(td, c2))
  <1> SUFFICES ASSUME NetsThere, NetsApart, EndsInv, SweepInv, FedInv, LinkInv,
                      TodoShape(todo), todo # <<>>, n \in Net, n = Head(todo).net,
                      Head(todo).call # "target", InputsFirst(n),
                      CleanIn(todo, content, used), Follows(td, n), c2 \in [Layer -> Nat],
                      Moves(n, c2, g2, TRUE),
                      Clear(R, m, td, Without(link, n), detached, used \cup LayersOf(n)),
                      ~ Spent(n, used), ~ Shared(Host(n).lout),
                      Head(todo).call = "chain" => ~ (Model(n).losses > 0),
                      m < n => ChainFine(n)
               PROVE  Starts(a, n, o, Pending(todo, content), Pending(td, c2))
    BY DEF Turn, ClearThen, FineNow
  <1> DEFINE x == Pending(todo, content)
             z == Pending(td, c2)
  <1>1. todo \in Seq(Calling) /\ State \in States
    BY DEF SweepInv
  <1>2. content \in [Layer -> Nat]
    BY <1>1 DEF State, States
  <1>3. td \in Seq(Calling) /\ AllChained(td)
    BY DEF Follows
  <1>4. /\ LossOn(todo, n) /\ HasLoss(n, o) => x[o] = 1
        /\ LossOn(todo, n) /\ ~ HasLoss(n, o) => x[o] = 0
        /\ ~ LossOn(todo, n) /\ Chained(todo, n) => x[o] = content[o]
    BY <1>2, PendingFacts
  <1>5. /\ ~ LossOn(td, n) /\ Chained(td, n) => z[o] = c2[o]
        /\ ~ LossOn(td, n) /\ ~ Chained(td, n) => z[o] = 0
    BY PendingFacts
  <1>6. Head(todo) \in Calling
    BY <1>1, TailFacts
  <1>7. HasLoss(n, o) => a[o] = 1 + FromHeirs(a, n, o)
    BY DEF Worked
  <1>8. ~ HasLoss(n, o) => a[o] = content[o] + FromHeirs(a, n, o)
    BY DEF Worked
  <1>9. a[o] = x[o] + FromHeirs(a, n, o)
    <2>1. CASE Head(todo).call = "loss"
      <3>1. LossOn(todo, n)
        BY <2>1 DEF LossOn
      <3>2. ~ Chained(todo, n)
        BY <1>1, <3>1, LossAlone
      <3>3. content[o] # 0 => HasLoss(n, o)
        BY <3>2 DEF CleanIn
      <3> QED
        BY <1>4, <1>7, <1>8, <3>1, <3>3
    <2>2. CASE Head(todo).call = "chain"
      <3>1. ~ LossOn(todo, n)
        BY <2>2 DEF LossOn
      <3>2. Chained(todo, n)
        <4>1. 1 \in DOMAIN todo /\ Head(todo) = todo[1]
          BY <1>1
        <4> QED
          BY <2>2, <4>1 DEF Chained
      <3>3. ~ HasLoss(n, o)
        <4>1. SUFFICES ASSUME NEW i \in 1 .. Len(Host(n).lout), i <= Model(n).losses PROVE FALSE
          BY DEF HasLoss, Lost
        <4>2. Model(n).losses \in Nat
          BY LossesType
        <4> QED
          BY <2>2, <4>1, <4>2
      <3> QED
        BY <1>4, <1>8, <3>1, <3>2, <3>3
    <2> QED
      BY <1>6, <2>1, <2>2 DEF Calling
  <1>10. z[o] = 0
    <2>1. ~ LossOn(td, n)
      BY <1>3, NoLossAmongChained
    <2>2. CASE Chained(td, n)
      <3>1. n \in R
        BY <2>2 DEF Clear, Chained
      <3>2. ~ Spent(n, used \cup LayersOf(n))
        BY <3>1 DEF Clear, Bad
      <3>3. Model(n).mem > 0
        BY <3>2 DEF Spent
      <3>4. ~ IsView(o) /\ ~ IsInput(o)
        BY <3>3 DEF Flowing
      <3>5. c2[o] = 0
        BY <3>3, <3>4 DEF Moves
      <3> QED
        BY <1>5, <2>1, <2>2, <3>5
    <2> QED
      BY <1>5, <2>1, <2>2
  <1> QED
    BY <1>9, <1>10 DEF Starts

LEMMA InputsNoViews ==
    ASSUME arch \in Architectures, NEW o \in Layer, IsInput(o)
    PROVE  ~ IsView(o)
  <1>1. IsView(o) => Len(arch.parent[o]) = 1
    BY BackpropAssumption DEF IsView
  <1>2. arch.parent[o] = <<>>
    BY DEF IsInput
  <1> QED
    BY <1>1, <1>2

\* A layer of another net that net n feeds nothing to.
LEMMA NothingPassed ==
    ASSUME NEW n, NEW td, NEW c2, NEW g2, Turn(n, td, c2, g2), NEW m \in Net,
           NEW R, ClearThen(R, m, n, td),
           NEW k \in Net, m <= k, k # n, NEW o \in LayersOf(k), Flowing(k, o), ~ FedFrom(n, o)
    PROVE  Pending(td, c2)[o] = Pending(todo, content)[o]
  <1> SUFFICES ASSUME NetsThere, NetsApart, EndsInv, SweepInv, FedInv, LinkInv,
                      TodoShape(todo), todo # <<>>, n \in Net, n = Head(todo).net,
                      Head(todo).call # "target", InputsFirst(n),
                      CleanIn(todo, content, used), Follows(td, n), c2 \in [Layer -> Nat],
                      Moves(n, c2, g2, TRUE),
                      Clear(R, m, td, Without(link, n), detached, used \cup LayersOf(n))
               PROVE  Pending(td, c2)[o] = Pending(todo, content)[o]
    BY DEF Turn, ClearThen
  <1> DEFINE x == Pending(todo, content)
             z == Pending(td, c2)
  <1>1. todo \in Seq(Calling) /\ State \in States /\ td \in Seq(Calling) /\ AllChained(td)
    BY DEF SweepInv, Follows
  <1>2. content \in [Layer -> Nat]
    BY <1>1 DEF State, States
  <1>3. ~ LossOn(todo, k) /\ ~ LossOn(td, k)
    BY <1>1, NoLossAmongChained DEF LossOn
  <1>4. /\ ~ LossOn(todo, k) /\ Chained(todo, k) => x[o] = content[o]
        /\ ~ LossOn(todo, k) /\ ~ Chained(todo, k) => x[o] = 0
    BY <1>2, PendingFacts
  <1>5. /\ ~ LossOn(td, k) /\ Chained(td, k) => z[o] = c2[o]
        /\ ~ LossOn(td, k) /\ ~ Chained(td, k) => z[o] = 0
    BY PendingFacts
  <1>6. c2[o] = content[o]
    BY DEF Moves, Flowing
  <1>7. Chained(todo, k) => Chained(td, k)
    BY DEF Follows
  <1>8. ASSUME ~ Chained(todo, k), Chained(td, k) PROVE content[o] = 0
    <2>1. k \in R
      BY <1>8 DEF Clear, Chained
    <2>2. k \in Net /\ ~ Bad(k, m, td, Without(link, n), used \cup LayersOf(n))
      BY <2>1 DEF Clear
    <2>3. ~ Spent(k, used) /\ ~ (Model(k).losses > 0)
      BY <1>1, <2>2, NotBadBefore
    <2>4. ~ HasLoss(k, o)
      <3>1. SUFFICES ASSUME NEW i \in 1 .. Len(Host(k).lout), i <= Model(k).losses PROVE FALSE
        BY DEF HasLoss, Lost
      <3>2. Model(k).losses \in Nat
        BY LossesType
      <3> QED
        BY <2>3, <3>1, <3>2
    <2> QED
      BY <1>8, <2>3, <2>4 DEF CleanIn
  <1> HIDE DEF x, z
  <1>9. z[o] = x[o]
    BY <1>3, <1>4, <1>5, <1>6, <1>7, <1>8
  <1> QED
    BY <1>9 DEF x, z

LEMMA OthersPass ==
    ASSUME NEW n, NEW td, NEW c2, NEW g2, Turn(n, td, c2, g2), NEW m \in Net,
           NEW R, ClearThen(R, m, n, td), m <= n, FineNow(n, m),
           NEW a, Worked(a, n, c2, g2, TRUE),
           NEW k \in Net, m <= k, k # n, NEW o \in LayersOf(k), Flowing(k, o)
    PROVE  Passes(o, n, link, detached, a, Pending(todo, content), Pending(td, c2), R)
  <1> SUFFICES ASSUME NetsThere, NetsApart, EndsInv, SweepInv, FedInv, LinkInv,
                      TodoShape(todo), todo # <<>>, n \in Net, n = Head(todo).net,
                      Head(todo).call # "target", InputsFirst(n),
                      CleanIn(todo, content, used), Follows(td, n), c2 \in [Layer -> Nat],
                      Moves(n, c2, g2, TRUE),
                      Clear(R, m, td, Without(link, n), detached, used \cup LayersOf(n)),
                      ~ Spent(n, used), ~ Shared(Host(n).lout),
                      Head(todo).call = "chain" => ~ (Model(n).losses > 0),
                      m < n => ChainFine(n)
               PROVE  Passes(o, n, link, detached, a, Pending(todo, content), Pending(td, c2), R)
    BY DEF Turn, ClearThen, FineNow
  <1> DEFINE x == Pending(todo, content)
             z == Pending(td, c2)
  <1>1. todo \in Seq(Calling) /\ State \in States /\ td \in Seq(Calling) /\ AllChained(td)
        /\ ChainInv
    BY DEF SweepInv, Follows
  <1>2. content \in [Layer -> Nat]
    BY <1>1 DEF State, States
  <1>3. n \in Nat /\ m \in Nat /\ k \in Nat
    BY NetNumbers
  <1>4. Linked(link)
    BY DEF LinkInv, Linked
  <1>5. ASSUME NEW c \in CopiesTo(link, detached, o), c[1] = n
        PROVE  /\ m < n /\ c[2] \in DOMAIN netinput[n] /\ netinput[n][c[2]] \notin detached
               /\ Buffer(netinput[n][c[2]]) = o /\ c = <<n, c[2]>>
    <2>1. k < c[1] /\ c \in Linking(link, detached) /\ Target(link, c) = o
      BY <1>4, CopiesThere
    <2>2. m < n
      BY <1>3, <1>5, <2>1
    <2>3. netinput[n] = link[n]
      BY <2>2 DEF ChainFine
    <2>4. c[2] \in DOMAIN link[c[1]] /\ c = <<c[1], c[2]>> /\ link[c[1]][c[2]] \notin detached
      BY <1>4, <2>1, LinkingFacts
    <2> QED
      BY <1>5, <2>1, <2>2, <2>3, <2>4 DEF Target
  <1>6. ASSUME ~ FedFrom(n, o) PROVE Passes(o, n, link, detached, a, x, z, R)
    <2>0. Pending(td, c2)[o] = Pending(todo, content)[o]
      <3> HIDE DEF x, z
      <3> QED
        BY <1>6, NothingPassed
    <2>1. z[o] = x[o]
      BY <2>0
    <2>2. \A c \in CopiesTo(link, detached, o) : c[1] # n
      BY <1>5, <1>6 DEF FedFrom
    <2> QED
      BY <2>1, <2>2 DEF Passes
  <1>7. ASSUME NEW i \in DOMAIN netinput[n], netinput[n][i] \notin detached,
               Buffer(netinput[n][i]) = o
        PROVE  Passes(o, n, link, detached, a, x, z, R)
    <2>1. /\ k < n /\ netinput[n][i] \in LayersOf(k) /\ NetOf(netinput[n][i]) = k
          /\ Buffer(netinput[n][i]) \in LayersOf(k)
      <3>1. PICK j \in Net : /\ j < n /\ netinput[n][i] \in LayersOf(j) /\ NetOf(netinput[n][i]) = j
                             /\ Buffer(netinput[n][i]) \in LayersOf(j)
        BY <1>1, FedElsewhere
      <3>2. j = k
        BY <1>7, <3>1 DEF NetsApart
      <3> QED
        BY <3>1, <3>2
    <2>2. m < n
      BY <1>3, <2>1
    <2>3. /\ netinput[n] = link[n] /\ ~ Shared(netinput[n])
          /\ \A l \in Elements(netinput[n]) : content[Buffer(l)] = 0
          /\ netinput[n] # <<>> => ~ (Model(n).mem > 0)
      BY <2>2 DEF ChainFine
    <2>4. netinput[n] # <<>> /\ netinput[n][i] \in Elements(netinput[n])
      <3>1. netinput[n] \in Seq(InNets)
        BY <1>1, NetThere DEF ChainInv
      <3> QED
        BY <1>7, <3>1 DEF Elements
    <2>5. ~ (Model(n).mem > 0) /\ content[o] = 0
      BY <1>7, <2>3, <2>4
    <2>6. PICK c : c = <<n, i>>
      OBVIOUS
    <2>7. c \in CopiesTo(link, detached, o) /\ c[1] = n /\ CopyTo(c) = Host(n).lin[i]
      <3>1. c \in Linking(link, detached) /\ c[1] = n /\ c[2] = i
        BY <1>7, <2>3, <2>6 DEF Linking
      <3> QED
        BY <1>7, <2>3, <3>1 DEF CopiesTo, Target, CopyTo
    <2>8. ASSUME NEW b \in CopiesTo(link, detached, o), b[1] = n PROVE b = c
      <3>1. b[2] \in DOMAIN netinput[n] /\ Buffer(netinput[n][b[2]]) = o /\ b = <<n, b[2]>>
        BY <1>5, <2>8
      <3>2. b[2] = i
        BY <1>7, <2>3, <3>1 DEF Shared
      <3> QED
        BY <2>6, <3>1, <3>2
    <2>9. ~ LossOn(todo, k) /\ ~ LossOn(td, k)
      BY <1>1, NoLossAmongChained DEF LossOn
    <2>10. x[o] = 0
      <3>1. /\ ~ LossOn(todo, k) /\ Chained(todo, k) => x[o] = content[o]
            /\ ~ LossOn(todo, k) /\ ~ Chained(todo, k) => x[o] = 0
        BY <1>2, PendingFacts
      <3> HIDE DEF x
      <3> QED
        BY <2>5, <2>9, <3>1
    <2>11. z[o] = a[CopyTo(c)]
      <3>1. ~ LossOn(td, k) /\ Chained(td, k) => z[o] = c2[o]
        BY PendingFacts
      <3>2. Chained(td, k)
        BY <1>7, <2>1 DEF Follows
      <3>3. c2[Buffer(netinput[n][i])] = a[Host(n).lin[i]]
        BY <1>7, <2>3, <2>5 DEF Worked
      <3> HIDE DEF z
      <3> QED
        BY <1>7, <2>7, <2>9, <3>1, <3>2, <3>3
    <2>12. c \in Linking(link, detached) /\ CopyTo(c) \in LayersOf(n)
      BY <1>4, <2>7, CopiesThere
    <2>13. n \notin R
      <3>1. SUFFICES ASSUME n \in R PROVE FALSE
        OBVIOUS
      <3>2. ~ Spent(n, used \cup LayersOf(n))
        BY <3>1 DEF Clear, Bad
      <3> QED
        BY <2>5, <2>12, <3>2 DEF Spent
    <2>14. Flowing(n, CopyTo(c))
      <3>1. c[2] \in DOMAIN Host(c[1]).lin
        BY <1>4, <2>12, LinkingFacts
      <3>2. i \in DOMAIN Host(n).lin
        BY <2>6, <2>7, <3>1
      <3>3. IsInput(CopyTo(c)) /\ CopyTo(c) \in Layer
        BY <2>7, <2>12, <3>2, NetThere DEF InputsFirst
      <3>4. ~ IsView(CopyTo(c))
        BY <3>3, InputsNoViews DEF NetsThere
      <3> QED
        BY <2>5, <3>4 DEF Flowing
    <2> HIDE DEF x, z
    <2> QED
      BY <2>7, <2>8, <2>10, <2>11, <2>13, <2>14 DEF Passes
  <1> QED
    BY <1>6, <1>7 DEF FedFrom

\* The net itself and those before it.
LEMMA EarlierNets ==
    ASSUME NEW n, NEW td, NEW c2, NEW g2, Turn(n, td, c2, g2), NEW m \in Net,
           NEW R, ClearThen(R, m, n, td), m <= n, FineNow(n, m),
           NEW a \in [Layer -> Int], Worked(a, n, c2, g2, TRUE), due \in [Layer -> Nat],
           \A S : Clear(S, m, todo, link, detached, used) =>
                      Explained(S, m, Pending(todo, content), link, detached, gradient, due)
    PROVE  Explained(R, m, Pending(td, c2), Without(link, n), detached, g2, due)
  <1>a. Clear(R \cup {n}, m, todo, link, detached, used)
    BY ClearBefore
  <1>b. \A o \in LayersOf(n) : Flowing(n, o) =>
            Starts(a, n, o, Pending(todo, content), Pending(td, c2))
    BY OwnPending
  <1>c. \A k \in Net : m <= k /\ k # n =>
            \A o \in LayersOf(k) : Flowing(k, o) =>
                Passes(o, n, link, detached, a, Pending(todo, content), Pending(td, c2), R)
    BY OthersPass
  <1> SUFFICES ASSUME NetsThere, NetsApart, EndsInv, SweepInv, FedInv, LinkInv,
                      TodoShape(todo), todo # <<>>, n \in Net, n = Head(todo).net,
                      Head(todo).call # "target", InputsFirst(n),
                      CleanIn(todo, content, used), Follows(td, n), c2 \in [Layer -> Nat],
                      Moves(n, c2, g2, TRUE),
                      Clear(R, m, td, Without(link, n), detached, used \cup LayersOf(n)),
                      ~ Spent(n, used), ~ Shared(Host(n).lout),
                      Head(todo).call = "chain" => ~ (Model(n).losses > 0),
                      m < n => ChainFine(n)
               PROVE  Explained(R, m, Pending(td, c2), Without(link, n), detached, g2, due)
    BY DEF Turn, ClearThen, FineNow
  <1>1. todo \in Seq(Calling) /\ State \in States /\ td \in Seq(Calling) /\ AllChained(td)
        /\ ChainInv
    BY DEF SweepInv, Follows
  <1>2. content \in [Layer -> Nat] /\ gradient \in [Layer -> Nat]
    BY <1>1 DEF State, States
  <1>3. Linked(link) /\ n \in Nat /\ m \in Nat
    <2>1. Linked(link)
      BY DEF LinkInv, Linked
    <2>2. n \in Nat /\ m \in Nat
      BY NetNumbers
    <2> QED
      BY <2>1, <2>2
  <1>4. PICK S : S = R \cup {n}
    OBVIOUS
  <1>5. Clear(R \cup {n}, m, todo, link, detached, used)
    BY <1>a
  <1>6. Explained(S, m, Pending(todo, content), link, detached, gradient, due)
    BY <1>4, <1>5
  <1>7. PICK x : x = Pending(todo, content)
    OBVIOUS
  <1>8. PICK z : z = Pending(td, c2)
    OBVIOUS
  <1>9. x \in [Layer -> Int] /\ z \in [Layer -> Int]
    BY <1>2, <1>7, <1>8, PendingFacts
  <1>10. PICK q \in [Layer -> Int] :
             /\ Within(q, S) /\ Balanced(q, m, x, link, detached)
             /\ \A l \in LayersOf(m) : HasWeights(l) => gradient[l] + q[l] = due[l]
    BY <1>6, <1>7 DEF Explained
  <1>11. \A o \in LayersOf(n) : Flowing(n, o) => a[o] = x[o] + FromHeirs(a, n, o) /\ z[o] = 0
    BY <1>7, <1>8, <1>b DEF Starts
  <1>12. ASSUME NEW o \in LayersOf(n), NEW c \in CopiesTo(link, detached, o), c[1] \in R
         PROVE  n \in R
    <2>1. /\ c[1] \in Net /\ c \in Linking(link, detached) /\ Target(link, c) = o
          /\ n < c[1] /\ c[1] # n
      BY <1>3, CopiesThere
    <2>2. /\ c[2] \in DOMAIN link[c[1]] /\ link[c[1]][c[2]] \notin detached
          /\ link[c[1]][c[2]] \in LayersOf(n)
      BY <1>3, <2>1, LinkingFacts
    <2>3. Without(link, n)[c[1]] = link[c[1]]
      BY <2>1, NetThere DEF Without, LinkInv
    <2> QED
      BY <1>12, <2>2, <2>3 DEF Clear
  <1>13. \A k \in Net : m <= k /\ k # n =>
             \A o \in LayersOf(k) : Flowing(k, o) => Passes(o, n, link, detached, a, x, z, R)
    BY <1>7, <1>8, <1>c
  <1>14. R \in SUBSET Net
    BY DEF Clear
  <1>15. /\ Left(q, n, a) \in [Layer -> Int]
         /\ Within(Left(q, n, a), R)
         /\ Balanced(Left(q, n, a), m, z, Without(link, n), detached)
    <2>1. Within(q, R \cup {n})
      BY <1>4, <1>10
    <2>2. \A o \in LayersOf(n) : \A c \in CopiesTo(link, detached, o) : c[1] \in R => n \in R
      BY <1>12
    <2> QED
      BY <1>3, <1>9, <1>10, <1>11, <1>13, <1>14, <2>1, <2>2, FlowPasses
  <1>16. ASSUME NEW l \in LayersOf(m), HasWeights(l) PROVE g2[l] + Left(q, n, a)[l] = due[l]
    <2>1. l \in Layer /\ gradient[l] + q[l] = due[l] /\ Flowing(n, l)
      BY <1>10, <1>16, NetThere, WeightsFlow
    <2>2. gradient[l] \in Nat /\ q[l] \in Int /\ a[l] \in Int /\ due[l] \in Nat
      BY <1>2, <2>1
    <2>3. CASE m = n
      <3>1. g2[l] = gradient[l] + a[l]
        BY <1>16, <2>3 DEF Worked
      <3>2. Left(q, n, a)[l] = q[l] - a[l]
        BY <2>1, <2>3 DEF Left
      <3> QED
        BY <2>1, <2>2, <3>1, <3>2
    <2>4. CASE m # n
      <3>1. l \notin LayersOf(n)
        BY <2>4 DEF NetsApart
      <3>2. g2[l] = gradient[l]
        BY <2>1, <3>1 DEF Moves
      <3>3. Left(q, n, a)[l] = q[l]
        BY <2>1, <3>1 DEF Left
      <3> QED
        BY <2>1, <3>2, <3>3
    <2> QED
      BY <2>3, <2>4
  <1>17. \A l \in LayersOf(m) : HasWeights(l) => g2[l] + Left(q, n, a)[l] = due[l]
    BY <1>16
  <1>18. Explained(R, m, z, Without(link, n), detached, g2, due)
    BY <1>15, <1>17 DEF Explained
  <1> QED
    BY <1>8, <1>18

(***************************************************************************)
(* The gradients of net m are right, or are going to be.                     *)
(***************************************************************************)

Settled(m, g, D) == \A l \in LayersOf(m) : HasWeights(l) => g[l] = D[l]

\* Net m has been called with its targets.
Owed(m, g, D) ==
    ~ Shared(Host(m).lout) =>
        \E q \in [Layer -> Int] : \A l \in LayersOf(m) : HasWeights(l) =>
            /\ HasLoss(m, l) => q[l] = 1 + FromHeirs(q, m, l)
            /\ ~ HasLoss(m, l) => q[l] = FromHeirs(q, m, l)
            /\ g[l] + q[l] = D[l]

\* Whatever is clear for net m explains what is missing.
AllExplained(m, td, c, u, L, d, g, D) ==
    \A R : Clear(R, m, td, L, d, u) => Explained(R, m, Pending(td, c), L, d, g, D)

Targeted(td, m) == td # <<>> /\ Head(td).call = "target" /\ Head(td).net = m
GoesOn(td) == td # <<>> /\ Head(td).call # "target"

ExactFor(m, td, c, u, L, d, g, D) ==
    /\ Targeted(td, m) => Owed(m, g, D)
    /\ ~ Targeted(td, m) /\ ~ GoesOn(td) => Settled(m, g, D)
    /\ GoesOn(td) => AllExplained(m, td, c, u, L, d, g, D)

ExactIn(td, c, u, L, d, g, D, cs) ==
    \A m \in Net : cs[m] = {} => ExactFor(m, td, c, u, L, d, g, D)

\* When nothing is to come nothing is missing.
LEMMA NothingMissing ==
    ASSUME NetsThere, NEW m \in Net, NEW x, NEW L, NEW d, NEW g \in [Layer -> Nat],
           NEW D \in [Layer -> Nat], Explained({}, m, x, L, d, g, D)
    PROVE  Settled(m, g, D)
  <1>1. PICK q \in [Layer -> Int] :
            /\ Within(q, {}) /\ \A l \in LayersOf(m) : HasWeights(l) => g[l] + q[l] = D[l]
    BY DEF Explained
  <1>2. ASSUME NEW l \in LayersOf(m), HasWeights(l) PROVE g[l] = D[l]
    <2>1. q[l] = 0
      BY <1>1 DEF Within
    <2>2. g[l] + q[l] = D[l] /\ l \in Layer
      BY <1>1, <1>2, NetThere
    <2>3. g[l] \in Nat /\ D[l] \in Nat
      BY <2>2
    <2> QED
      BY <2>1, <2>2, <2>3
  <1> QED
    BY <1>2 DEF Settled

\* A turn in a backward() that goes on.
LEMMA ChainTurn ==
    ASSUME NEW n, NEW td, NEW c2, NEW g2, Turn(n, td, c2, g2), NEW m \in Net,
           due \in [Layer -> Nat], g2 \in [Layer -> Nat],
           m <= n => /\ FineNow(n, m)
                     /\ \E a \in [Layer -> Int] : Worked(a, n, c2, g2, TRUE),
           AllExplained(m, todo, content, used, link, detached, gradient, due)
    PROVE  ExactFor(m, td, c2, used \cup LayersOf(n), Without(link, n), detached, g2, due)
  <1>1. n \in Net /\ NetsThere /\ td \in Seq(Calling) /\ AllChained(td)
    BY DEF Turn, Follows
  <1>2. n \in Nat /\ m \in Nat
    BY <1>1, NetNumbers
  <1>3. \A S : Clear(S, m, todo, link, detached, used) =>
                   Explained(S, m, Pending(todo, content), link, detached, gradient, due)
    BY DEF AllExplained
  <1>4. ASSUME NEW R, ClearThen(R, m, n, td)
        PROVE  Explained(R, m, Pending(td, c2), Without(link, n), detached, g2, due)
    <2>1. CASE n < m
      BY <1>3, <1>4, <2>1, LaterNets
    <2>2. CASE m <= n
      <3>1. FineNow(n, m)
        BY <2>2
      <3>2. PICK a \in [Layer -> Int] : Worked(a, n, c2, g2, TRUE)
        BY <2>2
      <3> QED
        BY <1>3, <1>4, <2>2, <3>1, <3>2, EarlierNets
    <2> QED
      BY <1>2, <2>1, <2>2
  <1>5. AllExplained(m, td, c2, used \cup LayersOf(n), Without(link, n), detached, g2, due)
    BY <1>4 DEF AllExplained, ClearThen
  <1>6. ~ Targeted(td, m)
    <2>1. SUFFICES ASSUME td # <<>> PROVE Head(td).call # "target"
      BY DEF Targeted
    <2>2. 1 \in DOMAIN td /\ Head(td) = td[1]
      BY <1>1, <2>1
    <2> QED
      BY <1>1, <2>2 DEF AllChained
  <1>7. ASSUME ~ GoesOn(td) PROVE Settled(m, g2, due)
    <2>1. td = <<>>
      <3>1. SUFFICES ASSUME td # <<>> PROVE FALSE
        OBVIOUS
      <3>2. 1 \in DOMAIN td /\ Head(td) = td[1]
        BY <1>1, <3>1
      <3> QED
        BY <1>1, <1>7, <3>1, <3>2 DEF AllChained, GoesOn
    <2>2. Clear({}, m, td, Without(link, n), detached, used \cup LayersOf(n))
      BY <2>1 DEF Clear
    <2>3. Explained({}, m, Pending(td, c2), Without(link, n), detached, g2, due)
      BY <1>5, <2>2 DEF AllExplained
    <2> QED
      BY <1>1, <2>3, NothingMissing
  <1> QED
    BY <1>5, <1>6, <1>7 DEF ExactFor

-----------------------------------------------------------------------------
\* Two solutions for the same net are one.
LEMMA OneSolution ==
    ASSUME NetsThere, NetsApart, NEW n \in Net, NEW a \in [Layer -> Int],
           NEW q \in [Layer -> Int], NEW x,
           \A l \in LayersOf(n) : HasWeights(l) =>
               /\ x[l] \in Int
               /\ a[l] = x[l] + FromHeirs(a, n, l) /\ q[l] = x[l] + FromHeirs(q, n, l)
    PROVE  \A l \in LayersOf(n) : HasWeights(l) => a[l] = q[l]
  <1> DEFINE r == [l \in Layer |-> a[l] - q[l]]
  <1>1. \A l \in LayersOf(n) : l \in Layer
    BY NetThere
  <1>2. \A l \in LayersOf(n) :
            r[l] = a[l] - q[l] /\ r[l] \in Int /\ a[l] \in Int /\ q[l] \in Int /\ a[l] = r[l] + q[l]
    BY <1>1
  <1> HIDE DEF r
  <1>3. ASSUME NEW o \in LayersOf(n), HasWeights(o) PROVE r[o] = FromHeirs(r, n, o)
    <2>1. FromHeirs(a, n, o) = FromHeirs(r, n, o) + FromHeirs(q, n, o)
      BY <1>2, FromHeirsPlus
    <2>2. FromHeirs(r, n, o) \in Int /\ FromHeirs(q, n, o) \in Int
      <3>1. FromHeirs(r, n, o) = FromHeirs(r, n, o) /\ FromHeirs(r, n, o) \in Int
        BY <1>2, FromHeirsSame
      <3>2. FromHeirs(q, n, o) = FromHeirs(q, n, o) /\ FromHeirs(q, n, o) \in Int
        BY <1>2, FromHeirsSame
      <3> QED
        BY <3>1, <3>2
    <2>3. a[o] = x[o] + FromHeirs(a, n, o) /\ q[o] = x[o] + FromHeirs(q, n, o) /\ x[o] \in Int
      BY <1>3
    <2> QED
      BY <1>2, <2>1, <2>2, <2>3
  <1>4. \A o \in LayersOf(n) : HasWeights(o) => r[o] = 0
    BY <1>3, ZeroFlow
  <1> QED
    BY <1>2, <1>4

\* What a sweep works with when its deltas held nothing.
FromLosses(a, n) ==
    \A l \in LayersOf(n) : HasWeights(l) =>
        /\ HasLoss(n, l) => a[l] = 1 + FromHeirs(a, n, l)
        /\ ~ HasLoss(n, l) => a[l] = FromHeirs(a, n, l)

LEMMA Paid ==
    ASSUME NetsThere, NetsApart, NEW n \in Net, NEW a \in [Layer -> Int], FromLosses(a, n),
           NEW g \in [Layer -> Nat], NEW g2, NEW D \in [Layer -> Nat], Owed(n, g, D),
           ~ Shared(Host(n).lout),
           \A l \in LayersOf(n) : HasWeights(l) => g2[l] = g[l] + a[l]
    PROVE  Settled(n, g2, D)
  <1>1. PICK q \in [Layer -> Int] : \A l \in LayersOf(n) : HasWeights(l) =>
            /\ HasLoss(n, l) => q[l] = 1 + FromHeirs(q, n, l)
            /\ ~ HasLoss(n, l) => q[l] = FromHeirs(q, n, l)
            /\ g[l] + q[l] = D[l]
    BY DEF Owed
  <1>2. PICK x : x = [l \in Layer |-> IF HasLoss(n, l) THEN 1 ELSE 0]
    OBVIOUS
  <1>3. \A l \in LayersOf(n) : l \in Layer
    BY NetThere
  <1>4. ASSUME NEW l \in LayersOf(n), HasWeights(l)
        PROVE  /\ x[l] \in Int
               /\ a[l] = x[l] + FromHeirs(a, n, l) /\ q[l] = x[l] + FromHeirs(q, n, l)
    <2>1. FromHeirs(a, n, l) \in Int /\ FromHeirs(q, n, l) \in Int
      <3>1. FromHeirs(a, n, l) = FromHeirs(a, n, l) /\ FromHeirs(a, n, l) \in Int
        BY <1>3, FromHeirsSame
      <3>2. FromHeirs(q, n, l) = FromHeirs(q, n, l) /\ FromHeirs(q, n, l) \in Int
        BY <1>3, FromHeirsSame
      <3> QED
        BY <3>1, <3>2
    <2>2. /\ HasLoss(n, l) => x[l] = 1 /\ a[l] = 1 + FromHeirs(a, n, l)
                                       /\ q[l] = 1 + FromHeirs(q, n, l)
          /\ ~ HasLoss(n, l) => x[l] = 0 /\ a[l] = FromHeirs(a, n, l)
                                         /\ q[l] = FromHeirs(q, n, l)
      BY <1>1, <1>2, <1>3, <1>4 DEF FromLosses
    <2> QED
      BY <2>1, <2>2
  <1>5. \A l \in LayersOf(n) : HasWeights(l) => a[l] = q[l]
    BY <1>4, OneSolution
  <1> QED
    BY <1>1, <1>5 DEF Settled

\* Deltas hold nothing that no loss writes.
LEMMA CleanStart ==
    ASSUME NetsThere, NetsApart, NEW n \in Net, NEW a \in [Layer -> Int],
           NEW c \in [Layer -> Nat],
           \A o \in LayersOf(n) : Flowing(n, o) /\ c[o] # 0 => HasLoss(n, o),
           \A o \in LayersOf(n) : Flowing(n, o) /\ HasLoss(n, o) => a[o] = 1 + FromHeirs(a, n, o),
           \A o \in LayersOf(n) : Flowing(n, o) /\ ~ HasLoss(n, o) =>
               a[o] = c[o] + FromHeirs(a, n, o)
    PROVE  FromLosses(a, n)
  <1>1. ASSUME NEW l \in LayersOf(n), HasWeights(l)
        PROVE  /\ HasLoss(n, l) => a[l] = 1 + FromHeirs(a, n, l)
               /\ ~ HasLoss(n, l) => a[l] = FromHeirs(a, n, l)
    <2>1. Flowing(n, l) /\ \A k \in LayersOf(n) : k \in Layer
      BY <1>1, WeightsFlow, NetThere
    <2>2. FromHeirs(a, n, l) = FromHeirs(a, n, l) /\ FromHeirs(a, n, l) \in Int
      BY <2>1, FromHeirsSame
    <2>3. ~ HasLoss(n, l) => c[l] = 0 /\ a[l] = c[l] + FromHeirs(a, n, l)
      BY <2>1
    <2> QED
      BY <2>1, <2>2, <2>3
  <1> QED
    BY <1>1 DEF FromLosses

\* One call with targets.
LEMMA TargetTurn ==
    ASSUME NetsThere, NetsApart, NEW n \in Net, NEW m \in Net, Targeted(todo, n),
           CleanIn(todo, content, used), content \in [Layer -> Nat], gradient \in [Layer -> Nat],
           due \in [Layer -> Nat], TodoShape(todo), todo \in Seq(Calling),
           NEW c2, NEW g2, Moves(n, c2, g2, FALSE),
           m = n => /\ ~ Shared(Host(n).lout) /\ ~ Spent(n, used)
                    /\ \E a \in [Layer -> Int] : Worked(a, n, c2, g2, FALSE),
           ExactFor(m, todo, content, used, link, detached, gradient, due)
    PROVE  Settled(m, g2, due)
  <1>1. CASE m = n
    <2>1. PICK a \in [Layer -> Int] : Worked(a, n, c2, g2, FALSE)
      BY <1>1
    <2>2. ~ Chained(todo, n)
      <3>1. todo # <<>> /\ Head(todo).call = "target"
        BY DEF Targeted
      <3>2. ~ AllChained(todo)
        <4>1. 1 \in DOMAIN todo /\ Head(todo) = todo[1]
          BY <3>1
        <4> QED
          BY <3>1, <4>1 DEF AllChained
      <3>3. PICK c \in Calling : todo = <<c>>
        BY <3>2 DEF TodoShape
      <3>4. c.call = "target" /\ DOMAIN todo = {1} /\ todo[1] = c
        BY <3>1, <3>3
      <3> QED
        BY <3>4 DEF Chained
    <2>3. \A o \in LayersOf(n) : Flowing(n, o) /\ content[o] # 0 => HasLoss(n, o)
      BY <1>1, <2>2 DEF CleanIn
    <2>4. FromLosses(a, n)
      BY <2>1, <2>3, CleanStart DEF Worked
    <2>5. Owed(n, gradient, due)
      BY <1>1 DEF ExactFor
    <2> QED
      BY <1>1, <2>1, <2>4, <2>5, Paid DEF Worked
  <1>2. CASE m # n
    <2>1. ~ Targeted(todo, m) /\ ~ GoesOn(todo)
      BY <1>2 DEF Targeted, GoesOn
    <2>2. Settled(m, gradient, due)
      BY <2>1 DEF ExactFor
    <2>3. \A l \in LayersOf(m) : g2[l] = gradient[l]
      <3>1. \A l \in LayersOf(m) : l \in Layer /\ l \notin LayersOf(n)
        BY <1>2, NetThere DEF NetsApart
      <3> QED
        BY <3>1 DEF Moves
    <2> QED
      BY <2>2, <2>3 DEF Settled
  <1> QED
    BY <1>1, <1>2

(* What is said of the graph stays true while the graph does.                *)


LEMMA SameGraph ==
    ASSUME UNCHANGED <<arch, nets>>
    PROVE  /\ Layer' = Layer /\ Edge' = Edge /\ Net' = Net /\ InNets' = InNets
           /\ \A n : Host(n)' = Host(n) /\ LayersOf(n)' = LayersOf(n) /\ Model(n)' = Model(n)
           /\ \A l : /\ IsInput(l)' <=> IsInput(l)
                     /\ IsView(l)' <=> IsView(l)
                     /\ HasWeights(l)' <=> HasWeights(l)
                     /\ Buffer(l)' = Buffer(l) /\ NetOf(l)' = NetOf(l)
           /\ \A e : Child(e)' = Child(e) /\ Parent(e)' = Parent(e) /\ CopyTo(e)' = CopyTo(e)
           /\ \A n, o : Flowing(n, o)' <=> Flowing(n, o)
           /\ \A n, o : HasLoss(n, o)' <=> HasLoss(n, o)
           /\ \A ls : Shared(ls)' <=> Shared(ls)
  <1>1. /\ Net' = Net /\ InNets' = InNets
        /\ \A n : Host(n)' = Host(n) /\ LayersOf(n)' = LayersOf(n) /\ Model(n)' = Model(n)
    BY SameNetsThere DEF Model
  <1>2. Layer' = Layer /\ Edge' = Edge
    BY DEF Layer, Edge
  <1>3. \A l : /\ IsInput(l)' <=> IsInput(l)
               /\ IsView(l)' <=> IsView(l)
               /\ HasWeights(l)' <=> HasWeights(l)
    BY DEF IsInput, IsView, HasWeights
  <1>4. \A l : Buffer(l)' = Buffer(l)
    BY DEF Buffer, IsView, Layer
  <1>5. \A l : NetOf(l)' = NetOf(l)
    BY <1>1 DEF NetOf
  <1>6. \A e : Child(e)' = Child(e) /\ Parent(e)' = Parent(e) /\ CopyTo(e)' = CopyTo(e)
    BY <1>1 DEF Child, Parent, CopyTo
  <1>7. \A n, o : Flowing(n, o)' <=> Flowing(n, o)
    BY <1>1, <1>3 DEF Flowing
  <1>8. \A n, o : HasLoss(n, o)' <=> HasLoss(n, o)
    BY <1>1, <1>4 DEF HasLoss, Lost
  <1>9. \A ls : Shared(ls)' <=> Shared(ls)
    BY <1>4 DEF Shared
  <1> QED
    BY <1>1, <1>2, <1>3, <1>4, <1>5, <1>6, <1>7, <1>8, <1>9

LEMMA SameFromHeirs ==
    ASSUME UNCHANGED <<arch, nets>>, NEW q, NEW n, NEW o
    PROVE  FromHeirs(q, n, o)' = FromHeirs(q, n, o)
  <1>1. HeirsOf(n, o)' = HeirsOf(n, o)
    BY SameGraph DEF HeirsOf
  <1>2. OfChild(q)' = OfChild(q)
    BY SameGraph DEF OfChild
  <1> QED
    BY <1>1, <1>2 DEF FromHeirs

LEMMA SameFromCopies ==
    ASSUME UNCHANGED <<arch, nets>>, NEW q, NEW o
    PROVE  FromCopies(q, link, detached, o)' = FromCopies(q, link', detached', o)
  <1>1. CopiesTo(link, detached, o)' = CopiesTo(link', detached', o)
    <2>1. Linking(link, detached)' = Linking(link', detached')
      BY SameGraph DEF Linking
    <2>2. \A c : Target(link, c)' = Target(link', c)
      BY SameGraph DEF Target
    <2> QED
      BY <2>1, <2>2 DEF CopiesTo
  <1>2. OfInput(q)' = OfInput(q)
    BY SameGraph DEF OfInput
  <1> QED
    BY <1>1, <1>2 DEF FromCopies

LEMMA SamePending ==
    ASSUME UNCHANGED <<arch, nets>>
    PROVE  Pending(todo, content)' = Pending(todo', content')
  <1>1. \A k, o : PendingAt(todo, content, k, o)' = PendingAt(todo', content', k, o)
    BY SameGraph DEF PendingAt, LossOn, Chained
  <1> QED
    BY <1>1, SameGraph DEF Pending

LEMMA SameClear ==
    ASSUME UNCHANGED <<arch, nets>>, NEW R, NEW m
    PROVE  Clear(R, m, todo, link, detached, used)' <=> Clear(R, m, todo', link', detached', used')
  <1>1. \A k : Spent(k, used)' <=> Spent(k, used')
    BY SameGraph DEF Spent
  <1>2. \A k : Shared(Host(k).lout)' <=> Shared(Host(k).lout)
    BY SameGraph DEF Shared
  <1>3. \A k : LossOn(todo, k)' <=> LossOn(todo', k)
    BY DEF LossOn
  <1>4. \A k : Bad(k, m, todo, link, used)' <=> Bad(k, m, todo', link', used')
    BY <1>1, <1>2, <1>3, SameGraph DEF Bad
  <1> QED
    BY <1>4, SameGraph DEF Clear

LEMMA SameExplained ==
    ASSUME UNCHANGED <<arch, nets>>, NEW R, NEW m
    PROVE  Explained(R, m, Pending(todo, content), link, detached, gradient, due)'
           <=> Explained(R, m, Pending(todo', content'), link', detached', gradient', due')
  <1>1. \A q : Within(q, R)' <=> Within(q, R)
    BY SameGraph DEF Within
  <1>2. \A q : Balanced(q, m, Pending(todo, content), link, detached)'
               <=> Balanced(q, m, Pending(todo', content'), link', detached')
    BY SameGraph, SameFromHeirs, SameFromCopies, SamePending DEF Balanced
  <1> QED
    BY <1>1, <1>2, SameGraph DEF Explained

LEMMA SameExactFor ==
    ASSUME UNCHANGED <<arch, nets>>, NEW m
    PROVE  ExactFor(m, todo, content, used, link, detached, gradient, due)'
           <=> ExactFor(m, todo', content', used', link', detached', gradient', due')
  <1>1. Settled(m, gradient, due)' <=> Settled(m, gradient', due')
    BY SameGraph DEF Settled
  <1>2. Owed(m, gradient, due)' <=> Owed(m, gradient', due')
    <2>1. Shared(Host(m).lout)' <=> Shared(Host(m).lout)
      BY SameGraph DEF Shared
    <2> QED
      BY <2>1, SameGraph, SameFromHeirs DEF Owed
  <1>3. AllExplained(m, todo, content, used, link, detached, gradient, due)'
        <=> AllExplained(m, todo', content', used', link', detached', gradient', due')
    BY SameClear, SameExplained DEF AllExplained
  <1>4. /\ Targeted(todo, m)' <=> Targeted(todo', m)
        /\ GoesOn(todo)' <=> GoesOn(todo')
    BY DEF Targeted, GoesOn
  <1> QED
    BY <1>1, <1>2, <1>3, <1>4 DEF ExactFor

LEMMA SameExactIn ==
    ASSUME UNCHANGED <<arch, nets>>
    PROVE  ExactIn(todo, content, used, link, detached, gradient, due, causes)'
           <=> ExactIn(todo', content', used', link', detached', gradient', due', causes')
  BY SameExactFor, SameGraph DEF ExactIn

LEMMA SameCleanIn ==
    ASSUME UNCHANGED <<arch, nets>>
    PROVE  CleanIn(todo, content, used)' <=> CleanIn(todo', content', used')
  <1>1. \A k : Spent(k, used)' <=> Spent(k, used')
    BY SameGraph DEF Spent
  <1>2. \A k : Chained(todo, k)' <=> Chained(todo', k)
    BY DEF Chained
  <1> QED
    BY <1>1, <1>2, SameGraph DEF CleanIn

\* Programs in which every net has layers of its own, and inputs without parents,
\* and loss graphs have a loss for each output.
Plain == /\ NetsApart
         /\ \A n \in Net : InputsFirst(n)
         /\ \A n \in Net : Model(n).isLoss => Len(Host(n).lout) <= Model(n).losses

LEMMA SamePlain ==
    ASSUME UNCHANGED <<arch, nets>>
    PROVE  Plain' <=> Plain
  <1>1. \A n : InputsFirst(n)' <=> InputsFirst(n)
    BY SameGraph DEF InputsFirst
  <1> QED
    BY <1>1, SameApart, SameGraph DEF Plain

(* What a step does to what is said of the gradients.                        *)

\* Where there is no cause a sweep goes well.
LEMMA NoSweepCause ==
    ASSUME NetsThere, NetsApart, NEW n \in Net, NEW st \in States, NEW u, NEW chained \in BOOLEAN,
           \A o \in LayersOf(n) : o \notin st.has => st.content[o] = 0,
           SweepCauses(st, n, u, chained) = {}
    PROVE  /\ Calm(st, n) /\ ~ Spent(n, u) /\ ~ Shared(Host(n).lout)
           /\ chained => ~ (Model(n).losses > 0)
  <1>1. ~ (Model(n).mem = 0 /\ u \cap LayersOf(n) # {})
    <2>1. "used before" \notin SweepCauses(st, n, u, chained)
      OBVIOUS
    <2> QED
      BY <2>1 DEF SweepCauses
  <1>2. ~ \E l \in LayersOf(n) \cap st.has : st.size[Buffer(l)] # st.batch[n]
    <2>1. "resized" \notin SweepCauses(st, n, u, chained)
      OBVIOUS
    <2> QED
      BY <2>1 DEF SweepCauses
  <1>3. ~ Shared(Host(n).lout)
    <2>1. "two outputs in one delta" \notin SweepCauses(st, n, u, chained)
      OBVIOUS
    <2> QED
      BY <2>1 DEF SweepCauses
  <1>4. ~ (chained /\ Model(n).losses > 0)
    <2>1. "own loss" \notin SweepCauses(st, n, u, chained)
      OBVIOUS
    <2> QED
      BY <2>1 DEF SweepCauses
  <1>5. Model(n).mem \in {0, 1}
    <2> DEFINE M == [in : Seq(DOMAIN arch.parent), out : Seq(DOMAIN arch.parent),
                     losses : Nat, mem : {0, 1}, isLoss : BOOLEAN,
                     feeds : Seq(DOMAIN arch.parent)]
    <2>1. arch.models \in Seq(M)
      BY ArchitectureAssumption DEF NetsThere
    <2>2. arch.models[n] \in M
      <3> HIDE DEF M
      <3> QED
        BY <2>1 DEF NetsThere
    <2> QED
      BY <2>2 DEF Model
  <1>6. ~ Spent(n, u)
    BY <1>1, <1>5 DEF Spent
  <1>7. Calm(st, n)
    <2>1. SUFFICES ASSUME NEW o \in LayersOf(n), ~ IsView(o), o \in st.has
                   PROVE  st.size[o] = st.batch[n]
      BY DEF Calm
    <2>2. Buffer(o) = o
      BY <2>1, NetThere, BufferFacts DEF NetsThere
    <2> QED
      BY <1>2, <2>1, <2>2
  <1> QED
    BY <1>3, <1>4, <1>6, <1>7

LEMMA NoChainCause ==
    ASSUME NEW n, ChainCauses(n) = {}
    PROVE  ChainFine(n)
  <1>1. ~ (netinput[n] # <<>> /\ Model(n).mem > 0)
    <2>1. "input delta zeroed" \notin ChainCauses(n)
      OBVIOUS
    <2> QED
      BY <2>1 DEF ChainCauses
  <1>2. netinput[n] = link[n]
    <2>1. "not its input" \notin ChainCauses(n)
      OBVIOUS
    <2> QED
      BY <2>1 DEF ChainCauses
  <1>3. ~ Shared(netinput[n]) /\ \A l \in Elements(netinput[n]) : content[Buffer(l)] = 0
    <2>1. "copied over" \notin ChainCauses(n)
      OBVIOUS
    <2> QED
      BY <2>1 DEF ChainCauses
  <1> QED
    BY <1>1, <1>2, <1>3 DEF ChainFine

ShapeInv == /\ Normal(has, content) /\ TodoShape(todo) /\ FedInv
            /\ DOMAIN causes = DOMAIN arch.models

\* What holds of a program whose nets are built.
Base == /\ NetsThere /\ EndsInv /\ SweepInv /\ LinkInv /\ MarksInv /\ ShapeInv /\ Plain
        /\ Backed(State) /\ due \in [Layer -> Nat] /\ CleanIn(todo, content, used)

ExactNow == ExactIn(todo, content, used, link, detached, gradient, due, causes)

LEMMA BaseFacts ==
    ASSUME Base
    PROVE  /\ NetsThere /\ NetsApart /\ EndsInv /\ SweepInv /\ ChainInv /\ LinkInv /\ FedInv
           /\ State \in States /\ todo \in Seq(Calling) /\ TodoShape(todo)
           /\ content \in [Layer -> Nat] /\ gradient \in [Layer -> Nat] /\ has \in SUBSET Layer
           /\ due \in [Layer -> Nat] /\ Normal(has, content) /\ Backed(State)
           /\ used \in SUBSET Layer
           /\ DOMAIN causes = DOMAIN arch.models /\ CleanIn(todo, content, used)
           /\ State.content = content /\ State.gradient = gradient /\ State.has = has
           /\ ~ State.broken
           /\ \A n \in Net : /\ InputsFirst(n)
                             /\ \A o \in LayersOf(n) : o \notin State.has => State.content[o] = 0
  <1>1. /\ NetsThere /\ EndsInv /\ SweepInv /\ LinkInv /\ ShapeInv /\ Plain /\ MarksInv
        /\ Backed(State) /\ due \in [Layer -> Nat] /\ CleanIn(todo, content, used)
    BY DEF Base
  <1>2. /\ NetsApart /\ FedInv /\ TodoShape(todo) /\ Normal(has, content)
        /\ DOMAIN causes = DOMAIN arch.models
        /\ used \in SUBSET Layer /\ \A n \in Net : InputsFirst(n)
    BY <1>1 DEF ShapeInv, Plain, MarksInv
  <1>3. State \in States /\ ChainInv /\ todo \in Seq(Calling)
    BY <1>1 DEF SweepInv
  <1>4. /\ State.content = content /\ State.gradient = gradient /\ State.has = has
        /\ ~ State.broken
    BY DEF State
  <1>5. content \in [Layer -> Nat] /\ gradient \in [Layer -> Nat] /\ has \in SUBSET Layer
    BY <1>3, <1>4, StateFields
  <1>6. ASSUME NEW n \in Net, NEW o \in LayersOf(n), o \notin State.has
        PROVE  State.content[o] = 0
    BY <1>1, <1>2, <1>4, <1>6, NetThere DEF Normal
  <1> QED
    BY <1>1, <1>2, <1>3, <1>4, <1>5, <1>6

LEMMA SweepStepExact ==
    ASSUME Base, ExactNow, NEW fill \in Fill, SweepStep(fill), phase' = "built",
           State' \in States
    PROVE  ExactIn(todo', content', used', link', detached', gradient', due', causes')
  <1>0. UNCHANGED <<arch, nets>> /\ phase = "built" /\ todo # <<>> /\ Sweep(fill)
    BY DEF SweepStep
  <1>a. /\ NetsThere /\ NetsApart /\ EndsInv /\ SweepInv /\ ChainInv /\ LinkInv /\ FedInv
        /\ State \in States /\ todo \in Seq(Calling) /\ TodoShape(todo)
        /\ content \in [Layer -> Nat] /\ gradient \in [Layer -> Nat]
        /\ due \in [Layer -> Nat] /\ Normal(has, content) /\ Backed(State)
        /\ DOMAIN causes = DOMAIN arch.models /\ CleanIn(todo, content, used)
        /\ \A n \in Net : /\ InputsFirst(n)
                          /\ \A o \in LayersOf(n) : o \notin State.has => State.content[o] = 0
    BY BaseFacts
  <1> DEFINE n == Head(todo).net
             goesOn == Head(todo).call # "target"
             swept == SweepOf(State, n, fill)
             copied == CopyDeltas(swept, n, fill)
             st == IF goesOn /\ ~ swept.broken THEN copied ELSE swept
             own == SweepCauses(State, n, used, Head(todo).call = "chain")
  <1>2. /\ Becomes(st)
        /\ phase' = IF st.broken THEN "crashed" ELSE phase
        /\ todo' = (IF goesOn THEN NextNets(n) ELSE <<>>) \o Tail(todo)
        /\ link' = IF goesOn THEN [link EXCEPT ![n] = <<>>] ELSE link
        /\ used' = used \cup LayersOf(n)
        /\ causes' = [m \in DOMAIN causes |->
               causes[m] \cup (IF m = n \/ (goesOn /\ m < n) THEN own ELSE {})
                         \cup (IF goesOn /\ m < n THEN ChainCauses(n) ELSE {})]
        /\ due' = due /\ detached' = detached
    BY <1>0 DEF Sweep, SweepOf
  <1>3. n \in Net /\ fill \in Nat /\ Head(todo) \in Calling
    <2>1. Head(todo) \in Calling
      BY <1>0, <1>a, TailFacts
    <2> QED
      BY <2>1, FillAssumption DEF Calling
  <1>4. n \in Nat /\ \A m \in Net : m \in Nat
    BY <1>a, <1>3, NetNumbers
  <1>5. (Head(todo).call = "chain") \in BOOLEAN
    OBVIOUS
  <1> HIDE DEF n, goesOn, swept, copied, own
  <1>6. ~ swept.broken /\ (goesOn => Becomes(copied)) /\ (~ goesOn => Becomes(swept))
    BY <1>0, <1>2
  <1>7. content' \in [Layer -> Nat] /\ gradient' \in [Layer -> Nat]
    BY <1>0, StateFields DEF State
  <1>8. ASSUME NEW m \in Net, causes'[m] = {}
        PROVE  /\ causes[m] = {} /\ (m = n \/ (goesOn /\ m < n) => own = {})
               /\ goesOn /\ m < n => ChainCauses(n) = {}
    <2>1. m \in DOMAIN causes
      BY <1>a, NetThere
    <2>2. causes'[m] = causes[m] \cup (IF m = n \/ (goesOn /\ m < n) THEN own ELSE {})
                         \cup (IF goesOn /\ m < n THEN ChainCauses(n) ELSE {})
      BY <1>2, <2>1
    <2> QED
      BY <1>8, <2>2
  <1>9. own = {} => /\ Calm(State, n) /\ ~ Spent(n, used) /\ ~ Shared(Host(n).lout)
                    /\ Head(todo).call = "chain" => ~ (Model(n).losses > 0)
    <2>1. SUFFICES ASSUME SweepCauses(State, n, used, Head(todo).call = "chain") = {}
                   PROVE  /\ Calm(State, n) /\ ~ Spent(n, used) /\ ~ Shared(Host(n).lout)
                          /\ Head(todo).call = "chain" => ~ (Model(n).losses > 0)
      BY DEF own
    <2> QED
      BY <1>a, <1>3, <1>5, <2>1, NoSweepCause
  <1>10. ASSUME goesOn, NEW m \in Net, causes'[m] = {}
         PROVE  ExactFor(m, todo', content', used', link', detached', gradient', due')
    <2>1. /\ Moves(n, content', gradient', TRUE)
          /\ Calm(State, n) => \E a \in [Layer -> Int] : Worked(a, n, content', gradient', TRUE)
      BY <1>a, <1>3, <1>6, <1>10, GoesOnMoves DEF swept, copied
    <2>2. todo' = NextNets(n) \o Tail(todo)
      BY <1>2, <1>10
    <2>3. Follows(todo', n)
      BY <1>0, <1>a, <1>3, <2>2, TodoFollows DEF n
    <2>4. Turn(n, todo', content', gradient')
      BY <1>0, <1>a, <1>3, <1>7, <1>10, <2>1, <2>3 DEF Turn, n, goesOn
    <2>5. link' = Without(link, n)
      BY <1>2, <1>10 DEF Without
    <2>6. ASSUME m <= n
          PROVE  /\ FineNow(n, m)
                 /\ \E a \in [Layer -> Int] : Worked(a, n, content', gradient', TRUE)
      <3>1. m = n \/ m < n
        BY <1>3, <1>4, <2>6
      <3>2. own = {} /\ (m < n => ChainCauses(n) = {})
        BY <1>8, <1>10, <3>1
      <3>3. m < n => ChainFine(n)
        BY <3>2, NoChainCause
      <3> QED
        BY <1>9, <2>1, <3>2, <3>3 DEF FineNow
    <2>7. AllExplained(m, todo, content, used, link, detached, gradient, due)
      <3>1. ExactFor(m, todo, content, used, link, detached, gradient, due)
        BY <1>8, <1>10 DEF ExactNow, ExactIn
      <3>2. GoesOn(todo)
        BY <1>0, <1>10 DEF goesOn, GoesOn
      <3> QED
        BY <3>1, <3>2 DEF ExactFor
    <2>8. ExactFor(m, todo', content', used \cup LayersOf(n), Without(link, n), detached,
                   gradient', due)
      BY <1>a, <1>7, <2>4, <2>6, <2>7, ChainTurn
    <2> QED
      BY <1>2, <2>5, <2>8
  <1>11. ASSUME ~ goesOn, NEW m \in Net, causes'[m] = {}
         PROVE  ExactFor(m, todo', content', used', link', detached', gradient', due')
    <2>1. /\ Moves(n, content', gradient', FALSE)
          /\ Calm(State, n) => \E a \in [Layer -> Int] : Worked(a, n, content', gradient', FALSE)
      BY <1>a, <1>3, <1>6, <1>11, OneMoves DEF swept
    <2>2. Targeted(todo, n)
      BY <1>0, <1>11 DEF goesOn, Targeted, n
    <2>3. m = n => /\ ~ Shared(Host(n).lout) /\ ~ Spent(n, used)
                   /\ \E a \in [Layer -> Int] : Worked(a, n, content', gradient', FALSE)
      BY <1>8, <1>9, <1>11, <2>1
    <2>4. ExactFor(m, todo, content, used, link, detached, gradient, due)
      BY <1>8, <1>11 DEF ExactNow, ExactIn
    <2>5. Settled(m, gradient', due)
      BY <1>a, <1>3, <2>1, <2>2, <2>3, <2>4, TargetTurn
    <2>6. todo' = <<>>
      <3>1. Head(todo).call # "chain"
        BY <2>2 DEF Targeted
      <3>2. Tail(todo) = <<>>
        BY <1>0, <1>a, <3>1, TailFacts
      <3> QED
        BY <1>2, <1>11, <3>2
    <2> QED
      BY <1>2, <2>5, <2>6 DEF ExactFor, Targeted, GoesOn
  <1> QED
    BY <1>10, <1>11 DEF ExactIn

(***************************************************************************)
(* What is due is what flows back: paths are counted layer by layer, deltas   *)
(* are added up where the memory is.                                        *)
(***************************************************************************)

LEMMA PathsAre ==
    ASSUME NetsThere, NetsApart, LinkInv, EndsInv, NEW R \in SUBSET Net, NEW n \in Net,
           NEW p, p = Paths(n, R)
    PROVE  /\ p \in [Layer -> Nat]
           /\ \A l \in Layer : p[l] = Cardinality(LossesOn(l, n)) + Total(EdgesOf(l, R), OfChild(p))
                                      + Total(CopiesOf(l, R), OfInput(p))
  <1>1. p \in [Layer -> Nat] /\ \A l \in Layer : p[l] = PathsAt(p, l, n, R)
    BY PathsThere
  <1>2. ASSUME NEW l \in Layer
        PROVE  p[l] = Cardinality(LossesOn(l, n)) + Total(EdgesOf(l, R), OfChild(p))
                                      + Total(CopiesOf(l, R), OfInput(p))
    <2>1. PICK es : es = EdgesOf(l, R)
      OBVIOUS
    <2>2. PICK cs : cs = CopiesOf(l, R)
      OBVIOUS
    <2>3. /\ IsFiniteSet(es) /\ IsFiniteSet(cs)
          /\ \A e \in es : Child(e) \in Layer
          /\ \A c \in cs : CopyTo(c) \in Layer
      BY <2>1, <2>2, PathsGoDown
    <2>4. /\ \A e \in es : p[Child(e)] \in Nat
          /\ \A c \in cs : p[CopyTo(c)] \in Nat
      BY <1>1, <2>3
    <2>5. EdgeSum(p, es) = Total(es, OfChild(p))
      <3>1. PICK f \in [SUBSET es -> Nat] :
                SumOf(f, es, [e \in es |-> p[Child(e)]]) /\ EdgeSum(p, es) = f[es]
        BY <2>3, <2>4, EdgeSumFacts
      <3>2. PICK F : F = [e \in es |-> p[Child(e)]]
        OBVIOUS
      <3>3. \A e \in es : F[e] \in Int /\ F[e] = OfChild(p)[e]
        <4>1. \A e \in es : e \in Edge
          BY <2>1 DEF EdgesOf
        <4> QED
          BY <2>4, <3>2, <4>1 DEF OfChild
      <3>4. f \in [SUBSET es -> Int] /\ SumOf(f, es, F)
        BY <3>1, <3>2
      <3>5. Total(es, F) = f[es]
        BY <2>3, <3>3, <3>4, TotalOf
      <3>6. Total(es, F) = Total(es, OfChild(p))
        BY <2>3, <3>3, TotalSame
      <3> QED
        BY <3>1, <3>5, <3>6
    <2>6. CopySum(p, cs) = Total(cs, OfInput(p))
      <3>1. PICK f \in [SUBSET cs -> Nat] :
                SumOf(f, cs, [c \in cs |-> p[CopyTo(c)]]) /\ CopySum(p, cs) = f[cs]
        BY <2>3, <2>4, CopySumFacts
      <3>2. PICK F : F = [c \in cs |-> p[CopyTo(c)]]
        OBVIOUS
      <3>3. \A c \in cs : F[c] \in Int /\ F[c] = OfInput(p)[c]
        <4>1. \A c \in cs : c \in Net \X Nat
          <5>1. SUFFICES ASSUME NEW c \in cs PROVE c \in Net \X Nat
            OBVIOUS
          <5>2. PICK k \in R : c \in {k} \X Sources(k)
            BY <2>2, <5>1 DEF CopiesOf
          <5>3. link[k] \in Seq(InNets)
            BY NetThere DEF LinkInv
          <5>4. Sources(k) \subseteq Nat
            BY <5>3 DEF Sources
          <5> QED
            BY <5>2, <5>4
        <4> QED
          BY <2>4, <3>2, <4>1 DEF OfInput
      <3>4. f \in [SUBSET cs -> Int] /\ SumOf(f, cs, F)
        BY <3>1, <3>2
      <3>5. Total(cs, F) = f[cs]
        BY <2>3, <3>3, <3>4, TotalOf
      <3>6. Total(cs, F) = Total(cs, OfInput(p))
        BY <2>3, <3>3, TotalSame
      <3> QED
        BY <3>1, <3>5, <3>6
    <2>7. p[l] = Cardinality(LossesOn(l, n)) + EdgeSum(p, es) + CopySum(p, cs)
      BY <1>1, <2>1, <2>2 DEF PathsAt
    <2> QED
      BY <2>1, <2>2, <2>5, <2>6, <2>7
  <1> QED
    BY <1>1, <1>2

\* Nothing leads from nets that the data did not go through.
LEMMA NoPathsOutside ==
    ASSUME NetsThere, NetsApart, LinkInv, EndsInv, NEW R \in SUBSET Net, NEW n \in R,
           NEW k \in Net, k \notin R, NEW l \in LayersOf(k)
    PROVE  Paths(n, R)[l] = 0
  <1>1. PICK p : p = Paths(n, R)
    OBVIOUS
  <1>2. l \in Layer /\ l \in InNets /\ NetOf(l) = k
    BY BufferThere
  <1>3. p[l] = Cardinality(LossesOn(l, n)) + Total(EdgesOf(l, R), OfChild(p))
                                      + Total(CopiesOf(l, R), OfInput(p))
    BY <1>1, <1>2, PathsAre
  <1>4. EdgesOf(l, R) = {}
    BY DEF EdgesOf, NetsApart
  <1>5. CopiesOf(l, R) = {}
    BY <1>2 DEF CopiesOf
  <1>6. LossesOn(l, n) = {}
    <2>1. SUFFICES ASSUME NEW i \in LossesOn(l, n) PROVE FALSE
      OBVIOUS
    <2>2. Host(n).lout \in Seq(Layer) /\ Model(n).losses \in Nat
      BY NetThere, LossesType DEF BuiltNet
    <2>3. i \in DOMAIN Host(n).lout /\ Host(n).lout[i] = l
      BY <2>1, <2>2 DEF LossesOn
    <2>4. l \in LayersOf(n)
      BY <2>3 DEF EndsInv, Elements
    <2> QED
      BY <2>4 DEF NetsApart
  <1>7. Cardinality(LossesOn(l, n)) = 0
    BY <1>6, FS_EmptySet
  <1>8. Total(EdgesOf(l, R), OfChild(p)) = 0 /\ Total(CopiesOf(l, R), OfInput(p)) = 0
    BY <1>4, <1>5, TotalEmpty
  <1> QED
    BY <1>1, <1>3, <1>7, <1>8

\* The layers of net m whose data is in the memory of layer o.
Sharing(m, o) == {l \in LayersOf(m) : Buffer(l) = o}

LEMMA SharingFacts ==
    ASSUME NetsThere, NetsApart, NEW m \in Net, NEW o \in LayersOf(m), ~ IsView(o)
    PROVE  /\ IsFiniteSet(Sharing(m, o)) /\ Sharing(m, o) \in SUBSET Layer
           /\ o \in Sharing(m, o)
           /\ \A v \in Sharing(m, o) \ {o} : IsView(v)
  <1>1. LayersOf(m) \in SUBSET Layer
    BY NetThere
  <1>2. IsFiniteSet(Layer)
    <2>1. Len(arch.parent) \in Nat /\ Layer = 1 .. Len(arch.parent)
      BY LayerFacts DEF NetsThere
    <2> QED
      BY <2>1, FS_Interval
  <1>3. Sharing(m, o) \in SUBSET Layer
    BY <1>1 DEF Sharing
  <1>4. IsFiniteSet(Sharing(m, o))
    BY <1>2, <1>3, FS_Subset
  <1>5. \A l \in LayersOf(m) : ~ IsView(l) => Buffer(l) = l
    BY <1>1, BufferFacts DEF NetsThere
  <1> QED
    BY <1>3, <1>4, <1>5 DEF Sharing

\* The edges of net m, and those from the layers that share a memory.
EdgesIn(m) == {e \in Edge : Parent(e) \in LayersOf(m) /\ Child(e) \in LayersOf(m)}
ViewEdges(m, o) == {e \in EdgesIn(m) : Parent(e) \in Sharing(m, o) /\ IsView(Child(e))}

LEMMA EdgeKinds ==
    ASSUME NetsThere, NetsApart, NEW m \in Net, NEW o \in LayersOf(m), ~ IsView(o)
    PROVE  /\ IsFiniteSet(EdgesIn(m)) /\ EdgesIn(m) \subseteq Edge
           /\ {e \in EdgesIn(m) : Parent(e) \in Sharing(m, o)} = HeirsOf(m, o) \cup ViewEdges(m, o)
           /\ HeirsOf(m, o) \cap ViewEdges(m, o) = {}
           /\ IsFiniteSet(HeirsOf(m, o)) /\ IsFiniteSet(ViewEdges(m, o))
           /\ \A e \in ViewEdges(m, o) : Child(e) \in Sharing(m, o) \ {o}
           /\ \A v \in Sharing(m, o) \ {o} :
                  <<v, 1>> \in ViewEdges(m, o) /\ {e \in ViewEdges(m, o) : Child(e) = v} = {<<v, 1>>}
  <1>1. IsFiniteSet(EdgesIn(m)) /\ EdgesIn(m) \subseteq Edge
    <2>1. EdgesIn(m) \subseteq Edge
      BY DEF EdgesIn
    <2> QED
      BY <2>1, EdgesAreFinite, FS_Subset DEF NetsThere
  <1>2. \A e \in Edge : /\ Child(e) \in Layer /\ Parent(e) \in Layer
                        /\ Parent(e) \in Elements(arch.parent[Child(e)]) /\ ~ IsInput(Child(e))
                        /\ e[2] \in DOMAIN arch.parent[Child(e)]
                        /\ Parent(e) = arch.parent[Child(e)][e[2]] /\ e = <<Child(e), e[2]>>
                        /\ Parent(e) < Child(e)
    <2>1. SUFFICES ASSUME NEW e \in Edge
          PROVE  /\ Child(e) \in Layer /\ Parent(e) \in Layer
                        /\ Parent(e) \in Elements(arch.parent[Child(e)]) /\ ~ IsInput(Child(e))
                        /\ e[2] \in DOMAIN arch.parent[Child(e)]
                        /\ Parent(e) = arch.parent[Child(e)][e[2]] /\ e = <<Child(e), e[2]>>
                        /\ Parent(e) < Child(e)
      OBVIOUS
    <2>2. PICK l \in Layer : e \in {l} \X DOMAIN arch.parent[l]
      BY DEF Edge
    <2>3. e[1] = l /\ e[2] \in DOMAIN arch.parent[l] /\ e = <<l, e[2]>>
      BY <2>2
    <2>4. Child(e) \in Layer /\ Parent(e) \in Layer /\ Parent(e) < Child(e)
      BY EdgeFacts DEF NetsThere
    <2>5. arch.parent[l] # <<>>
      <3>1. arch.parent[l] \in Seq(Nat)
        BY LayerFacts DEF NetsThere
      <3> QED
        BY <2>3, <3>1
    <2> QED
      BY <2>3, <2>4, <2>5 DEF Child, Parent, Elements, IsInput
  <1>3. \A e \in Edge : Child(e) \in LayersOf(m) => Parent(e) \in LayersOf(m)
    BY <1>2 DEF NetsApart
  <1>4. \A e \in HeirsOf(m, o) : e \in EdgesIn(m) /\ Parent(e) \in Sharing(m, o)
    BY <1>3 DEF HeirsOf, EdgesIn, Sharing
  <1>5. {e \in EdgesIn(m) : Parent(e) \in Sharing(m, o)} = HeirsOf(m, o) \cup ViewEdges(m, o)
    <2>1. ASSUME NEW e \in EdgesIn(m), Parent(e) \in Sharing(m, o), ~ IsView(Child(e))
          PROVE  e \in HeirsOf(m, o)
      BY <1>1, <1>2, <2>1 DEF HeirsOf, EdgesIn, Sharing, HasWeights
    <2> QED
      BY <1>4, <2>1 DEF ViewEdges
  <1>6. HeirsOf(m, o) \cap ViewEdges(m, o) = {}
    BY DEF HeirsOf, ViewEdges, HasWeights
  <1>7. IsFiniteSet(HeirsOf(m, o)) /\ IsFiniteSet(ViewEdges(m, o))
    <2>1. HeirsOf(m, o) \subseteq EdgesIn(m) /\ ViewEdges(m, o) \subseteq EdgesIn(m)
      BY <1>4 DEF ViewEdges
    <2> QED
      BY <1>1, <2>1, FS_Subset
  <1>8. \A v \in arch.views : v \in Layer /\ DOMAIN arch.parent[v] = {1}
    <2>1. SUFFICES ASSUME NEW v \in arch.views PROVE v \in Layer /\ DOMAIN arch.parent[v] = {1}
      OBVIOUS
    <2>2. v \in Layer /\ Len(arch.parent[v]) = 1
      BY BackpropAssumption DEF NetsThere, Layer
    <2>3. arch.parent[v] \in Seq(Nat)
      BY <2>2, LayerFacts DEF NetsThere
    <2> QED
      BY <2>2, <2>3
  <1>9. \A v \in arch.views : Buffer(v) = Buffer(arch.parent[v][1])
    BY <1>8, BufferFacts DEF NetsThere, IsView
  <1>10. ASSUME NEW e \in ViewEdges(m, o)
         PROVE  Child(e) \in Sharing(m, o) \ {o} /\ e = <<Child(e), 1>>
    <2>1. /\ e \in Edge /\ Parent(e) \in Sharing(m, o) /\ Child(e) \in LayersOf(m)
          /\ Child(e) \in arch.views
      BY <1>1 DEF ViewEdges, EdgesIn, IsView
    <2>2. e[2] = 1 /\ e = <<Child(e), 1>> /\ Parent(e) = arch.parent[Child(e)][1]
      BY <1>2, <1>8, <2>1
    <2>3. Buffer(Child(e)) = o
      BY <1>9, <2>1, <2>2 DEF Sharing
    <2>4. Child(e) # o
      BY <2>1 DEF IsView
    <2> QED
      BY <2>1, <2>2, <2>3, <2>4 DEF Sharing
  <1>11. ASSUME NEW v \in Sharing(m, o) \ {o}
         PROVE  /\ <<v, 1>> \in ViewEdges(m, o) /\ Child(<<v, 1>>) = v
    <2>1. v \in LayersOf(m) /\ Buffer(v) = o /\ v \in arch.views
      BY SharingFacts DEF Sharing, IsView
    <2>2. <<v, 1>> \in Edge /\ Child(<<v, 1>>) = v /\ Parent(<<v, 1>>) = arch.parent[v][1]
      BY <1>8, <2>1 DEF Edge, Child, Parent
    <2>3. Parent(<<v, 1>>) \in LayersOf(m)
      BY <1>3, <2>1, <2>2
    <2>4. Buffer(Parent(<<v, 1>>)) = o
      BY <1>9, <2>1, <2>2
    <2> QED
      BY <2>1, <2>2, <2>3, <2>4 DEF ViewEdges, EdgesIn, Sharing, IsView
  <1> QED
    BY <1>1, <1>5, <1>6, <1>7, <1>10, <1>11

LEMMA ViewsShare ==
    ASSUME NetsThere, NetsApart, NEW m \in Net, NEW o \in LayersOf(m), ~ IsView(o),
           NEW p \in [Layer -> Int]
    PROVE  Total(ViewEdges(m, o), OfChild(p)) = Total(Sharing(m, o) \ {o}, p)
  <1> DEFINE V == ViewEdges(m, o)
             T == Sharing(m, o) \ {o}
             at == [e \in Edge |-> Child(e)]
  <1>1. /\ IsFiniteSet(V) /\ V \subseteq Edge
        /\ \A e \in V : Child(e) \in T
        /\ \A v \in T : <<v, 1>> \in V /\ {e \in V : Child(e) = v} = {<<v, 1>>}
    <2>1. /\ EdgesIn(m) \subseteq Edge /\ IsFiniteSet(ViewEdges(m, o))
          /\ \A e \in ViewEdges(m, o) : Child(e) \in Sharing(m, o) \ {o}
          /\ \A v \in Sharing(m, o) \ {o} :
                 <<v, 1>> \in ViewEdges(m, o) /\ {e \in ViewEdges(m, o) : Child(e) = v} = {<<v, 1>>}
      BY EdgeKinds
    <2>2. ViewEdges(m, o) \subseteq EdgesIn(m)
      BY DEF ViewEdges
    <2> QED
      BY <2>1, <2>2
  <1>2. IsFiniteSet(T) /\ \A v \in T : v \in Layer
    <2>1. IsFiniteSet(Sharing(m, o)) /\ Sharing(m, o) \in SUBSET Layer
      BY SharingFacts
    <2> QED
      BY <2>1, FS_Subset
  <1> HIDE DEF V, T
  <1>3. \A e \in V : at[e] = Child(e) /\ OfChild(p)[e] = p[Child(e)] /\ OfChild(p)[e] \in Int
    BY <1>1, <1>2 DEF OfChild
  <1> HIDE DEF at
  <1>4. ASSUME NEW v \in T PROVE p[v] = Total(PartOf(V, at, v), OfChild(p))
    <2>1. PartOf(V, at, v) = {<<v, 1>>}
      BY <1>1, <1>3 DEF PartOf
    <2>2. PICK e \in V : e = <<v, 1>> /\ Child(e) = v
      BY <1>1
    <2>3. OfChild(p)[e] = p[v] /\ OfChild(p)[e] \in Int
      BY <1>3, <2>2
    <2>4. Total({e}, OfChild(p)) = OfChild(p)[e]
      BY <2>3, TotalOne
    <2> QED
      BY <2>1, <2>2, <2>3, <2>4
  <1>5. PartsOf(V, at, T) = V
    BY <1>1, <1>3 DEF PartsOf
  <1>6. Total(T, p) = Total(PartsOf(V, at, T), OfChild(p))
    BY <1>1, <1>2, <1>3, <1>4, TotalByParts
  <1> QED
    BY <1>5, <1>6 DEF V, T

LEMMA EdgesShare ==
    ASSUME NetsThere, NetsApart, NEW R \in SUBSET Net, NEW m \in R, NEW o \in LayersOf(m),
           ~ IsView(o), NEW p \in [Layer -> Int], NEW P,
           \A l \in Layer : P[l] = Total(EdgesOf(l, R), OfChild(p))
    PROVE  Total(Sharing(m, o), P) = FromHeirs(p, m, o) + Total(Sharing(m, o) \ {o}, p)
  <1> DEFINE A == EdgesIn(m)
             T == Sharing(m, o)
             at == [e \in Edge |-> Parent(e)]
             H == HeirsOf(m, o)
             V == ViewEdges(m, o)
  <1>1. /\ IsFiniteSet(A) /\ A \subseteq Edge
        /\ {e \in A : Parent(e) \in T} = H \cup V /\ H \cap V = {}
        /\ IsFiniteSet(H) /\ IsFiniteSet(V)
    BY EdgeKinds
  <1>2. IsFiniteSet(T) /\ \A l \in T : l \in Layer /\ l \in LayersOf(m)
    BY SharingFacts DEF Sharing
  <1>3. \A e \in A : Child(e) \in LayersOf(m) /\ Parent(e) \in LayersOf(m) /\ Child(e) \in Layer
    BY NetThere DEF EdgesIn
  <1>4. ASSUME NEW l \in T PROVE EdgesOf(l, R) = {e \in A : Parent(e) = l}
    BY <1>1, <1>2 DEF EdgesOf, NetsApart, EdgesIn
  <1> HIDE DEF A, T, H, V
  <1>5. \A e \in A : at[e] = Parent(e) /\ OfChild(p)[e] = p[Child(e)] /\ OfChild(p)[e] \in Int
    BY <1>1, <1>3 DEF OfChild
  <1> HIDE DEF at
  <1>6. \A l \in T : P[l] = Total(PartOf(A, at, l), OfChild(p))
    <2>1. SUFFICES ASSUME NEW l \in T PROVE P[l] = Total(PartOf(A, at, l), OfChild(p))
      OBVIOUS
    <2>2. PartOf(A, at, l) = EdgesOf(l, R)
      BY <1>4, <1>5 DEF PartOf
    <2> QED
      BY <1>2, <2>2
  <1>7. PartsOf(A, at, T) = H \cup V
    BY <1>1, <1>5 DEF PartsOf
  <1>8. Total(T, P) = Total(PartsOf(A, at, T), OfChild(p))
    BY <1>1, <1>2, <1>5, <1>6, TotalByParts
  <1>9. Total(H \cup V, OfChild(p)) = Total(H, OfChild(p)) + Total(V, OfChild(p))
    <2>1. \A e \in H \cup V : OfChild(p)[e] \in Int
      BY <1>1, <1>5
    <2> QED
      BY <1>1, <2>1, TotalBoth
  <1>10. Total(V, OfChild(p)) = Total(T \ {o}, p)
    BY ViewsShare DEF V, T
  <1> QED
    BY <1>7, <1>8, <1>9, <1>10 DEF T, H, FromHeirs

\* The inputs of nets in R that get the delta of layer o.
CopiesWithin(R, o) == {c \in CopiesTo(link, detached, o) : c[1] \in R}

LEMMA CopiesShare ==
    ASSUME NetsThere, NetsApart, LinkInv, EndsInv, NEW R \in SUBSET Net, NEW m \in R,
           NEW o \in LayersOf(m), ~ IsView(o), NEW p \in [Layer -> Int], NEW P,
           \A l \in Layer : P[l] = Total(CopiesOf(l, R), OfInput(p))
    PROVE  Total(Sharing(m, o), P) = Total(CopiesWithin(R, o), OfInput(p))
  <1> DEFINE A == {c \in Linking(link, detached) : c[1] \in R}
             T == Sharing(m, o)
             at == [c \in Net \X Nat |-> link[c[1]][c[2]]]
  <1>1. Linked(link)
    BY DEF LinkInv, Linked
  <1>2. IsFiniteSet(A)
    <2>1. IsFiniteSet(Linking(link, detached))
      BY <1>1, LinkingIsFinite
    <2> QED
      BY <2>1, FS_Subset
  <1>3. ASSUME NEW c \in Linking(link, detached)
        PROVE  /\ c \in Net \X Nat /\ CopyTo(c) \in Layer
               /\ link[c[1]][c[2]] \in LayersOf(m) <=> Target(link, c) \in LayersOf(m)
    <2>1. /\ c \in Net \X Nat /\ c[1] \in Net /\ CopyTo(c) \in LayersOf(c[1])
          /\ \A k \in Net : link[c[1]][c[2]] \in LayersOf(k) <=> Target(link, c) \in LayersOf(k)
      BY <1>1, LinkingFacts
    <2> QED
      BY <2>1, NetThere
  <1>4. \A c \in A : at[c] = link[c[1]][c[2]] /\ OfInput(p)[c] \in Int
    BY <1>3 DEF OfInput
  <1>5. IsFiniteSet(T) /\ \A l \in T : l \in Layer /\ l \in LayersOf(m)
    BY SharingFacts DEF Sharing
  <1>6. ASSUME NEW l \in T PROVE CopiesOf(l, R) = {c \in A : link[c[1]][c[2]] = l}
    <2>1. NetOf(l) = m
      BY <1>5, NetOfApart
    <2>2. ASSUME NEW c \in CopiesOf(l, R) PROVE c \in A /\ link[c[1]][c[2]] = l
      <3>1. PICK k \in R : c \in {k} \X Sources(k)
        BY DEF CopiesOf
      <3>2. c[1] = k /\ c[2] \in Sources(k) /\ link[c[1]][c[2]] = l
        BY <3>1 DEF CopiesOf
      <3>3. c \in Linking(link, detached)
        BY <3>1 DEF Linking, Sources
      <3> QED
        BY <3>2, <3>3
    <2>3. ASSUME NEW c \in A, link[c[1]][c[2]] = l PROVE c \in CopiesOf(l, R)
      <3>1. PICK k \in Net : c \in {k} \X {i \in DOMAIN link[k] : link[k][i] \notin detached}
        BY DEF Linking
      <3>2. c[1] = k /\ k \in R
        BY <3>1
      <3>3. c \in {k} \X Sources(k)
        BY <3>1 DEF Sources
      <3> QED
        BY <2>1, <2>3, <3>2, <3>3 DEF CopiesOf
    <2> HIDE DEF A
    <2> QED
      BY <2>2, <2>3 DEF CopiesOf
  <1>7. PartsOf(A, at, T) = CopiesWithin(R, o)
    <2>1. \A c \in A : c \in Linking(link, detached) /\ (at[c] \in T <=> Target(link, c) = o)
      BY <1>3, <1>4 DEF Sharing, Target
    <2>2. \A c \in Linking(link, detached) : c \in A <=> c[1] \in R
      OBVIOUS
    <2> HIDE DEF A, at, T
    <2>3. \A c : c \in PartsOf(A, at, T) <=> c \in A /\ at[c] \in T
      BY DEF PartsOf
    <2>4. \A c : c \in CopiesWithin(R, o) <=>
              c \in Linking(link, detached) /\ Target(link, c) = o /\ c[1] \in R
      BY DEF CopiesWithin, CopiesTo
    <2>5. \A c : c \in PartsOf(A, at, T) <=> c \in CopiesWithin(R, o)
      BY <2>1, <2>2, <2>3, <2>4
    <2> QED
      BY <2>5
  <1>8. \A l \in T : P[l] = Total(PartOf(A, at, l), OfInput(p))
    <2>1. SUFFICES ASSUME NEW l \in T PROVE P[l] = Total(PartOf(A, at, l), OfInput(p))
      OBVIOUS
    <2>2. CopiesOf(l, R) = {c \in A : link[c[1]][c[2]] = l}
      BY <1>6
    <2> HIDE DEF A, at
    <2>3. PartOf(A, at, l) = CopiesOf(l, R)
      BY <1>4, <2>2 DEF PartOf
    <2> QED
      BY <1>5, <2>3
  <1> HIDE DEF A, at, T
  <1>9. Total(T, P) = Total(PartsOf(A, at, T), OfInput(p))
    BY <1>2, <1>4, <1>5, <1>8, TotalByParts
  <1> QED
    BY <1>7, <1>9 DEF T

LEMMA LossesShare ==
    ASSUME NetsThere, NetsApart, EndsInv, NEW n \in Net, NEW m \in Net, NEW o \in LayersOf(m),
           ~ IsView(o), ~ Shared(Host(n).lout), NEW P,
           \A l \in Layer : P[l] = Cardinality(LossesOn(l, n))
    PROVE  /\ m = n /\ HasLoss(n, o) => Total(Sharing(m, o), P) = 1
           /\ ~ (m = n /\ HasLoss(n, o)) => Total(Sharing(m, o), P) = 0
  <1> DEFINE T == Sharing(m, o)
  <1>1. IsFiniteSet(T) /\ \A l \in T : l \in Layer /\ l \in LayersOf(m) /\ Buffer(l) = o
    BY SharingFacts DEF Sharing
  <1>2. \A l \in LayersOf(m) : Buffer(l) = o => l \in T
    BY DEF Sharing
  <1> HIDE DEF T
  <1>3. Host(n).lout \in Seq(Layer) /\ Model(n).losses \in Nat
    BY NetThere, LossesType DEF BuiltNet
  <1>4. ASSUME NEW l, NEW i \in LossesOn(l, n)
        PROVE  /\ i \in DOMAIN Host(n).lout /\ i \in 1 .. Len(Host(n).lout)
               /\ i <= Model(n).losses /\ Host(n).lout[i] = l
               /\ l \in LayersOf(n)
    <2>1. i \in DOMAIN Host(n).lout /\ i \in 1 .. Len(Host(n).lout)
          /\ i <= Model(n).losses /\ Host(n).lout[i] = l
      BY <1>3 DEF LossesOn
    <2> QED
      BY <2>1 DEF EndsInv, Elements
  <1>5. ASSUME ~ (m = n /\ HasLoss(n, o)) PROVE Total(T, P) = 0
    <2>1. ASSUME NEW l \in T PROVE P[l] = 0
      <3>1. LossesOn(l, n) = {}
        <4>1. SUFFICES ASSUME NEW i \in LossesOn(l, n) PROVE FALSE
          OBVIOUS
        <4>2. l \in LayersOf(n) /\ l \in LayersOf(m)
          BY <1>1, <1>4, <4>1
        <4>3. m = n
          BY <4>2 DEF NetsApart
        <4>4. HasLoss(n, o)
          BY <1>1, <1>4, <4>1 DEF HasLoss, Lost
        <4> QED
          BY <1>5, <4>3, <4>4
      <3>2. Cardinality(LossesOn(l, n)) = 0
        BY <3>1, FS_EmptySet
      <3> QED
        BY <1>1, <3>2
    <2> QED
      BY <1>1, <2>1, TotalZero
  <1>6. ASSUME m = n, HasLoss(n, o) PROVE Total(T, P) = 1
    <2>1. PICK i \in 1 .. Len(Host(n).lout) : i <= Model(n).losses /\ Buffer(Host(n).lout[i]) = o
      BY <1>6 DEF HasLoss, Lost
    <2>2. PICK l : l = Host(n).lout[i]
      OBVIOUS
    <2>3. l \in T
      <3>1. i \in DOMAIN Host(n).lout
        BY <1>3
      <3>2. l \in LayersOf(n)
        BY <2>2, <3>1 DEF EndsInv, Elements
      <3> QED
        BY <1>2, <1>6, <2>1, <2>2, <3>2
    <2>4. LossesOn(l, n) = {i}
      <3>1. i \in LossesOn(l, n)
        BY <1>3, <2>1, <2>2 DEF LossesOn
      <3>2. ASSUME NEW j \in LossesOn(l, n) PROVE j = i
        <4>1. j \in DOMAIN Host(n).lout /\ Host(n).lout[j] = l /\ i \in DOMAIN Host(n).lout
          BY <1>3, <1>4
        <4> QED
          BY <2>2, <4>1 DEF Shared
      <3> QED
        BY <3>1, <3>2
    <2>5. P[l] = 1
      BY <1>1, <2>3, <2>4, FS_Singleton
    <2>6. ASSUME NEW k \in T \ {l} PROVE P[k] = 0
      <3>1. LossesOn(k, n) = {}
        <4>1. SUFFICES ASSUME NEW j \in LossesOn(k, n) PROVE FALSE
          OBVIOUS
        <4>2. j \in DOMAIN Host(n).lout /\ Host(n).lout[j] = k /\ i \in DOMAIN Host(n).lout
          BY <1>3, <1>4
        <4>3. Buffer(k) = o /\ k # l
          BY <1>1
        <4>4. j # i
          BY <2>2, <4>2, <4>3
        <4> QED
          BY <2>1, <4>2, <4>3, <4>4 DEF Shared
      <3>2. Cardinality(LossesOn(k, n)) = 0
        BY <3>1, FS_EmptySet
      <3> QED
        BY <1>1, <3>2
    <2>7. \A k \in T : P[k] \in Int
      BY <2>5, <2>6
    <2>8. Total(T, P) = P[l] + Total(T \ {l}, P)
      BY <1>1, <2>3, <2>7, TotalLess
    <2>9. Total(T \ {l}, P) = 0
      <3>1. IsFiniteSet(T \ {l})
        BY <1>1, FS_Subset
      <3> QED
        BY <2>6, <3>1, TotalZero
    <2> QED
      BY <2>5, <2>8, <2>9
  <1> QED
    BY <1>5, <1>6 DEF T

\* The paths from the layer where a memory is: one for its loss, those of the
\* layers after it that have weights, and those of the inputs it is copied to.
LEMMA PathsFlow ==
    ASSUME NetsThere, NetsApart, LinkInv, EndsInv, NEW R \in SUBSET Net, NEW n \in Net,
           ~ Shared(Host(n).lout), NEW m \in R, NEW o \in LayersOf(m), ~ IsView(o),
           NEW p, p = Paths(n, R)
    PROVE  /\ Total(CopiesWithin(R, o), OfInput(p)) \in Int /\ FromHeirs(p, m, o) \in Int
           /\ m = n /\ HasLoss(n, o) =>
                  p[o] = 1 + FromHeirs(p, m, o) + Total(CopiesWithin(R, o), OfInput(p))
           /\ ~ (m = n /\ HasLoss(n, o)) =>
                  p[o] = FromHeirs(p, m, o) + Total(CopiesWithin(R, o), OfInput(p))
  <1> DEFINE T == Sharing(m, o)
             P1 == [l \in Layer |-> Cardinality(LossesOn(l, n))]
             P2 == [l \in Layer |-> Total(EdgesOf(l, R), OfChild(p))]
             P3 == [l \in Layer |-> Total(CopiesOf(l, R), OfInput(p))]
             P4 == [l \in Layer |-> P1[l] + P2[l]]
  <1>1. /\ p \in [Layer -> Nat]
        /\ \A l \in Layer : p[l] = Cardinality(LossesOn(l, n)) + Total(EdgesOf(l, R), OfChild(p))
                                      + Total(CopiesOf(l, R), OfInput(p))
    BY PathsAre
  <1>2. p \in [Layer -> Int]
    BY <1>1
  <1>3. IsFiniteSet(T) /\ T \in SUBSET Layer /\ o \in T
    BY SharingFacts
  <1> HIDE DEF T
  <1>4. ASSUME NEW l \in Layer
        PROVE  /\ Cardinality(LossesOn(l, n)) \in Int /\ Total(EdgesOf(l, R), OfChild(p)) \in Int
               /\ Total(CopiesOf(l, R), OfInput(p)) \in Int
    <2>1. /\ IsFiniteSet(EdgesOf(l, R)) /\ IsFiniteSet(CopiesOf(l, R))
          /\ \A e \in EdgesOf(l, R) : Child(e) \in Layer
      BY PathsGoDown
    <2>2. \A e \in EdgesOf(l, R) : OfChild(p)[e] \in Int /\ OfChild(p)[e] = OfChild(p)[e]
      BY <1>2, <2>1 DEF OfChild, EdgesOf
    <2>3. \A c \in CopiesOf(l, R) : OfInput(p)[c] \in Int /\ OfInput(p)[c] = OfInput(p)[c]
      <3>1. SUFFICES ASSUME NEW c \in CopiesOf(l, R) PROVE OfInput(p)[c] \in Int
        OBVIOUS
      <3>2. PICK k \in R : c \in {k} \X Sources(k)
        BY <3>1 DEF CopiesOf
      <3>3. link[k] \in Seq(InNets) /\ k \in Net
        BY NetThere DEF LinkInv
      <3>4. Sources(k) \subseteq Nat
        BY <3>3 DEF Sources
      <3>5. c \in Net \X Nat
        BY <3>2, <3>3, <3>4
      <3>6. CopyTo(c) \in Layer
        BY PathsGoDown
      <3> QED
        BY <1>2, <3>5, <3>6 DEF OfInput
    <2>4. Total(EdgesOf(l, R), OfChild(p)) \in Int
      <3>1. Total(EdgesOf(l, R), OfChild(p)) = Total(EdgesOf(l, R), OfChild(p))
            /\ Total(EdgesOf(l, R), OfChild(p)) \in Int
        BY <2>1, <2>2, TotalSame
      <3> QED
        BY <3>1
    <2>5. Total(CopiesOf(l, R), OfInput(p)) \in Int
      <3>1. Total(CopiesOf(l, R), OfInput(p)) = Total(CopiesOf(l, R), OfInput(p))
            /\ Total(CopiesOf(l, R), OfInput(p)) \in Int
        BY <2>1, <2>3, TotalSame
      <3> QED
        BY <3>1
    <2> QED
      BY <2>4, <2>5, LossesCounted
  <1>5. \A l \in Layer : P1[l] = Cardinality(LossesOn(l, n))
    OBVIOUS
  <1>6. \A l \in Layer : P2[l] = Total(EdgesOf(l, R), OfChild(p))
    OBVIOUS
  <1>7. \A l \in Layer : P3[l] = Total(CopiesOf(l, R), OfInput(p))
    OBVIOUS
  <1>8. \A l \in Layer : P4[l] = P1[l] + P2[l]
    OBVIOUS
  <1> HIDE DEF P1, P2, P3, P4
  <1>9. \A l \in T : /\ P1[l] \in Int /\ P2[l] \in Int /\ P3[l] \in Int /\ P4[l] \in Int
                     /\ P4[l] = P1[l] + P2[l] /\ p[l] = P4[l] + P3[l]
    <2>1. SUFFICES ASSUME NEW l \in T
                   PROVE  /\ P1[l] \in Int /\ P2[l] \in Int /\ P3[l] \in Int /\ P4[l] \in Int
                          /\ P4[l] = P1[l] + P2[l] /\ p[l] = P4[l] + P3[l]
      OBVIOUS
    <2>2. l \in Layer
      BY <1>3
    <2>3. P1[l] \in Int /\ P2[l] \in Int /\ P3[l] \in Int
      BY <1>4, <1>5, <1>6, <1>7, <2>2
    <2>4. p[l] = P1[l] + P2[l] + P3[l]
      BY <1>1, <1>5, <1>6, <1>7, <2>2
    <2> QED
      BY <1>8, <2>2, <2>3, <2>4
  <1>10. Total(T, p) = Total(T, P4) + Total(T, P3)
    BY <1>3, <1>9, TotalPlus
  <1>11. Total(T, P4) = Total(T, P1) + Total(T, P2)
    BY <1>3, <1>9, TotalPlus
  <1>12. Total(T, P2) = FromHeirs(p, m, o) + Total(T \ {o}, p)
    BY <1>2, <1>6, EdgesShare DEF T
  <1>13. Total(T, P3) = Total(CopiesWithin(R, o), OfInput(p))
    BY <1>2, <1>7, CopiesShare DEF T
  <1>14. /\ m = n /\ HasLoss(n, o) => Total(T, P1) = 1
         /\ ~ (m = n /\ HasLoss(n, o)) => Total(T, P1) = 0
    BY <1>5, LossesShare DEF T
  <1>15. /\ Total(T, p) = p[o] + Total(T \ {o}, p)
         /\ Total(T, p) \in Int /\ Total(T \ {o}, p) \in Int
    <2>1. \A l \in T : p[l] \in Int
      BY <1>2, <1>3
    <2> QED
      BY <1>3, <2>1, TotalLess
  <1>16. FromHeirs(p, m, o) \in Int
    <2>1. \A l \in LayersOf(m) : p[l] \in Int /\ p[l] = p[l]
      BY <1>2, NetThere
    <2>2. FromHeirs(p, m, o) = FromHeirs(p, m, o) /\ FromHeirs(p, m, o) \in Int
      BY <2>1, FromHeirsSame
    <2> QED
      BY <2>2
  <1>17. Total(CopiesWithin(R, o), OfInput(p)) \in Int
    <2>1. \A l \in T : P3[l] \in Int /\ P3[l] = P3[l]
      BY <1>9
    <2>2. Total(T, P3) = Total(T, P3) /\ Total(T, P3) \in Int
      BY <1>3, <2>1, TotalSame
    <2> QED
      BY <1>13, <2>2
  <1>18. p[o] \in Int
    BY <1>2, <1>3
  <1> QED
    BY <1>10, <1>11, <1>12, <1>13, <1>14, <1>15, <1>16, <1>17, <1>18

(* What a call of backward() makes due.                                      *)

LEMMA NothingGoesBack ==
    ASSUME NetsThere, NetsApart, LinkInv, EndsInv, NEW n \in Net, NEW o \in LayersOf(n)
    PROVE  CopiesWithin({n}, o) = {}
  <1>1. Linked(link)
    BY DEF LinkInv, Linked
  <1>2. SUFFICES ASSUME NEW c \in CopiesTo(link, detached, o), c[1] = n PROVE FALSE
    BY DEF CopiesWithin
  <1>3. c[1] # n
    BY <1>1, CopiesThere
  <1> QED
    BY <1>2, <1>3

LEMMA DueThen ==
    ASSUME NetsThere, NetsApart, LinkInv, EndsInv, NEW R \in SUBSET Net, NEW n \in R,
           NEW D \in [Layer -> Nat]
    PROVE  /\ MoreDue(D, n, R) \in [Layer -> Nat]
           /\ \A l \in Layer : HasWeights(l) => MoreDue(D, n, R)[l] = D[l] + Paths(n, R)[l]
           /\ \A m \in Net \ R : \A l \in LayersOf(m) : MoreDue(D, n, R)[l] = D[l]
  <1>1. PICK p \in [Layer -> Nat] : p = Paths(n, R)
    BY PathsType
  <1>2. \A l \in Layer : MoreDue(D, n, R)[l] = D[l] + IF HasWeights(l) THEN p[l] ELSE 0
    BY <1>1 DEF MoreDue
  <1>3. ASSUME NEW m \in Net \ R, NEW l \in LayersOf(m) PROVE MoreDue(D, n, R)[l] = D[l]
    <2>1. l \in Layer /\ p[l] = 0
      BY <1>1, NoPathsOutside, NetThere
    <2>2. D[l] \in Nat
      BY <2>1
    <2> QED
      BY <1>2, <2>1, <2>2
  <1> QED
    BY <1>1, <1>2, <1>3, MoreDueType

LEMMA BackwardOwes ==
    ASSUME NetsThere, NetsApart, LinkInv, EndsInv, NEW n \in Net, NEW g \in [Layer -> Nat],
           NEW D \in [Layer -> Nat], Settled(n, g, D)
    PROVE  Owed(n, g, MoreDue(D, n, {n}))
  <1>1. PICK p \in [Layer -> Nat] : p = Paths(n, {n})
    BY PathsType
  <1>2. SUFFICES ASSUME ~ Shared(Host(n).lout)
                 PROVE  \E q \in [Layer -> Int] : \A l \in LayersOf(n) : HasWeights(l) =>
                            /\ HasLoss(n, l) => q[l] = 1 + FromHeirs(q, n, l)
                            /\ ~ HasLoss(n, l) => q[l] = FromHeirs(q, n, l)
                            /\ g[l] + q[l] = MoreDue(D, n, {n})[l]
    BY DEF Owed
  <1>3. ASSUME NEW l \in LayersOf(n), HasWeights(l)
        PROVE  /\ HasLoss(n, l) => p[l] = 1 + FromHeirs(p, n, l)
               /\ ~ HasLoss(n, l) => p[l] = FromHeirs(p, n, l)
               /\ g[l] + p[l] = MoreDue(D, n, {n})[l]
    <2>1. ~ IsView(l) /\ l \in Layer
      BY <1>3, NetThere DEF HasWeights
    <2>2. PICK R \in SUBSET Net : R = {n}
      OBVIOUS
    <2>3. n \in R /\ p = Paths(n, R)
      BY <1>1, <2>2
    <2>4. /\ Total(CopiesWithin(R, l), OfInput(p)) \in Int /\ FromHeirs(p, n, l) \in Int
          /\ n = n /\ HasLoss(n, l) =>
                 p[l] = 1 + FromHeirs(p, n, l) + Total(CopiesWithin(R, l), OfInput(p))
          /\ ~ (n = n /\ HasLoss(n, l)) =>
                 p[l] = FromHeirs(p, n, l) + Total(CopiesWithin(R, l), OfInput(p))
      BY <1>2, <2>1, <2>3, PathsFlow
    <2>5. Total(CopiesWithin(R, l), OfInput(p)) = 0
      BY <2>2, NothingGoesBack, TotalEmpty
    <2>6. MoreDue(D, n, R)[l] = D[l] + p[l]
      BY <1>3, <2>1, <2>3, DueThen
    <2>7. g[l] = D[l] /\ g[l] \in Nat
      BY <1>3, <2>1 DEF Settled
    <2> QED
      BY <2>2, <2>4, <2>5, <2>6, <2>7
  <1>4. p \in [Layer -> Int]
    BY <1>1
  <1> QED
    BY <1>3, <1>4

\* The call with targets.
LEMMA BackwardStarts ==
    ASSUME NetsThere, NetsApart, LinkInv, EndsInv, NEW n \in Net, NEW m \in Net,
           gradient \in [Layer -> Nat], due \in [Layer -> Nat], Settled(m, gradient, due)
    PROVE  ExactFor(m, <<[net |-> n, call |-> "target"]>>, content, used, link, detached,
                    gradient, MoreDue(due, n, {n}))
  <1> DEFINE td == <<[net |-> n, call |-> "target"]>>
  <1>1. td # <<>> /\ Head(td).call = "target" /\ Head(td).net = n
    OBVIOUS
  <1> HIDE DEF td
  <1>2. ~ GoesOn(td) /\ (Targeted(td, m) <=> m = n)
    BY <1>1 DEF GoesOn, Targeted
  <1>3. CASE m = n
    BY <1>2, <1>3, BackwardOwes DEF ExactFor, td
  <1>4. CASE m # n
    <2>1. Settled(m, gradient, MoreDue(due, n, {n}))
      <3>1. PICK R \in SUBSET Net : R = {n}
        OBVIOUS
      <3>2. n \in R /\ m \in Net \ R
        BY <1>4, <3>1
      <3>3. \A l \in LayersOf(m) : MoreDue(due, n, R)[l] = due[l]
        BY ZenonT(30), <3>2, DueThen
      <3> QED
        BY <3>1, <3>3 DEF Settled
    <2> QED
      BY <1>2, <1>4, <2>1 DEF ExactFor, td
  <1> QED
    BY <1>3, <1>4

(***************************************************************************)
(* What a call of optimize() makes due is what its sweeps will add.          *)
(***************************************************************************)

\* Net n, and with every net of S those it went on from.
Whole(S, n) ==
    /\ n \in S
    /\ \A k \in S : \A i \in Sources(k) :
           \A m \in 1 .. n : link[k][i] \in LayersOf(m) => m \in S

LEMMA UpstreamFacts ==
    ASSUME NetsThere, NEW n \in Net
    PROVE  /\ Upstream(n) \in SUBSET Net /\ n \in Upstream(n)
           /\ \A k \in Upstream(n) : k <= n
           /\ Whole(Upstream(n), n)
           /\ \A S \in SUBSET (1 .. n) : Whole(S, n) => Upstream(n) \subseteq S
  <1>1. Upstream(n) = {m \in 1 .. n : \A S \in SUBSET (1 .. n) : Whole(S, n) => m \in S}
    BY DEF Upstream, Whole
  <1>2. n \in Nat /\ n \in 1 .. n
    <2>1. n \in 1 .. Len(nets) /\ Len(nets) \in Nat
      BY NetNumbers
    <2> QED
      BY <2>1
  <1>3. \A S \in SUBSET (1 .. n) : Whole(S, n) => Upstream(n) \subseteq S
    BY <1>1
  <1>4. n \in Upstream(n)
    BY <1>1, <1>2 DEF Whole
  <1>5. ASSUME NEW k \in Upstream(n), NEW i \in Sources(k), NEW m \in 1 .. n,
               link[k][i] \in LayersOf(m)
        PROVE  m \in Upstream(n)
    <2>1. SUFFICES ASSUME NEW S \in SUBSET (1 .. n), Whole(S, n) PROVE m \in S
      BY <1>1
    <2>2. k \in S
      BY <1>3, <2>1
    <2> QED
      BY <1>5, <2>1, <2>2 DEF Whole
  <1>6. Whole(Upstream(n), n)
    BY <1>4, <1>5 DEF Whole
  <1>7. \A k \in Upstream(n) : k \in 1 .. n
    BY <1>1
  <1>8. \A k \in Upstream(n) : k <= n
    BY <1>2, <1>7
  <1> QED
    BY <1>3, <1>4, <1>6, <1>8, UpstreamNets

\* All that is clear for net m takes in the nets from m on that are due.
LEMMA ClearUpstream ==
    ASSUME NetsThere, NetsApart, LinkInv, EndsInv, NEW n \in Net, NEW m \in Net, NEW R,
           NEW td, 1 \in DOMAIN td, td[1].net = n, Clear(R, m, td, link, detached, used)
    PROVE  \A k \in Upstream(n) : m <= k => k \in R
  <1> DEFINE S == {j \in 1 .. n : j < m \/ j \in R}
  <1>1. m \in Nat /\ n \in Nat /\ n \in 1 .. n /\ \A k \in 1 .. n : k \in Net /\ k \in Nat
    <2>1. n \in 1 .. Len(nets) /\ m \in 1 .. Len(nets) /\ Len(nets) \in Nat
          /\ Net = 1 .. Len(nets)
      BY NetNumbers
    <2> QED
      BY <2>1
  <1>2. n \in S
    <2>1. m <= n => n \in R
      BY DEF Clear
    <2> QED
      BY <1>1, <2>1
  <1>3. ASSUME NEW k \in S, NEW i \in Sources(k), NEW j \in 1 .. n, link[k][i] \in LayersOf(j)
        PROVE  j \in S
    <2>1. SUFFICES ASSUME m <= j PROVE j \in R
      BY <1>1
    <2>2. i \in DOMAIN link[k] /\ link[k][i] \notin detached
      BY <1>3 DEF Sources
    <2>3. k \in Net /\ j \in Net
      BY <1>1
    <2>4. j < k
      <3>1. k \in DOMAIN arch.models
        BY <2>3, NetThere
      <3>2. link[k] # <<>>
        BY <2>2
      <3>3. link[k][i] \in Elements(Model(k).feeds)
        BY <2>2, <3>1, <3>2 DEF LinkInv, Elements
      <3> QED
        BY <1>3, <2>3, <3>3 DEF NetsApart
    <2>5. k \in R
      BY <1>1, <2>1, <2>4
    <2> QED
      BY <1>3, <2>1, <2>2, <2>3, <2>5 DEF Clear
  <1>4. Whole(S, n)
    BY <1>2, <1>3 DEF Whole
  <1>5. S \in SUBSET (1 .. n)
    OBVIOUS
  <1> HIDE DEF S
  <1>6. Upstream(n) \subseteq S
    BY <1>4, <1>5, UpstreamFacts
  <1>7. ASSUME NEW k \in Upstream(n), m <= k PROVE k \in R
    <2>1. k \in S
      BY <1>6
    <2> QED
      BY <1>1, <1>7, <2>1 DEF S
  <1> QED
    BY <1>7

\* What the calls that optimize() starts will find or add.
Owing(p, n, m) == [o \in Layer |->
    IF \E k \in Upstream(n) : m <= k /\ o \in LayersOf(k) /\ Flowing(k, o) THEN p[o] ELSE 0]

LEMMA OwingFacts ==
    ASSUME NetsThere, NetsApart, NEW n \in Net, NEW m \in Net, NEW p \in [Layer -> Nat]
    PROVE  /\ Owing(p, n, m) \in [Layer -> Int]
           /\ \A k \in Net : \A o \in LayersOf(k) :
                  /\ k \in Upstream(n) /\ m <= k /\ Flowing(k, o) => Owing(p, n, m)[o] = p[o]
                  /\ ~ (k \in Upstream(n) /\ m <= k /\ Flowing(k, o)) => Owing(p, n, m)[o] = 0
  <1>1. Owing(p, n, m) \in [Layer -> Int]
    BY DEF Owing
  <1>2. ASSUME NEW k \in Net, NEW o \in LayersOf(k)
        PROVE  /\ k \in Upstream(n) /\ m <= k /\ Flowing(k, o) => Owing(p, n, m)[o] = p[o]
               /\ ~ (k \in Upstream(n) /\ m <= k /\ Flowing(k, o)) => Owing(p, n, m)[o] = 0
    <2>1. o \in Layer
      BY NetThere
    <2>2. ASSUME NEW j \in Upstream(n), o \in LayersOf(j) PROVE j = k
      <3>1. j \in Net
        BY UpstreamNets
      <3> QED
        BY <2>2, <3>1 DEF NetsApart
    <2> QED
      BY <2>1, <2>2 DEF Owing
  <1> QED
    BY <1>1, <1>2

LEMMA OwingCopies ==
    ASSUME NetsThere, NetsApart, LinkInv, EndsInv, \A j \in Net : InputsFirst(j),
           NEW n \in Net, NEW m \in Net, NEW p \in [Layer -> Nat], NEW R, NEW td,
           1 \in DOMAIN td, td[1].net = n, Clear(R, m, td, link, detached, used),
           NEW k \in Net, m <= k, NEW o \in LayersOf(k)
    PROVE  /\ k \in Upstream(n) => FromCopies(Owing(p, n, m), link, detached, o)
                                     = Total(CopiesWithin(Upstream(n), o), OfInput(p))
           /\ k \notin Upstream(n) => FromCopies(Owing(p, n, m), link, detached, o) = 0
  <1> DEFINE U == Upstream(n)
             q == Owing(p, n, m)
             S == CopiesTo(link, detached, o)
             A == CopiesWithin(U, o)
             B == S \ A
             F == OfInput(q)
             G == OfInput(p)
  <1>1. Linked(link)
    BY DEF LinkInv, Linked
  <1>2. IsFiniteSet(S) /\ IsFiniteSet(A) /\ IsFiniteSet(B) /\ A \subseteq S
        /\ S = A \cup B /\ A \cap B = {}
    <2>1. IsFiniteSet(S)
      BY <1>1, LinkingIsFinite, FS_Subset DEF CopiesTo
    <2>2. A \subseteq S /\ B \subseteq S
      BY DEF CopiesWithin
    <2> QED
      BY <2>1, <2>2, FS_Subset
  <1>3. q \in [Layer -> Int]
    BY OwingFacts
  <1>4. U \in SUBSET Net
    BY UpstreamNets
  <1>5. ASSUME NEW c \in S
        PROVE  /\ c \in Net \X Nat /\ c[1] \in Net /\ m < c[1] /\ m <= c[1] /\ k <= c[1]
               /\ CopyTo(c) \in LayersOf(c[1]) /\ CopyTo(c) \in Layer
               /\ F[c] = q[CopyTo(c)] /\ G[c] = p[CopyTo(c)]
    <2>1. /\ c[1] \in Net /\ CopyTo(c) \in LayersOf(c[1]) /\ CopyTo(c) \in Layer
          /\ c \in Linking(link, detached) /\ k < c[1]
      BY <1>1, CopiesThere
    <2>2. c \in Net \X Nat
      BY <1>1, <2>1, LinkingFacts
    <2>3. m \in Nat /\ k \in Nat /\ c[1] \in Nat
      BY <2>1, NetNumbers
    <2>4. m < c[1] /\ m <= c[1] /\ k <= c[1]
      BY <2>1, <2>3
    <2> QED
      BY <2>1, <2>2, <2>4 DEF OfInput
  <1>6. ASSUME NEW c \in A PROVE Flowing(c[1], CopyTo(c)) /\ c[1] \in U
    <2>1. c \in S /\ c[1] \in U
      BY DEF CopiesWithin
    <2>2. c \in Linking(link, detached)
      BY <2>1 DEF CopiesTo
    <2>3. c[2] \in DOMAIN link[c[1]] /\ c[2] \in DOMAIN Host(c[1]).lin /\ c[1] \in Net
      BY <1>1, <2>2, LinkingFacts
    <2>4. link[c[1]] # <<>>
      BY <2>3
    <2>5. c[1] \in R
      BY <1>5, <2>1, ClearUpstream
    <2>6. ~ Bad(c[1], m, td, link, used)
      BY <2>5 DEF Clear
    <2>7. ~ (Model(c[1]).mem > 0)
      BY <1>5, <2>1, <2>4, <2>6 DEF Bad
    <2>8. IsInput(CopyTo(c))
      BY <2>3 DEF InputsFirst, CopyTo
    <2>9. ~ IsView(CopyTo(c))
      BY <1>5, <2>1, <2>8, InputsNoViews, LayerFacts DEF NetsThere
    <2> QED
      BY <2>1, <2>7, <2>9 DEF Flowing
  <1>7. \A c \in A : F[c] \in Int /\ F[c] = G[c]
    <2>1. SUFFICES ASSUME NEW c \in A PROVE F[c] \in Int /\ F[c] = G[c]
      OBVIOUS
    <2>2. c \in S
      BY <1>2
    <2>3. q[CopyTo(c)] = p[CopyTo(c)] /\ p[CopyTo(c)] \in Int
      BY <1>5, <1>6, <2>2, OwingFacts
    <2> QED
      BY <1>5, <2>2, <2>3
  <1>8. \A c \in B : F[c] = 0
    <2>1. SUFFICES ASSUME NEW c \in B PROVE F[c] = 0
      OBVIOUS
    <2>2. c \in S /\ c[1] \notin U
      BY DEF CopiesWithin
    <2>3. q[CopyTo(c)] = 0
      BY <1>5, <2>2, OwingFacts
    <2> QED
      BY <1>5, <2>2, <2>3
  <1>9. k \notin U => A = {}
    <2>1. SUFFICES ASSUME NEW c \in A PROVE k \in U
      OBVIOUS
    <2>2. c \in S /\ c[1] \in U
      BY DEF CopiesWithin
    <2>3. c \in Linking(link, detached) /\ Target(link, c) = o
      BY <2>2 DEF CopiesTo
    <2>4. /\ c[2] \in DOMAIN link[c[1]] /\ link[c[1]][c[2]] \notin detached
          /\ link[c[1]][c[2]] \in LayersOf(k)
      BY <1>1, <2>3, LinkingFacts
    <2>5. c[2] \in Sources(c[1])
      BY <2>4 DEF Sources
    <2>6. k \in 1 .. n
      <3>1. k <= c[1] /\ c[1] <= n
        BY <1>5, <2>2, UpstreamFacts
      <3>2. k \in 1 .. Len(nets) /\ n \in Nat /\ c[1] \in Nat /\ Len(nets) \in Nat
        BY <1>5, <2>2, NetNumbers
      <3> QED
        BY <3>1, <3>2
    <2>7. Whole(U, n)
      BY UpstreamFacts
    <2> QED
      BY <2>2, <2>4, <2>5, <2>6, <2>7 DEF Whole
  <1> HIDE DEF A, B, F, G, S, q, U
  <1>10. Total(S, F) = Total(A, F) + Total(B, F) /\ Total(B, F) = 0
         /\ Total(A, F) = Total(A, G) /\ Total(A, F) \in Int
    <2>1. Total(A, F) = Total(A, G) /\ Total(A, F) \in Int
      BY <1>2, <1>7, TotalSame
    <2>2. Total(B, F) = 0
      BY <1>2, <1>8, TotalZero
    <2>3. \A c \in A \cup B : F[c] \in Int
      BY <1>7, <1>8
    <2>4. Total(A \cup B, F) = Total(A, F) + Total(B, F)
      BY <1>2, <2>3, TotalBoth
    <2> QED
      BY <1>2, <2>1, <2>2, <2>4
  <1>11. Total(S, F) = Total(A, G)
    BY <1>10
  <1>12. k \notin U => Total(A, G) = 0
    BY <1>9, TotalEmpty
  <1>13. FromCopies(q, link, detached, o) = Total(S, F)
    BY DEF FromCopies, S, F
  <1> QED
    BY <1>11, <1>12, <1>13 DEF A, G, q, U

LEMMA OwingBalanced ==
    ASSUME NetsThere, NetsApart, LinkInv, EndsInv, \A j \in Net : InputsFirst(j),
           NEW n \in Net, NEW m \in Net, NEW p, p = Paths(n, Upstream(n)), NEW R, NEW td,
           td = <<[net |-> n, call |-> "loss"]>>, Clear(R, m, td, link, detached, used),
           content \in [Layer -> Nat]
    PROVE  /\ Within(Owing(p, n, m), R)
           /\ Balanced(Owing(p, n, m), m, Pending(td, content), link, detached)
  <1> DEFINE U == Upstream(n)
             q == Owing(p, n, m)
             x == Pending(td, content)
  <1>1. U \in SUBSET Net
    BY UpstreamNets
  <1>2. p \in [Layer -> Nat]
    BY <1>1, PathsType
  <1>3. 1 \in DOMAIN td /\ td[1].net = n /\ td # <<>> /\ Head(td).net = n
        /\ Head(td).call = "loss" /\ DOMAIN td = {1} /\ td[1].call = "loss"
    OBVIOUS
  <1>4. \A k : (LossOn(td, k) <=> k = n) /\ ~ Chained(td, k)
    BY <1>3 DEF LossOn, Chained
  <1>5. \A k \in U : m <= k => k \in R
    BY <1>3, ClearUpstream
  <1>6. ASSUME NEW k \in Net, NEW o \in LayersOf(k), k \notin R \/ ~ Flowing(k, o)
        PROVE  q[o] = 0
    BY <1>2, <1>5, <1>6, OwingFacts
  <1>7. ASSUME NEW k \in Net, m <= k, NEW o \in LayersOf(k), Flowing(k, o)
        PROVE  q[o] = x[o] + FromHeirs(q, k, o) + FromCopies(q, link, detached, o)
    <2>1. /\ LossOn(td, k) /\ HasLoss(k, o) => x[o] = 1
          /\ LossOn(td, k) /\ ~ HasLoss(k, o) => x[o] = 0
          /\ ~ LossOn(td, k) /\ ~ Chained(td, k) => x[o] = 0
      BY PendingFacts
    <2>2. CASE k \in U
      <3>1. ~ Shared(Host(n).lout)
        <4>1. m <= n
          <5>1. m \in Nat /\ k \in Nat /\ n \in Nat /\ m <= k /\ k <= n
            BY <1>7, <2>2, NetNumbers, UpstreamFacts
          <5> QED
            BY <5>1
        <4>2. n \in R
          BY <1>5, <4>1, UpstreamFacts
        <4> QED
          BY <4>2 DEF Clear, Bad
      <3>2. ~ IsView(o)
        BY <1>7 DEF Flowing
      <3>3. /\ Total(CopiesWithin(U, o), OfInput(p)) \in Int /\ FromHeirs(p, k, o) \in Int
            /\ k = n /\ HasLoss(n, o) =>
                  p[o] = 1 + FromHeirs(p, k, o) + Total(CopiesWithin(U, o), OfInput(p))
            /\ ~ (k = n /\ HasLoss(n, o)) =>
                  p[o] = FromHeirs(p, k, o) + Total(CopiesWithin(U, o), OfInput(p))
        BY <1>1, <2>2, <3>1, <3>2, PathsFlow
      <3>4. q[o] = p[o]
        BY <1>2, <1>7, <2>2, OwingFacts
      <3>5. FromHeirs(p, k, o) = FromHeirs(q, k, o)
        <4>1. \A l \in LayersOf(k) : HasWeights(l) => p[l] \in Int /\ p[l] = q[l]
          <5>1. SUFFICES ASSUME NEW l \in LayersOf(k), HasWeights(l)
                         PROVE  p[l] \in Int /\ p[l] = q[l]
            OBVIOUS
          <5>2. l \in Layer /\ Flowing(k, l)
            BY <5>1, WeightsFlow, NetThere
          <5> QED
            BY <1>2, <1>7, <2>2, <5>2, OwingFacts
        <4> QED
          BY <4>1, FromHeirsSame
      <3>6. FromCopies(q, link, detached, o) = Total(CopiesWithin(U, o), OfInput(p))
        BY <1>2, <1>3, <1>7, <2>2, OwingCopies
      <3>7. (k = n /\ HasLoss(n, o) => x[o] = 1) /\ (~ (k = n /\ HasLoss(n, o)) => x[o] = 0)
        BY <1>4, <2>1
      <3> HIDE DEF U, q, x
      <3> QED
        BY <3>3, <3>4, <3>5, <3>6, <3>7
    <2>3. CASE k \notin U
      <3>1. q[o] = 0
        BY <1>2, <2>3, OwingFacts
      <3>2. FromHeirs(q, k, o) = 0
        <4>1. \A l \in LayersOf(k) : q[l] = 0
          BY <1>2, <2>3, OwingFacts
        <4> QED
          BY <4>1, FromHeirsZero
      <3>3. FromCopies(q, link, detached, o) = 0
        BY <1>2, <1>3, <1>7, <2>3, OwingCopies
      <3>4. x[o] = 0
        <4>1. k # n
          BY <2>3, UpstreamFacts
        <4> QED
          BY <1>4, <2>1, <4>1
      <3> QED
        BY <3>1, <3>2, <3>3, <3>4
    <2> QED
      BY <2>2, <2>3
  <1> QED
    BY <1>6, <1>7 DEF Within, Balanced

\* The call of a loss graph's optimize().
LEMMA OptimizeStarts ==
    ASSUME NetsThere, NetsApart, LinkInv, EndsInv, \A j \in Net : InputsFirst(j),
           NEW n \in Net, NEW m \in Net, content \in [Layer -> Nat],
           gradient \in [Layer -> Nat], due \in [Layer -> Nat], Settled(m, gradient, due)
    PROVE  ExactFor(m, <<[net |-> n, call |-> "loss"]>>, content, used, link, detached,
                    gradient, MoreDue(due, n, Upstream(n)))
  <1> DEFINE td == <<[net |-> n, call |-> "loss"]>>
             U == Upstream(n)
             D == MoreDue(due, n, U)
  <1>1. PICK p : p = Paths(n, U)
    OBVIOUS
  <1>2. U \in SUBSET Net /\ n \in U
    BY UpstreamFacts
  <1>3. p \in [Layer -> Nat]
    BY <1>1, <1>2, PathsType
  <1>4. /\ \A l \in Layer : HasWeights(l) => D[l] = due[l] + p[l]
        /\ \A k \in Net \ U : \A l \in LayersOf(k) : D[l] = due[l]
    BY <1>1, <1>2, DueThen
  <1>5. ~ Targeted(td, m) /\ GoesOn(td)
    BY DEF Targeted, GoesOn
  <1> HIDE DEF D
  <1>6. ASSUME NEW R, Clear(R, m, td, link, detached, used)
        PROVE  Explained(R, m, Pending(td, content), link, detached, gradient, D)
    <2>1. PICK q : q = Owing(p, n, m)
      OBVIOUS
    <2>2. Within(q, R) /\ Balanced(q, m, Pending(td, content), link, detached)
      BY <1>1, <1>6, <2>1, OwingBalanced
    <2>3. q \in [Layer -> Int]
      BY <1>3, <2>1, OwingFacts
    <2>4. ASSUME NEW l \in LayersOf(m), HasWeights(l) PROVE gradient[l] + q[l] = D[l]
      <3>1. l \in Layer /\ Flowing(m, l)
        BY <2>4, WeightsFlow, NetThere
      <3>2. gradient[l] = due[l] /\ gradient[l] \in Nat /\ due[l] \in Nat /\ p[l] \in Nat
        BY <1>3, <2>4, <3>1 DEF Settled
      <3>3. m \in U => q[l] = p[l]
        <4>1. m \in Nat
          BY NetNumbers
        <4>2. m <= m
          BY <4>1
        <4> QED
          BY <1>3, <2>1, <3>1, <4>2, OwingFacts
      <3>4. m \notin U => q[l] = 0
        BY <1>3, <2>1, OwingFacts
      <3>5. D[l] = due[l] + p[l]
        BY <1>4, <2>4, <3>1
      <3>6. m \notin U => D[l] = due[l]
        BY <1>4
      <3> QED
        BY <3>2, <3>3, <3>4, <3>5, <3>6
    <2> QED
      BY <2>2, <2>3, <2>4 DEF Explained
  <1>7. AllExplained(m, td, content, used, link, detached, gradient, D)
    BY <1>6 DEF AllExplained
  <1> QED
    BY <1>5, <1>7 DEF ExactFor, D

(***************************************************************************)
(* What resets leave in the deltas.                                          *)
(***************************************************************************)

\* Deltas have been zeroed, but nothing else has changed in them.
Less(t, s) ==
    /\ t \in States /\ t.has = s.has /\ t.gradient = s.gradient
    /\ \A l \in Layer : t.content[l] \in {0, s.content[l]}

EmptyIn(t, n) == \A o \in LayersOf(n) : ~ IsView(o) => t.content[o] = 0

\* With the full memory all deltas of net n have been zeroed.
Wiped(t, n) == ~ (Model(n).mem > 0) => EmptyIn(t, n)

LEMMA LessAgain ==
    ASSUME NEW r, NEW s, NEW t, Less(s, r), Less(t, s), r.content \in [Layer -> Nat]
    PROVE  Less(t, r)
  BY DEF Less

LEMMA LessWiped ==
    ASSUME NetsThere, NEW s, NEW t, Less(t, s), NEW n \in Net, Wiped(s, n)
    PROVE  Wiped(t, n)
  <1>1. LayersOf(n) \subseteq Layer
    BY NetThere
  <1> QED
    BY <1>1 DEF Less, Wiped, EmptyIn

LEMMA LessNormal ==
    ASSUME NEW s, NEW t, Less(t, s), Normal(s.has, s.content)
    PROVE  Normal(t.has, t.content)
  BY DEF Less, Normal

LEMMA ResetWipes ==
    ASSUME NetsThere, NEW n \in Net, NEW st \in States, Normal(st.has, st.content)
    PROVE  Less(Reset(st, n), st) /\ Wiped(Reset(st, n), n)
  <1>0. st.content \in [Layer -> Nat] /\ LayersOf(n) \subseteq Layer
    BY StateFields, NetThere
  <1>1. CASE Model(n).mem > 0
    <2>1. Reset(st, n) = st
      BY <1>1 DEF Reset
    <2> QED
      BY <1>0, <1>1, <2>1 DEF Less, Wiped
  <1>2. CASE ~ (Model(n).mem > 0)
    <2> DEFINE Z(l) == \E k \in LayersOf(n) \cap st.has : Buffer(k) = l
               x == [l \in Layer |-> IF Z(l) THEN 0 ELSE st.content[l]]
    <2>1. Reset(st, n) = [st EXCEPT !.content = x]
      BY <1>2 DEF Reset
    <2>2. x \in [Layer -> Nat] /\ \A l \in Layer : x[l] \in {0, st.content[l]} /\ (Z(l) => x[l] = 0)
      BY <1>0
    <2>3. ASSUME NEW o \in LayersOf(n), ~ IsView(o) PROVE x[o] = 0
      <3>1. CASE o \in st.has
        <4>1. Buffer(o) = o
          BY <1>0, <2>3, BufferFacts DEF NetsThere
        <4> QED
          BY <1>0, <2>2, <3>1, <4>1
      <3>2. CASE o \notin st.has
        BY <1>0, <2>2, <3>2 DEF Normal
      <3> QED
        BY <3>1, <3>2
    <2> HIDE DEF x
    <2>4. /\ Reset(st, n).content = x /\ Reset(st, n).has = st.has
          /\ Reset(st, n).gradient = st.gradient /\ Reset(st, n) \in States
      BY <2>1, <2>2, StateFields DEF States
    <2> QED
      BY <2>2, <2>3, <2>4 DEF Less, Wiped, EmptyIn
  <1> QED
    BY <1>1, <1>2

LEMMA ResizedLess ==
    ASSUME NetsThere, NEW n \in Net, NEW st \in States, Normal(st.has, st.content), NEW b \in Nat
    PROVE  /\ Less(Resized(st, n, b), st) /\ (b = st.batch[n] => Resized(st, n, b) = st)
           /\ b # st.batch[n] => Wiped(Resized(st, n, b), n)
  <1> DEFINE x == [st.batch EXCEPT ![n] = b]
             new == [st EXCEPT !.batch = x]
  <1>1. x \in [DOMAIN arch.models -> Nat] /\ st.content \in [Layer -> Nat]
    BY StateFields
  <1>2. Resized(st, n, b) = IF b = st.batch[n] THEN st ELSE Reset(new, n)
    BY DEF Resized
  <1> HIDE DEF x
  <1>3. /\ new \in States /\ new.has = st.has /\ new.content = st.content
        /\ new.gradient = st.gradient
    BY <1>1 DEF States
  <1> HIDE DEF new
  <1>4. Less(Reset(new, n), new) /\ Wiped(Reset(new, n), n)
    BY <1>3, ResetWipes
  <1>5. Less(Reset(new, n), st)
    BY <1>3, <1>4 DEF Less
  <1>6. Less(st, st)
    BY <1>1 DEF Less
  <1> QED
    BY <1>2, <1>4, <1>5, <1>6

LEMMA ZeroGradsData ==
    ASSUME NEW n, NEW st \in States
    PROVE  /\ ZeroGrads(st, n).has = st.has /\ ZeroGrads(st, n).content = st.content
           /\ \A l \in Layer : ZeroGrads(st, n).gradient[l] =
                                   IF l \in LayersOf(n) THEN 0 ELSE st.gradient[l]
  <1> DEFINE x == [l \in Layer |-> IF l \in LayersOf(n) THEN 0 ELSE st.gradient[l]]
  <1>1. ZeroGrads(st, n) = [st EXCEPT !.gradient = x]
    BY DEF ZeroGrads
  <1>2. \A l \in Layer : x[l] = IF l \in LayersOf(n) THEN 0 ELSE st.gradient[l]
    OBVIOUS
  <1> HIDE DEF x
  <1>3. /\ ZeroGrads(st, n).has = st.has /\ ZeroGrads(st, n).content = st.content
        /\ ZeroGrads(st, n).gradient = x
    BY <1>1 DEF States
  <1> QED
    BY <1>2, <1>3

LEMMA BecomesNormal ==
    ASSUME NEW st, Becomes(st)
    PROVE  /\ Normal(has', content') /\ gradient' = st.gradient /\ has' = st.has
           /\ \A l \in Layer : content'[l] = IF l \in st.has THEN st.content[l] ELSE 0
  BY DEF Becomes, Normal

-----------------------------------------------------------------------------
(* The deltas of the other nets are as clean as they were.                   *)

LEMMA CleanThen ==
    ASSUME NetsThere, NetsApart, CleanIn(<<>>, content, used), NEW n \in Net, NEW c2, NEW u2,
           \A l \in Layer \ LayersOf(n) : c2[l] \in {0, content[l]},
           u2 \in {used, used \cup LayersOf(n), used \ LayersOf(n)},
           ~ Spent(n, u2) => \A o \in LayersOf(n) : Flowing(n, o) /\ c2[o] # 0 => HasLoss(n, o)
    PROVE  CleanIn(<<>>, c2, u2)
  <1>1. SUFFICES ASSUME NEW m \in Net, ~ Spent(m, u2), NEW o \in LayersOf(m),
                        Flowing(m, o), c2[o] # 0
                 PROVE  HasLoss(m, o)
    BY DEF CleanIn
  <1>2. CASE m = n
    BY <1>1, <1>2
  <1>3. CASE m # n
    <2>1. LayersOf(m) \cap LayersOf(n) = {} /\ o \in Layer
      BY <1>3, NetThere DEF NetsApart
    <2>2. u2 \cap LayersOf(m) = used \cap LayersOf(m)
      BY <2>1
    <2>3. ~ Spent(m, used)
      BY <1>1, <2>2 DEF Spent
    <2>4. content[o] # 0
      BY <1>1, <2>1
    <2>5. ~ Chained(<<>>, m)
      BY DEF Chained
    <2> QED
      BY <1>1, <2>3, <2>4, <2>5 DEF CleanIn
  <1> QED
    BY <1>2, <1>3

\* What is left in the deltas of a net that was wiped is for its losses.
LEMMA WipedClean ==
    ASSUME NetsThere, CleanIn(<<>>, content, used), NEW n \in Net, NEW t, Wiped(t, n),
           \A l \in Layer : t.content[l] \in {0, content[l]}
    PROVE  \A o \in LayersOf(n) : Flowing(n, o) /\ t.content[o] # 0 => HasLoss(n, o)
  <1>1. SUFFICES ASSUME NEW o \in LayersOf(n), Flowing(n, o), t.content[o] # 0
                 PROVE  HasLoss(n, o)
    OBVIOUS
  <1>2. ~ IsView(o) /\ o \in Layer
    BY <1>1, NetThere DEF Flowing
  <1>3. Model(n).mem > 0
    BY <1>1, <1>2 DEF Wiped, EmptyIn
  <1>4. ~ Spent(n, used) /\ ~ Chained(<<>>, n)
    BY <1>3 DEF Spent, Chained
  <1>5. content[o] # 0
    BY <1>1, <1>2
  <1> QED
    BY <1>1, <1>4, <1>5 DEF CleanIn

(***************************************************************************)
(* The calls that make no sweep.                                             *)
(***************************************************************************)

\* No sweep is to come, then or now.
Quiet == /\ Base /\ todo = <<>> /\ CleanIn(<<>>, content, used)
        /\ \A m \in Net : causes[m] = {} => Settled(m, gradient, due)

Resting == /\ Normal(has', content') /\ CleanIn(<<>>, content', used')
           /\ DOMAIN causes' = DOMAIN arch.models
           /\ \A m \in Net : causes'[m] = {} => Settled(m, gradient', due')

LEMMA NowQuiet ==
    ASSUME Base, ExactNow, todo = <<>>
    PROVE  Quiet
  <1>1. CleanIn(<<>>, content, used)
    BY BaseFacts
  <1>2. \A m : ~ Targeted(todo, m) /\ ~ GoesOn(todo)
    BY DEF Targeted, GoesOn
  <1> QED
    BY <1>1, <1>2 DEF Quiet, ExactNow, ExactIn, ExactFor

LEMMA QuietFacts ==
    ASSUME Quiet
    PROVE  /\ NetsThere /\ NetsApart /\ EndsInv /\ LinkInv /\ State \in States
           /\ content \in [Layer -> Nat] /\ gradient \in [Layer -> Nat] /\ due \in [Layer -> Nat]
           /\ Normal(State.has, State.content) /\ Backed(State) /\ DOMAIN causes = DOMAIN arch.models
           /\ State.content = content /\ State.gradient = gradient /\ State.batch = batch
           /\ State.has = has
           /\ CleanIn(<<>>, content, used) /\ Normal(has, content)
           /\ \A m \in Net : m \in DOMAIN arch.models
  <1>1. Base /\ CleanIn(<<>>, content, used)
    BY DEF Quiet
  <1>2. State.batch = batch
    BY DEF State
  <1>3. NetsThere
    BY <1>1, BaseFacts
  <1>4. \A m \in Net : m \in DOMAIN arch.models
    BY <1>3, NetThere
  <1> QED
    BY <1>1, <1>2, <1>4, BaseFacts

\* The gradients of net n are zeroed, and nothing is due.
LEMMA ZeroedThen ==
    ASSUME Quiet, NEW n \in Net,
           \A l \in Layer : gradient'[l] = IF l \in LayersOf(n) THEN 0 ELSE gradient[l],
           due' = NothingDue(n), causes' = [causes EXCEPT ![n] = {}]
    PROVE  /\ DOMAIN causes' = DOMAIN arch.models
           /\ \A m \in Net : causes'[m] = {} => Settled(m, gradient', due')
  <1>1. NetsThere /\ NetsApart /\ DOMAIN causes = DOMAIN arch.models
    BY QuietFacts
  <1>2. ASSUME NEW m \in Net, causes'[m] = {}, NEW l \in LayersOf(m), HasWeights(l)
        PROVE  gradient'[l] = due'[l]
    <2>1. l \in Layer
      BY <1>1, NetThere
    <2>2. due'[l] = IF l \in LayersOf(n) THEN 0 ELSE due[l]
      BY <2>1 DEF NothingDue
    <2>3. CASE m = n
      BY <2>1, <2>2, <2>3
    <2>4. CASE m # n
      <3>1. l \notin LayersOf(n)
        BY <1>1, <2>4 DEF NetsApart
      <3>2. causes[m] = {}
        BY <1>1, <1>2, <2>4, NetThere
      <3>3. gradient[l] = due[l]
        BY <1>2, <3>2 DEF Quiet, Settled
      <3> QED
        BY <2>1, <2>2, <3>1, <3>3
    <2> QED
      BY <2>3, <2>4
  <1> QED
    BY <1>1, <1>2 DEF Settled

\* At most zeroes some deltas.
LEMMA LessStep ==
    ASSUME Quiet, NEW n \in Net, NEW st, \A l \in Layer : st.content[l] \in {0, content[l]},
           Becomes(st), Wiped(st, n) \/ used' = used,
           used' \in {used, used \cup LayersOf(n), used \ LayersOf(n)}
    PROVE  Normal(has', content') /\ CleanIn(<<>>, content', used')
  <1>1. /\ NetsThere /\ NetsApart /\ CleanIn(<<>>, content, used) /\ content \in [Layer -> Nat]
    BY QuietFacts
  <1>2. /\ Normal(has', content')
        /\ \A l \in Layer : content'[l] = IF l \in st.has THEN st.content[l] ELSE 0
    BY BecomesNormal
  <1>3. \A l \in Layer : content'[l] \in {0, content[l]} /\ content'[l] \in {0, st.content[l]}
    BY <1>2
  <1>4. LayersOf(n) \subseteq Layer
    BY <1>1, NetThere
  <1>5. ASSUME ~ Spent(n, used'), NEW o \in LayersOf(n), Flowing(n, o), content'[o] # 0
        PROVE  HasLoss(n, o)
    <2>1. CASE Wiped(st, n)
      <3>1. st.content[o] # 0
        BY <1>3, <1>4, <1>5
      <3> QED
        BY <1>1, <1>5, <2>1, <3>1, WipedClean
    <2>2. CASE used' = used
      <3>1. content[o] # 0 /\ ~ Spent(n, used) /\ ~ Chained(<<>>, n)
        BY <1>3, <1>4, <1>5, <2>2 DEF Chained
      <3> QED
        BY <1>1, <1>5, <3>1 DEF CleanIn
    <2> QED
      BY <2>1, <2>2
  <1>6. CleanIn(<<>>, content', used')
    BY <1>1, <1>3, <1>5, CleanThen
  <1> QED
    BY <1>2, <1>6

LEMMA ZeroCallExact ==
    ASSUME Quiet, NEW n \in Net, ZeroCall(n)
    PROVE  Resting
  <1>1. /\ gradient' = ZeroGrads(State, n).gradient /\ due' = NothingDue(n)
        /\ causes' = [causes EXCEPT ![n] = {}] /\ has' = has /\ content' = content /\ used' = used
    BY DEF ZeroCall, deltaVars
  <1>2. /\ State \in States /\ State.gradient = gradient
        /\ Normal(has, content) /\ CleanIn(<<>>, content, used)
    BY QuietFacts
  <1>3. \A l \in Layer : gradient'[l] = IF l \in LayersOf(n) THEN 0 ELSE gradient[l]
    BY <1>1, <1>2, ZeroGradsData
  <1> QED
    BY <1>1, <1>2, <1>3, ZeroedThen DEF Resting

LEMMA KeptSettled ==
    ASSUME Quiet, gradient' = gradient, due' = due, causes' = causes
    PROVE  /\ DOMAIN causes' = DOMAIN arch.models
           /\ \A m \in Net : causes'[m] = {} => Settled(m, gradient', due')
  BY QuietFacts DEF Quiet

LEMMA ForwardExact ==
    ASSUME Quiet, NEW n \in Net, NEW b \in Nat, Becomes(Resized(Reset(State, n), n, b)),
           used' = used \ LayersOf(n), due' = due, causes' = causes
    PROVE  Resting
  <1> DEFINE r == Reset(State, n)
             st == Resized(r, n, b)
  <1>1. /\ NetsThere /\ State \in States /\ Normal(State.has, State.content)
        /\ State.content = content /\ content \in [Layer -> Nat] /\ State.gradient = gradient
    BY QuietFacts
  <1>2. Less(r, State) /\ Wiped(r, n)
    BY <1>1, ResetWipes
  <1>3. r \in States /\ Normal(r.has, r.content)
    BY <1>1, <1>2, LessNormal DEF Less
  <1> HIDE DEF r
  <1>4. Less(st, r)
    BY <1>1, <1>3, ResizedLess
  <1>5. Becomes(st)
    BY DEF r
  <1> HIDE DEF st
  <1>6. Less(st, State) /\ Wiped(st, n)
    BY <1>1, <1>2, <1>4, LessAgain, LessWiped
  <1>7. st.gradient = gradient /\ \A l \in Layer : st.content[l] \in {0, content[l]}
    BY <1>1, <1>6 DEF Less
  <1>8. Normal(has', content') /\ CleanIn(<<>>, content', used')
    BY <1>5, <1>6, <1>7, LessStep
  <1>9. gradient' = gradient
    BY <1>5, <1>7, BecomesNormal
  <1> QED
    BY <1>8, <1>9, KeptSettled DEF Resting

\* An exception ends train_batch() or eval_batch() after resize().
LEMMA TooFewExact ==
    ASSUME Quiet, NEW n \in Net, NEW b \in Nat, Becomes(Resized(State, n, b)),
           used' = (IF b = batch[n] THEN used ELSE used \ LayersOf(n)), due' = due, causes' = causes
    PROVE  Resting
  <1> DEFINE st == Resized(State, n, b)
  <1>1. /\ NetsThere /\ State \in States /\ Normal(State.has, State.content)
        /\ State.content = content /\ State.gradient = gradient /\ State.batch = batch
    BY QuietFacts
  <1>2. Less(st, State) /\ (b # State.batch[n] => Wiped(st, n))
    BY <1>1, ResizedLess
  <1> HIDE DEF st
  <1>3. st.gradient = gradient /\ \A l \in Layer : st.content[l] \in {0, content[l]}
    BY <1>1, <1>2 DEF Less
  <1>4. Becomes(st)
    BY DEF st
  <1>5. Wiped(st, n) \/ used' = used
    BY <1>1, <1>2
  <1>6. Normal(has', content') /\ CleanIn(<<>>, content', used')
    BY <1>3, <1>4, <1>5, LessStep
  <1>7. gradient' = gradient
    BY <1>3, <1>4, BecomesNormal
  <1> QED
    BY <1>6, <1>7, KeptSettled DEF Resting

\* A net is reset and its gradients are zeroed.
Started(st, n) ==
    /\ st \in States /\ st.has = has /\ ~ st.broken /\ Wiped(st, n)
    /\ Normal(st.has, st.content)
    /\ \A l \in Layer : /\ st.content[l] \in {0, content[l]}
                        /\ st.gradient[l] = IF l \in LayersOf(n) THEN 0 ELSE gradient[l]

LEMMA TrainStart ==
    ASSUME Quiet, NEW n \in Net, NEW b \in Nat
    PROVE  Started(ZeroGrads(Reset(Resized(State, n, b), n), n), n)
  <1> DEFINE r == Resized(State, n, b)
             s == Reset(r, n)
             st == ZeroGrads(s, n)
  <1>1. /\ NetsThere /\ State \in States /\ Normal(State.has, State.content)
        /\ State.content = content /\ State.gradient = gradient /\ State.has = has
        /\ content \in [Layer -> Nat] /\ n \in DOMAIN arch.models
    BY QuietFacts
  <1>2. Less(r, State) /\ ~ r.broken
    BY <1>1, ResizedLess, ResizedFacts DEF State
  <1>3. r \in States /\ Normal(r.has, r.content)
    BY <1>1, <1>2, LessNormal DEF Less
  <1> HIDE DEF r
  <1>4. Less(s, r) /\ Wiped(s, n) /\ ~ s.broken
    BY <1>1, <1>2, <1>3, ResetWipes, ResetFacts
  <1> HIDE DEF s
  <1>5. Less(s, State)
    BY <1>1, <1>2, <1>4, LessAgain
  <1>6. s \in States /\ Normal(s.has, s.content)
    BY <1>1, <1>5, LessNormal DEF Less
  <1>7. /\ st.has = s.has /\ st.content = s.content /\ st \in States /\ ~ st.broken
        /\ \A l \in Layer : st.gradient[l] = IF l \in LayersOf(n) THEN 0 ELSE s.gradient[l]
    BY <1>4, <1>6, ZeroGradsData, ZeroGradsFacts
  <1>8. Wiped(st, n)
    BY <1>4, <1>7 DEF Wiped, EmptyIn
  <1> HIDE DEF st
  <1>9. Started(st, n)
    BY <1>1, <1>5, <1>6, <1>7, <1>8 DEF Started, Less
  <1> QED
    BY <1>9 DEF st, s, r

LEMMA ComputeStart ==
    ASSUME Quiet, NEW n \in Net, NEW b \in Nat
    PROVE  Started(Resized(ZeroGrads(Reset(State, n), n), n, b), n)
  <1> DEFINE s == Reset(State, n)
             z == ZeroGrads(s, n)
             st == Resized(z, n, b)
  <1>1. /\ NetsThere /\ State \in States /\ Normal(State.has, State.content)
        /\ State.content = content /\ State.gradient = gradient /\ State.has = has
        /\ content \in [Layer -> Nat] /\ n \in DOMAIN arch.models
    BY QuietFacts
  <1>2. Less(s, State) /\ Wiped(s, n) /\ ~ s.broken
    BY <1>1, ResetWipes, ResetFacts DEF State
  <1>3. s \in States /\ Normal(s.has, s.content)
    BY <1>1, <1>2, LessNormal DEF Less
  <1> HIDE DEF s
  <1>4. /\ z.has = s.has /\ z.content = s.content /\ z \in States /\ ~ z.broken
        /\ \A l \in Layer : z.gradient[l] = IF l \in LayersOf(n) THEN 0 ELSE s.gradient[l]
    BY <1>2, <1>3, ZeroGradsData, ZeroGradsFacts
  <1>5. Wiped(z, n)
    BY <1>2, <1>4 DEF Wiped, EmptyIn
  <1> HIDE DEF z
  <1>6. Less(st, z) /\ ~ st.broken
    BY <1>1, <1>3, <1>4, ResizedLess, ResizedFacts
  <1> HIDE DEF st
  <1>7. Wiped(st, n) /\ Normal(st.has, st.content)
    BY <1>1, <1>3, <1>4, <1>5, <1>6, LessWiped, LessNormal
  <1>8. /\ st \in States /\ st.has = has
        /\ \A l \in Layer : /\ st.content[l] \in {0, content[l]}
                            /\ st.gradient[l] = IF l \in LayersOf(n) THEN 0 ELSE gradient[l]
    BY <1>1, <1>2, <1>4, <1>6 DEF Less
  <1>9. Started(st, n)
    BY <1>6, <1>7, <1>8 DEF Started
  <1> QED
    BY <1>9 DEF st, z, s

\* eval_batch(), and compute_loss() with too few samples.
LEMMA StartedExact ==
    ASSUME Quiet, NEW n \in Net, NEW st, Started(st, n), Becomes(st),
           used' = used \ LayersOf(n), due' = NothingDue(n), causes' = [causes EXCEPT ![n] = {}]
    PROVE  Resting
  <1>1. /\ Wiped(st, n)
        /\ \A l \in Layer : /\ st.content[l] \in {0, content[l]}
                            /\ st.gradient[l] = IF l \in LayersOf(n) THEN 0 ELSE gradient[l]
    BY DEF Started
  <1>2. Normal(has', content') /\ CleanIn(<<>>, content', used')
    BY <1>1, LessStep
  <1>3. gradient' = st.gradient
    BY BecomesNormal
  <1> QED
    BY <1>1, <1>2, <1>3, ZeroedThen DEF Resting

\* compute_loss() writes deltas of outputs with a loss only.
LEMMA ComputeExact ==
    ASSUME Quiet, NEW n \in Net, NEW st, Started(st, n), NEW fill \in Nat,
           Len(Host(n).lout) <= Model(n).losses, Becomes(DoDelta(st, n, fill)),
           used' = used \ LayersOf(n), due' = NothingDue(n), causes' = [causes EXCEPT ![n] = {}]
    PROVE  Resting
  <1> DEFINE t == DoDelta(st, n, fill)
  <1>0. /\ NetsThere /\ NetsApart /\ EndsInv /\ Backed(State) /\ State.has = has
        /\ CleanIn(<<>>, content, used) /\ content \in [Layer -> Nat]
    BY QuietFacts
  <1>1. /\ st \in States /\ Wiped(st, n) /\ st.has = State.has
        /\ \A l \in Layer : /\ st.content[l] \in {0, content[l]}
                            /\ st.gradient[l] = IF l \in LayersOf(n) THEN 0 ELSE gradient[l]
    BY <1>0 DEF Started
  <1>2. Backed(st)
    BY <1>0, <1>1, SameDeltas
  <1>3. /\ t \in States /\ Beyond(t, st, n) /\ t.gradient = st.gradient
        /\ \A o \in Layer : (\A i \in DOMAIN Host(n).lout : Buffer(Host(n).lout[i]) # o)
                  => t.content[o] = st.content[o]
    BY <1>0, <1>1, <1>2, DoDeltaData
  <1>4. Becomes(t)
    OBVIOUS
  <1> HIDE DEF t
  <1>5. Host(n).lout \in Seq(Layer) /\ Model(n).losses \in Nat
    BY <1>0, NetThere, LossesType DEF BuiltNet
  <1>6. ASSUME NEW o \in Layer, ~ HasLoss(n, o) PROVE t.content[o] = st.content[o]
    <2>1. SUFFICES ASSUME NEW i \in DOMAIN Host(n).lout, Buffer(Host(n).lout[i]) = o
                   PROVE  HasLoss(n, o)
      BY <1>3, <1>6
    <2>2. i \in 1 .. Len(Host(n).lout) /\ i <= Model(n).losses
      BY <1>5, <2>1
    <2> QED
      BY <2>1, <2>2 DEF HasLoss, Lost
  <1>7. /\ Normal(has', content') /\ gradient' = t.gradient
        /\ \A l \in Layer : content'[l] = IF l \in t.has THEN t.content[l] ELSE 0
    BY <1>4, BecomesNormal
  <1>8. \A l \in Layer \ LayersOf(n) : content'[l] \in {0, content[l]}
    <2>1. \A l \in Layer \ LayersOf(n) : t.content[l] = st.content[l]
      BY <1>3 DEF Beyond
    <2> QED
      BY <1>1, <1>7, <2>1
  <1>9. ASSUME NEW o \in LayersOf(n), Flowing(n, o), content'[o] # 0
        PROVE  HasLoss(n, o)
    <2>1. SUFFICES ASSUME ~ HasLoss(n, o) PROVE FALSE
      OBVIOUS
    <2>2. o \in Layer
      BY <1>0, NetThere
    <2>3. t.content[o] = st.content[o] /\ st.content[o] # 0
      BY <1>6, <1>7, <1>9, <2>1, <2>2
    <2> QED
      BY <1>0, <1>1, <1>9, <2>1, <2>3, WipedClean
  <1>10. CleanIn(<<>>, content', used')
    BY <1>0, <1>8, <1>9, CleanThen
  <1> QED
    BY <1>1, <1>3, <1>7, <1>10, ZeroedThen DEF Resting

\* train_batch(): a sweep that starts from nothing gives each layer what is due.
LEMMA TrainedSettled ==
    ASSUME Quiet, NEW n \in Net, NEW st, Started(st, n), NEW s, NEW a \in [Layer -> Int],
           Works(a, s, st, n), ~ Shared(Host(n).lout), NEW D, D = NothingDue(n)
    PROVE  Settled(n, s.gradient, MoreDue(D, n, {n}))
  <1>1. /\ NetsThere /\ NetsApart /\ EndsInv /\ LinkInv
        /\ CleanIn(<<>>, content, used) /\ due \in [Layer -> Nat]
    BY QuietFacts
  <1>2. /\ Wiped(st, n) /\ st \in States
        /\ \A l \in Layer : /\ st.content[l] \in {0, content[l]}
                            /\ st.gradient[l] = IF l \in LayersOf(n) THEN 0 ELSE gradient[l]
    BY DEF Started
  <1>3. LayersOf(n) \subseteq Layer
    BY <1>1, NetThere
  <1>4. st.content \in [Layer -> Nat] /\ st.gradient \in [Layer -> Nat]
    BY <1>2, StateFields
  <1>5. D \in [Layer -> Nat] /\ \A l \in LayersOf(n) : D[l] = 0
    BY <1>1, <1>3 DEF NothingDue
  <1>6. PICK c \in [Layer -> Nat] : c = st.content
    BY <1>4
  <1>7. PICK g \in [Layer -> Nat] : g = st.gradient
    BY <1>4
  <1>8. Settled(n, g, D)
    BY <1>2, <1>3, <1>5, <1>7 DEF Settled
  <1>9. Owed(n, g, MoreDue(D, n, {n}))
    BY <1>1, <1>5, <1>8, BackwardOwes
  <1>10. \A o \in LayersOf(n) : Flowing(n, o) /\ c[o] # 0 => HasLoss(n, o)
    BY <1>1, <1>2, <1>6, WipedClean
  <1>11. /\ \A o \in LayersOf(n) : Flowing(n, o) /\ HasLoss(n, o) => a[o] = 1 + FromHeirs(a, n, o)
         /\ \A o \in LayersOf(n) : Flowing(n, o) /\ ~ HasLoss(n, o) =>
                a[o] = c[o] + FromHeirs(a, n, o)
         /\ \A l \in LayersOf(n) : HasWeights(l) => s.gradient[l] = g[l] + a[l]
    BY <1>6, <1>7 DEF Works
  <1>12. FromLosses(a, n)
    BY <1>1, <1>10, <1>11, CleanStart
  <1>13. MoreDue(D, n, {n}) \in [Layer -> Nat]
    <2>1. PICK R \in SUBSET Net : R = {n}
      OBVIOUS
    <2> QED
      BY <1>1, <1>5, <2>1, MoreDueType
  <1> QED
    BY <1>1, <1>9, <1>11, <1>12, <1>13, Paid

LEMMA TrainExact ==
    ASSUME Quiet, NEW n \in Net, NEW st, Started(st, n), NEW fill \in Nat,
           ~ SweepOf(st, n, fill).broken, Becomes(SweepOf(st, n, fill)),
           used' = used \cup LayersOf(n), due' = MoreDue(NothingDue(n), n, {n}),
           causes' = [causes EXCEPT ![n] = SweepCauses(st, n, {}, FALSE)]
    PROVE  Resting
  <1> DEFINE s == SweepOf(st, n, fill)
  <1>1. /\ NetsThere /\ NetsApart /\ EndsInv /\ LinkInv /\ Backed(State) /\ State.has = has
        /\ CleanIn(<<>>, content, used) /\ due \in [Layer -> Nat] /\ content \in [Layer -> Nat]
        /\ gradient \in [Layer -> Nat]
        /\ Normal(has, content) /\ DOMAIN causes = DOMAIN arch.models
        /\ \A m \in Net : m \in DOMAIN arch.models
    BY QuietFacts
  <1>2. /\ st \in States /\ Wiped(st, n) /\ st.has = State.has /\ Normal(st.has, st.content)
        /\ \A l \in Layer : /\ st.content[l] \in {0, content[l]}
                            /\ st.gradient[l] = IF l \in LayersOf(n) THEN 0 ELSE gradient[l]
    BY <1>1 DEF Started
  <1>3. Backed(st)
    BY <1>1, <1>2, SameDeltas
  <1>4. /\ s \in States /\ Beyond(s, st, n)
        /\ Model(n).mem > 0 => \A o \in LayersOf(n) : IsInput(o) \/ o \notin s.has
        /\ Calm(st, n) => \E a \in [Layer -> Int] : Works(a, s, st, n)
    BY <1>1, <1>2, <1>3, SweepOfData
  <1>5. Becomes(s)
    OBVIOUS
  <1> HIDE DEF s
  <1>6. /\ Normal(has', content') /\ gradient' = s.gradient
        /\ \A l \in Layer : content'[l] = IF l \in s.has THEN s.content[l] ELSE 0
    BY <1>5, BecomesNormal
  <1>7. \A m \in Net : LayersOf(m) \subseteq Layer
    BY <1>1, NetThere
  <1>8. \A l \in Layer \ LayersOf(n) : content'[l] \in {0, content[l]} /\ gradient'[l] = gradient[l]
    <2>1. \A l \in Layer \ LayersOf(n) : s.content[l] = st.content[l] /\ s.gradient[l] = st.gradient[l]
      BY <1>4 DEF Beyond
    <2> QED
      BY <1>2, <1>6, <2>1
  <1>9. ASSUME ~ Spent(n, used'), NEW o \in LayersOf(n), Flowing(n, o), content'[o] # 0
        PROVE  HasLoss(n, o)
    <2>1. Model(n).mem > 0
      BY <1>9 DEF Spent
    <2>2. ~ IsInput(o)
      BY <1>9, <2>1 DEF Flowing
    <2>3. o \notin s.has
      BY <1>4, <2>1, <2>2
    <2> QED
      BY <1>6, <1>7, <1>9, <2>3
  <1>10. CleanIn(<<>>, content', used')
    BY <1>1, <1>8, <1>9, CleanThen
  <1>11. ASSUME NEW m \in Net, causes'[m] = {} PROVE Settled(m, gradient', due')
    <2>1. CASE m = n
      <3>1. SweepCauses(st, n, {}, FALSE) = {}
        BY <1>1, <1>11, <2>1
      <3>2. \A o \in LayersOf(n) : o \notin st.has => st.content[o] = 0
        BY <1>2, <1>7 DEF Normal
      <3>3. Calm(st, n) /\ ~ Shared(Host(n).lout)
        BY <1>1, <1>2, <3>1, <3>2, NoSweepCause
      <3>4. PICK a \in [Layer -> Int] : Works(a, s, st, n)
        BY <1>4, <3>3
      <3>5. Settled(n, s.gradient, MoreDue(NothingDue(n), n, {n}))
        BY <3>3, <3>4, TrainedSettled
      <3> QED
        BY <1>6, <2>1, <3>5
    <2>2. CASE m # n
      <3>1. causes[m] = {}
        BY <1>1, <1>11, <2>2
      <3>2. PICK D \in [Layer -> Nat] : D = NothingDue(n)
        <4>1. NothingDue(n) \in [Layer -> Nat]
          BY <1>1 DEF NothingDue
        <4> HIDE DEF s
        <4> QED
          BY <4>1
      <3>3. PICK R \in SUBSET Net : R = {n}
        OBVIOUS
      <3>4. due' = MoreDue(D, n, R) /\ n \in R /\ m \in Net \ R
        BY <2>2, <3>2, <3>3
      <3>5. \A l \in LayersOf(m) : due'[l] = D[l]
        <4>1. n \in R /\ m \in Net \ R
          BY <3>4
        <4>2. \A k \in Net \ R : \A l \in LayersOf(k) : MoreDue(D, n, R)[l] = D[l]
          BY <1>1, <4>1, DueThen
        <4> QED
          BY <3>4, <4>2
      <3>6. ASSUME NEW l \in LayersOf(m), HasWeights(l) PROVE gradient'[l] = due'[l]
        <4>1. l \in Layer \ LayersOf(n)
          BY <1>1, <1>7, <2>2 DEF NetsApart
        <4>2. D[l] = due[l]
          BY <3>2, <4>1 DEF NothingDue
        <4>3. gradient[l] = due[l]
          BY <3>1, <3>6 DEF Quiet, Settled
        <4>4. gradient'[l] = gradient[l]
          BY <1>8, <4>1
        <4>5. due'[l] = D[l]
          BY <3>5, <3>6
        <4> QED
          BY <4>2, <4>3, <4>4, <4>5
      <3> QED
        BY <3>6 DEF Settled
    <2> QED
      BY <2>1, <2>2
  <1>12. DOMAIN causes' = DOMAIN arch.models
    BY <1>1
  <1> QED
    BY <1>6, <1>10, <1>11, <1>12 DEF Resting

(***************************************************************************)
(* All steps of a program whose nets are built.                              *)
(***************************************************************************)

LEMMA FedThen ==
    ASSUME NetsThere, FedInv, UNCHANGED <<arch, nets>>, NEW n \in Net,
           netinput \in [DOMAIN arch.models -> Seq(InNets)],
           netinput' = netinput \/ netinput' = [netinput EXCEPT ![n] = <<>>]
             \/ netinput' = [netinput EXCEPT ![n] = Model(n).feeds]
    PROVE  FedInv'
  <1>1. \A m : Elements(Model(m).feeds)' = Elements(Model(m).feeds)
    BY DEF Model, Elements
  <1>2. Elements(<<>>) = {}
    BY DEF Elements
  <1>3. ASSUME NEW m \in DOMAIN arch.models
        PROVE  Elements(netinput'[m]) \subseteq Elements(Model(m).feeds)
    <2>1. netinput'[m] = netinput[m] \/ netinput'[m] = <<>> \/ netinput'[m] = Model(m).feeds
      OBVIOUS
    <2>2. Elements(netinput[m]) \subseteq Elements(Model(m).feeds)
      BY DEF FedInv
    <2> QED
      BY <1>2, <2>1, <2>2
  <1>4. \A m : Elements(netinput[m])' = Elements(netinput'[m])
    BY DEF Elements
  <1> QED
    BY <1>1, <1>3, <1>4 DEF FedInv

LEMMA FedSame ==
    ASSUME FedInv, UNCHANGED <<arch, nets, netinput>>
    PROVE  FedInv'
  <1>1. \A m : Elements(Model(m).feeds)' = Elements(Model(m).feeds)
    BY DEF Model, Elements
  <1>2. \A m : Elements(netinput[m])' = Elements(netinput[m])
    BY DEF Elements
  <1> QED
    BY <1>1, <1>2 DEF FedInv

LEMMA FedStep ==
    ASSUME NetsThere, SweepInv, FedInv, Next, ~ Build
    PROVE  FedInv'
  <1>0. UNCHANGED <<arch, nets>> /\ netinput \in [DOMAIN arch.models -> Seq(InNets)]
    BY CallsKeepGraph DEF GraphKept, SweepInv, ChainInv
  <1>1. CASE Called
    <2>1. ASSUME NEW n \in Net, ZeroCall(n) \/ Backward(n) \/ Optimize(n) PROVE FedInv'
      BY <1>0, <2>1, FedSame DEF ZeroCall, Backward, Optimize, chainVars
    <2>2. ASSUME NEW n \in Net, ForwardChain(n) PROVE FedInv'
      BY <1>0, <2>2, FedThen DEF ForwardChain
    <2>3. ASSUME NEW n \in Net, NEW b \in arch.sizes, Forward(n, b) PROVE FedInv'
      BY <1>0, <2>3, FedSame DEF Forward
    <2>4. ASSUME NEW n \in Net, NEW fill \in Fill, Compute(n, fill) PROVE FedInv'
      BY <1>0, <2>4, FedThen DEF Compute
    <2>5. ASSUME NEW n \in Net, NEW b \in arch.sizes, EvalBatch(n, b) PROVE FedInv'
      BY <1>0, <2>5, FedSame DEF EvalBatch
    <2>6. ASSUME NEW n \in Net, NEW l \in Elements(Model(n).feeds), Detach(l) PROVE FedInv'
      BY <1>0, <2>6, FedSame DEF Detach
    <2> QED
      BY <1>1, <2>1, <2>2, <2>3, <2>4, <2>5, <2>6 DEF Called
  <1>2. ASSUME NEW fill \in Fill, SweepStep(fill) PROVE FedInv'
    <2> DEFINE n == Head(todo).net
    <2>1. n \in Net
      <3>1. Head(todo) \in Calling
        <4> HIDE DEF Calling
        <4> QED
          BY <1>2 DEF SweepStep, SweepInv
      <3> QED
        BY <3>1 DEF Calling
    <2>2. netinput' = netinput \/ netinput' = [netinput EXCEPT ![n] = <<>>]
      BY <1>2 DEF SweepStep, Sweep
    <2> HIDE DEF n
    <2> QED
      BY <1>0, <2>1, <2>2, FedThen
  <1>3. ASSUME NEW n \in Net, Update(n) PROVE FedInv'
    BY <1>0, <1>3, FedSame DEF Update, backVars, chainVars
  <1>4. ASSUME NEW n \in Net, NEW b \in arch.sizes, NEW fill \in Fill, TrainBatch(n, b, fill)
        PROVE  FedInv'
    BY <1>0, <1>4, FedSame DEF TrainBatch
  <1> QED
    BY <1>1, <1>2, <1>3, <1>4, NextCases

-----------------------------------------------------------------------------
\* The deltas that nobody has used are clean after a sweep.
LEMMA SweepClean ==
    ASSUME Base, todo # <<>>, NEW n \in Net, n = Head(todo).net, NEW td, NEW c2, NEW g2,
           NEW on \in BOOLEAN, Moves(n, c2, g2, on),
           on => Follows(td, n), ~ on => td = <<>> /\ ~ (\E k : Chained(todo, k))
    PROVE  CleanIn(td, c2, used \cup LayersOf(n))
  <1>1. /\ NetsThere /\ NetsApart /\ CleanIn(todo, content, used) /\ ChainInv
    BY BaseFacts
  <1>2. SUFFICES ASSUME NEW k \in Net, ~ Chained(td, k), ~ Spent(k, used \cup LayersOf(n)),
                        NEW o \in LayersOf(k), Flowing(k, o), c2[o] # 0
                 PROVE  HasLoss(k, o)
    BY DEF CleanIn
  <1>3. k # n
    <2>1. SUFFICES ASSUME k = n PROVE FALSE
      OBVIOUS
    <2>2. Model(n).mem > 0
      BY <1>2, <2>1 DEF Spent
    <2>3. ~ IsInput(o) /\ ~ IsView(o)
      BY <1>2, <2>1, <2>2 DEF Flowing
    <2> QED
      BY <1>2, <2>1, <2>2, <2>3 DEF Moves
  <1>4. ~ Chained(todo, k)
    BY <1>2, <1>3 DEF Follows
  <1>5. ~ Spent(k, used)
    BY <1>2 DEF Spent
  <1>6. ~ IsView(o)
    BY <1>2 DEF Flowing
  <1>7. ~ (on /\ FedFrom(n, o))
    <2>1. SUFFICES ASSUME on, FedFrom(n, o) PROVE FALSE
      OBVIOUS
    <2>2. PICK i \in DOMAIN netinput[n] : /\ netinput[n][i] \notin detached
                                          /\ Buffer(netinput[n][i]) = o
      BY <2>1 DEF FedFrom
    <2>3. Chained(td, NetOf(netinput[n][i]))
      BY <2>1, <2>2 DEF Follows
    <2>4. netinput[n][i] \in InNets
      <3>1. netinput[n] \in Seq(InNets)
        BY <1>1, NetThere DEF ChainInv
      <3> QED
        BY <2>2, <3>1
    <2>5. PICK l : l = netinput[n][i]
      OBVIOUS
    <2>6. NetOf(l) \in Net /\ l \in LayersOf(NetOf(l))
      BY <2>4, <2>5, NetOfType
    <2>7. Buffer(l) \in LayersOf(NetOf(l))
      BY <1>1, <2>6, BufferThere
    <2>8. NetOf(l) = k
      BY <1>1, <1>2, <2>2, <2>5, <2>6, <2>7 DEF NetsApart
    <2> QED
      BY <1>2, <2>3, <2>5, <2>8
  <1>8. c2[o] = content[o]
    BY <1>2, <1>3, <1>6, <1>7 DEF Moves
  <1> QED
    BY <1>1, <1>2, <1>4, <1>5, <1>8 DEF CleanIn

\* Everything is as it has to be after a step.
Going == /\ Normal(has', content') /\ TodoShape(todo') /\ DOMAIN causes' = DOMAIN arch.models
         /\ CleanIn(todo', content', used')
         /\ ExactIn(todo', content', used', link', detached', gradient', due', causes')

LEMMA RestingGoes ==
    ASSUME Resting, todo' = <<>>
    PROVE  Going
  <1>1. /\ Normal(has', content') /\ DOMAIN causes' = DOMAIN arch.models
        /\ CleanIn(<<>>, content', used')
        /\ \A m \in Net : causes'[m] = {} => Settled(m, gradient', due')
    BY DEF Resting
  <1>2. TodoShape(<<>>)
    BY DEF TodoShape, AllChained
  <1>3. \A m : ~ Targeted(<<>>, m) /\ ~ GoesOn(<<>>)
    BY DEF Targeted, GoesOn
  <1>4. ExactIn(<<>>, content', used', link', detached', gradient', due', causes')
    BY <1>1, <1>3 DEF ExactIn, ExactFor
  <1> QED
    BY <1>1, <1>2, <1>4 DEF Going

LEMMA SweepStepGoes ==
    ASSUME Base, ExactNow, NEW fill \in Fill, SweepStep(fill), phase' = "built",
           State' \in States
    PROVE  Going
  <1>0. UNCHANGED <<arch, nets>> /\ phase = "built" /\ todo # <<>> /\ Sweep(fill)
    BY DEF SweepStep
  <1>a. /\ NetsThere /\ NetsApart /\ EndsInv /\ SweepInv /\ ChainInv /\ LinkInv /\ FedInv
        /\ todo \in Seq(Calling) /\ TodoShape(todo)
        /\ Normal(has, content) /\ Backed(State) /\ DOMAIN causes = DOMAIN arch.models
        /\ \A n \in Net : InputsFirst(n)
    BY BaseFacts
  <1> DEFINE n == Head(todo).net
             goesOn == Head(todo).call # "target"
             swept == SweepOf(State, n, fill)
             copied == CopyDeltas(swept, n, fill)
             st == IF goesOn /\ ~ swept.broken THEN copied ELSE swept
  <1>2. /\ Becomes(st)
        /\ phase' = IF st.broken THEN "crashed" ELSE phase
        /\ todo' = (IF goesOn THEN NextNets(n) ELSE <<>>) \o Tail(todo)
        /\ used' = used \cup LayersOf(n) /\ DOMAIN causes' = DOMAIN causes
    BY <1>0 DEF Sweep, SweepOf
  <1>3. n \in Net /\ fill \in Nat
    <2>1. Head(todo) \in Calling
      BY <1>0, <1>a, TailFacts
    <2> QED
      BY <2>1, FillAssumption DEF Calling
  <1> HIDE DEF n, goesOn, swept, copied
  <1>4. ~ swept.broken /\ (goesOn => Becomes(copied)) /\ (~ goesOn => Becomes(swept))
    BY <1>0, <1>2
  <1>5. Normal(has', content')
    BY <1>2, BecomesNormal
  <1>6. CASE goesOn
    <2>1. Moves(n, content', gradient', TRUE)
      BY <1>a, <1>3, <1>4, <1>6, GoesOnMoves DEF swept, copied
    <2>2. todo' = NextNets(n) \o Tail(todo)
      BY <1>2, <1>6
    <2>3. Follows(todo', n)
      BY <1>0, <1>a, <1>3, <2>2, TodoFollows DEF n
    <2>4. CleanIn(todo', content', used')
      BY <1>0, <1>2, <1>3, <2>1, <2>3, SweepClean DEF n
    <2>5. TodoShape(todo')
      BY <2>3 DEF Follows, TodoShape
    <2> QED
      BY <1>a, <1>2, <1>5, <2>4, <2>5, SweepStepExact DEF Going
  <1>7. CASE ~ goesOn
    <2>1. Moves(n, content', gradient', FALSE)
      BY <1>a, <1>3, <1>4, <1>7, OneMoves DEF swept
    <2>2. Head(todo).call = "target"
      BY <1>7 DEF goesOn
    <2>3. Tail(todo) = <<>>
      BY <1>0, <1>a, <2>2, TailFacts
    <2>4. todo' = <<>>
      BY <1>2, <1>7, <2>3
    <2>5. ~ (\E k : Chained(todo, k))
      <3>1. ~ AllChained(todo)
        <4>1. 1 \in DOMAIN todo /\ Head(todo) = todo[1]
          BY <1>0, <1>a
        <4> QED
          BY <2>2, <4>1 DEF AllChained
      <3>2. PICK c \in Calling : todo = <<c>>
        BY <1>a, <3>1 DEF TodoShape
      <3>3. c.call = "target" /\ DOMAIN todo = {1} /\ todo[1] = c
        BY <2>2, <3>2
      <3> QED
        BY <3>3 DEF Chained
    <2>6. CleanIn(todo', content', used')
      BY <1>0, <1>2, <1>3, <2>1, <2>4, <2>5, SweepClean DEF n
    <2>7. TodoShape(todo')
      BY <2>4 DEF TodoShape, AllChained
    <2> QED
      BY <1>a, <1>2, <1>5, <2>6, <2>7, SweepStepExact DEF Going
  <1> QED
    BY <1>6, <1>7

\* A backward() or optimize() begins.
LEMMA CallBegins ==
    ASSUME Base, ExactNow, todo = <<>>, NEW n \in Net, NEW kind \in {"target", "loss"},
           NEW D, due' = D, todo' = <<[net |-> n, call |-> kind]>>,
           UNCHANGED <<has, content, gradient, link, detached, used, causes>>,
           \A m \in Net : Settled(m, gradient, due) =>
               ExactFor(m, <<[net |-> n, call |-> kind]>>, content, used, link, detached, gradient, D)
    PROVE  Going
  <1>1. Quiet
    BY NowQuiet
  <1>2. /\ Normal(has, content) /\ CleanIn(<<>>, content, used)
        /\ DOMAIN causes = DOMAIN arch.models
    BY <1>1, QuietFacts
  <1>3. PICK c \in Calling : c = [net |-> n, call |-> kind]
    BY DEF Calling
  <1>4. TodoShape(todo')
    BY <1>3 DEF TodoShape
  <1>5. CleanIn(todo', content, used)
    <2>1. \A k : ~ Chained(<<>>, k)
      BY DEF Chained
    <2> QED
      BY <1>2, <2>1 DEF CleanIn
  <1>6. ExactIn(todo', content, used, link, detached, gradient, D, causes)
    BY <1>1 DEF ExactIn, Quiet
  <1>7. ExactIn(todo', content', used', link', detached', gradient', due', causes')
    BY <1>6
  <1> QED
    BY <1>2, <1>4, <1>5, <1>7 DEF Going

LEMMA CalledGoes ==
    ASSUME Base, ExactNow, Called
    PROVE  Going
  <1>0. /\ NetsThere /\ NetsApart /\ EndsInv /\ LinkInv /\ State \in States
        /\ \A j \in Net : InputsFirst(j)
        /\ content \in [Layer -> Nat] /\ gradient \in [Layer -> Nat] /\ due \in [Layer -> Nat]
    BY BaseFacts
  <1>1. \A b \in arch.sizes : b \in Nat
    BY <1>0, TrainingAssumption DEF NetsThere
  <1>2. \A f \in Fill : f \in Nat
    BY FillAssumption
  <1>3. ASSUME todo = <<>> PROVE Quiet
    BY <1>3, NowQuiet
  <1>4. ASSUME NEW n \in Net, ZeroCall(n) PROVE Going
    <2>1. todo = <<>> /\ todo' = <<>>
      BY <1>4 DEF ZeroCall, Call
    <2> QED
      BY <1>3, <1>4, <2>1, ZeroCallExact, RestingGoes
  <1>5. ASSUME NEW n \in Net, NEW b \in Nat, NEW s, Call, Feed(n, b, s),
               Becomes(Resized(Reset(State, n), n, b)), due' = due, causes' = causes
        PROVE  Going
    <2>1. todo = <<>> /\ todo' = <<>> /\ used' = used \ LayersOf(n)
      BY <1>5 DEF Feed, Call
    <2> QED
      BY <1>3, <1>5, <2>1, ForwardExact, RestingGoes
  <1>6. ASSUME NEW n \in Net, ForwardChain(n) PROVE Going
    <2>1. CanChain(n)
      BY <1>6 DEF ForwardChain
    <2>2. FeedingBatch(n) \in Nat
      BY <1>0, <2>1, FeedingType
    <2> QED
      BY <1>5, <1>6, <2>2 DEF ForwardChain
  <1>7. ASSUME NEW n \in Net, NEW b \in arch.sizes, Forward(n, b) PROVE Going
    BY <1>1, <1>5, <1>7 DEF Forward
  <1>8. ASSUME NEW n \in Net, NEW b \in arch.sizes, EvalBatch(n, b) PROVE Going
    <2>1. todo = <<>> /\ todo' = <<>> /\ b \in Nat
      BY <1>1, <1>8 DEF EvalBatch, Call
    <2>2. CASE TooFew(b)
      <3>1. EvalTooFew(n, b)
        BY <1>8, <2>2 DEF EvalBatch
      <3> QED
        BY <1>3, <2>1, <3>1, TooFewExact, RestingGoes DEF EvalTooFew
    <2>3. CASE ~ TooFew(b)
      <3>1. EvalAll(n, b)
        BY <1>8, <2>3 DEF EvalBatch
      <3>2. Started(ZeroGrads(Reset(Resized(State, n, b), n), n), n)
        BY <1>3, <2>1, TrainStart
      <3> QED
        BY <1>3, <2>1, <3>1, <3>2, StartedExact, RestingGoes DEF EvalAll
    <2> QED
      BY <2>2, <2>3
  <1>9. ASSUME NEW n \in Net, NEW fill \in Fill, Compute(n, fill) PROVE Going
    <2>1. CanChain(n) /\ Model(n).isLoss /\ Call
      BY <1>9 DEF Compute
    <2>2. FeedingBatch(n) \in Nat
      BY <1>0, <2>1, FeedingType
    <2>3. PICK b \in Nat : b = FeedingBatch(n)
      BY <2>2
    <2>4. PICK st : st = Resized(ZeroGrads(Reset(State, n), n), n, b)
      OBVIOUS
    <2>5. /\ Becomes(IF TooFew(b) THEN st ELSE DoDelta(st, n, fill))
          /\ Feed(n, b, Model(n).feeds)
          /\ due' = NothingDue(n) /\ causes' = [causes EXCEPT ![n] = {}]
      BY <1>9, <2>3, <2>4 DEF Compute
    <2>6. todo = <<>> /\ todo' = <<>> /\ used' = used \ LayersOf(n)
      BY <2>1, <2>5 DEF Feed, Call
    <2>7. Started(st, n)
      BY <1>3, <2>4, <2>6, ComputeStart
    <2>8. CASE TooFew(b)
      BY <1>3, <2>5, <2>6, <2>7, <2>8, StartedExact, RestingGoes
    <2>9. CASE ~ TooFew(b)
      <3>1. Len(Host(n).lout) <= Model(n).losses
        BY <2>1 DEF Base, Plain
      <3> QED
        BY <1>2, <1>3, <2>5, <2>6, <2>7, <2>9, <3>1, ComputeExact, RestingGoes
    <2> QED
      BY <2>8, <2>9
  <1>10. ASSUME NEW l, Detach(l) PROVE Going
    <2>1. /\ todo = <<>> /\ todo' = <<>> /\ has' = has /\ content' = content /\ used' = used
          /\ gradient' = gradient /\ due' = due /\ causes' = causes
      BY <1>10 DEF Detach, Call, deltaVars, gradVars
    <2>2. Quiet
      BY <1>3, <2>1
    <2>3. Resting
      BY <2>1, <2>2, QuietFacts, KeptSettled DEF Resting
    <2> QED
      BY <2>1, <2>3, RestingGoes
  <1>11. ASSUME NEW n \in Net, Backward(n) PROVE Going
    <2>1. /\ todo = <<>> /\ due' = MoreDue(due, n, {n})
          /\ todo' = <<[net |-> n, call |-> "target"]>>
          /\ UNCHANGED <<has, content, gradient, link, detached, used, causes>>
      BY <1>11 DEF Backward, Call, deltaVars, chainVars
    <2>2. \A m \in Net : Settled(m, gradient, due) =>
              ExactFor(m, <<[net |-> n, call |-> "target"]>>, content, used, link, detached,
                       gradient, MoreDue(due, n, {n}))
      BY <1>0, BackwardStarts
    <2> QED
      BY <2>1, <2>2, CallBegins
  <1>12. ASSUME NEW n \in Net, Optimize(n) PROVE Going
    <2>1. /\ todo = <<>> /\ due' = MoreDue(due, n, Upstream(n))
          /\ todo' = <<[net |-> n, call |-> "loss"]>>
          /\ UNCHANGED <<has, content, gradient, link, detached, used, causes>>
      BY <1>12 DEF Optimize, Call, deltaVars, chainVars
    <2>2. \A m \in Net : Settled(m, gradient, due) =>
              ExactFor(m, <<[net |-> n, call |-> "loss"]>>, content, used, link, detached,
                       gradient, MoreDue(due, n, Upstream(n)))
      BY <1>0, OptimizeStarts
    <2> QED
      BY <2>1, <2>2, CallBegins
  <1> HIDE DEF Going
  <1> QED
    BY <1>4, <1>6, <1>7, <1>8, <1>9, <1>10, <1>11, <1>12 DEF Called

LEMMA TrainBatchGoes ==
    ASSUME Base, ExactNow, NEW n \in Net, NEW b \in arch.sizes, NEW fill \in Fill,
           TrainBatch(n, b, fill), phase' = "built"
    PROVE  Going
  <1>1. NetsThere
    BY BaseFacts
  <1>2. b \in Nat /\ fill \in Nat
    BY <1>1, TrainingAssumption, FillAssumption DEF NetsThere
  <1>3. todo = <<>> /\ todo' = <<>>
    BY DEF TrainBatch, Call
  <1>4. Quiet
    BY <1>3, NowQuiet
  <1>5. CASE TooFew(b)
    <2>1. TrainTooFew(n, b)
      BY <1>5 DEF TrainBatch
    <2> QED
      BY <1>2, <1>3, <1>4, <2>1, TooFewExact, RestingGoes DEF TrainTooFew
  <1>6. CASE ~ TooFew(b)
    <2>1. PICK st : st = ZeroGrads(Reset(Resized(State, n, b), n), n)
      OBVIOUS
    <2>2. Started(st, n)
      BY <1>2, <1>4, <2>1, TrainStart
    <2>3. TrainAll(n, b, fill)
      BY <1>6 DEF TrainBatch
    <2>4. /\ Becomes(SweepOf(st, n, fill))
          /\ phase' = IF SweepOf(st, n, fill).broken \/ NoRemainder THEN "crashed" ELSE phase
          /\ due' = MoreDue(NothingDue(n), n, {n}) /\ used' = used \cup LayersOf(n)
          /\ causes' = [causes EXCEPT ![n] = SweepCauses(st, n, {}, FALSE)]
      BY <2>1, <2>3 DEF TrainAll, SweepOf
    <2>5. ~ SweepOf(st, n, fill).broken
      BY <2>4
    <2> QED
      BY <1>2, <1>3, <1>4, <2>2, <2>4, <2>5, TrainExact, RestingGoes
  <1> QED
    BY <1>5, <1>6

LEMMA UpdateGoes ==
    ASSUME Base, ExactNow, NEW n \in Net, Update(n)
    PROVE  Going
  <1>1. UNCHANGED <<has, content, gradient, due, link, detached, used, causes, todo>>
    BY DEF Update, backVars, deltaVars, gradVars, chainVars
  <1> QED
    BY <1>1, BaseFacts DEF Going, ExactNow

LEMMA StepGoes ==
    ASSUME Base, ExactNow, Next, ~ Build, phase' = "built", State' \in States
    PROVE  Going
  <1> HIDE DEF Going
  <1>1. CASE Called
    BY <1>1, CalledGoes
  <1>2. ASSUME NEW fill \in Fill, SweepStep(fill) PROVE Going
    BY <1>2, SweepStepGoes
  <1>3. ASSUME NEW n \in Net, Update(n) PROVE Going
    BY <1>3, UpdateGoes
  <1>4. ASSUME NEW n \in Net, NEW b \in arch.sizes, NEW fill \in Fill, TrainBatch(n, b, fill)
        PROVE  Going
    BY <1>4, TrainBatchGoes
  <1> QED
    BY <1>1, <1>2, <1>3, <1>4, NextCases

-----------------------------------------------------------------------------
(* The invariant.                                                            *)

\* Until all nets are built there are no deltas and gradients, and then what is
\* missing from the gradients is what the sweeps to come will add.
ExactInv ==
    /\ phase \notin {"built", "crashed"} => BackInit
    /\ phase = "built" /\ Plain => ShapeInv /\ CleanIn(todo, content, used) /\ ExactNow

LEMMA FreshExact ==
    NetsThere /\ BackInit => ShapeInv /\ CleanIn(todo, content, used) /\ ExactNow
  <1> SUFFICES ASSUME NetsThere, BackInit
               PROVE  ShapeInv /\ CleanIn(todo, content, used) /\ ExactNow
    OBVIOUS
  <1>1. /\ todo = <<>> /\ content = [l \in Layer |-> 0] /\ gradient = [l \in Layer |-> 0]
        /\ due = [l \in Layer |-> 0] /\ netinput = [n \in DOMAIN arch.models |-> <<>>]
        /\ causes = [n \in DOMAIN arch.models |-> {}]
    BY DEF BackInit
  <1>2. \A n \in Net : LayersOf(n) \subseteq Layer
    BY NetThere
  <1>3. Normal(has, content)
    BY <1>1 DEF Normal
  <1>4. TodoShape(todo)
    BY <1>1 DEF TodoShape, AllChained
  <1>5. FedInv
    BY <1>1 DEF FedInv, Elements
  <1>6. \A n \in Net : \A o \in LayersOf(n) : content[o] = 0
    BY <1>1, <1>2
  <1>7. CleanIn(todo, content, used)
    BY <1>6 DEF CleanIn
  <1>8. \A m \in Net : Settled(m, gradient, due)
    BY <1>1, <1>2 DEF Settled
  <1>9. \A m : ~ Targeted(todo, m) /\ ~ GoesOn(todo)
    BY <1>1 DEF Targeted, GoesOn
  <1>10. ExactNow
    BY <1>8, <1>9 DEF ExactNow, ExactIn, ExactFor
  <1> QED
    BY <1>1, <1>3, <1>4, <1>5, <1>7, <1>10 DEF ShapeInv

LEMMA InitExactInv == Init => ExactInv
  BY DEF Init, GraphInit, ExactInv

LEMMA NetsThereNow == CrashInv => NetsThere
  BY CrashInvNets DEF CrashInv

LEMMA BuildExactInv ==
    ASSUME ExactInv, NetsThere', Build
    PROVE  ExactInv'
  <1>1. phase \notin {"built", "crashed"} /\ arch' = arch
    BY BuildGoesOn
  <1>2. UNCHANGED backVars
    BY DEF Build
  <1>3. BackInit'
    <2>1. BackInit
      BY <1>1 DEF ExactInv
    <2> QED
      BY <1>1, <1>2, <2>1 DEF BackInit, backVars, deltaVars, gradVars, chainVars, Layer
  <1>4. (NetsThere /\ BackInit)'
    BY <1>3
  <1>5. (ShapeInv /\ CleanIn(todo, content, used) /\ ExactNow)'
    BY <1>4, FreshExact, PTL
  <1> QED
    BY <1>3, <1>5 DEF ExactInv

LEMMA SameShape ==
    ASSUME UNCHANGED <<arch, nets>>, Normal(has', content'), TodoShape(todo'), FedInv',
           DOMAIN causes' = DOMAIN arch.models
    PROVE  ShapeInv'
  <1>1. Normal(has, content)'
    BY SameGraph DEF Normal
  <1>2. TodoShape(todo)'
    <2>1. Calling' = Calling
      BY SameNetsThere
    <2> QED
      BY <2>1 DEF TodoShape, AllChained
  <1> QED
    BY <1>1, <1>2 DEF ShapeInv

LEMMA CallExactInv ==
    ASSUME NetsThere, SweepInv, TrainInv, ExactInv, SweepInv', Next, ~ Build
    PROVE  ExactInv'
  <1>1. UNCHANGED <<arch, nets>> /\ phase = "built" /\ phase' \in {"built", "crashed"}
    BY CallsKeepGraph DEF GraphKept
  <1>2. SUFFICES ASSUME phase' = "built", Plain'
                 PROVE  (ShapeInv /\ CleanIn(todo, content, used) /\ ExactNow)'
    BY <1>1 DEF ExactInv
  <1>3. Plain
    BY <1>1, <1>2, SamePlain
  <1>4. ShapeInv /\ CleanIn(todo, content, used) /\ ExactNow
    BY <1>1, <1>3 DEF ExactInv
  <1>5. Base
    BY <1>3, <1>4 DEF Base, TrainInv, DeltaInv, Plain
  <1>6. State' \in States
    BY <1>1, SameNetsThere DEF SweepInv
  <1>7. Going
    BY <1>2, <1>4, <1>5, <1>6, StepGoes
  <1>8. FedInv'
    BY <1>4, FedStep DEF ShapeInv
  <1>9. ShapeInv'
    BY <1>1, <1>7, <1>8, SameShape DEF Going
  <1>10. CleanIn(todo, content, used)'
    BY <1>1, <1>7, SameCleanIn DEF Going
  <1>11. ExactNow'
    BY <1>1, <1>7, SameExactIn DEF Going, ExactNow
  <1> QED
    BY <1>9, <1>10, <1>11

LEMMA StutterExactInv ==
    ASSUME ExactInv, UNCHANGED vars
    PROVE  ExactInv'
  <1>1. /\ UNCHANGED <<arch, nets, phase, has, content, used, link, detached, gradient, due,
                       causes, todo, netinput>>
        /\ UNCHANGED backVars
    BY DEF vars, graphVars, buildVars, backVars, deltaVars, gradVars, chainVars
  <1>2. CASE phase \notin {"built", "crashed"}
    <2>1. BackInit'
      BY <1>1, <1>2 DEF ExactInv, BackInit, backVars, deltaVars, gradVars, chainVars, Layer
    <2> QED
      BY <1>1, <1>2, <2>1 DEF ExactInv
  <1>3. CASE phase = "crashed"
    BY <1>1, <1>3 DEF ExactInv
  <1>4. CASE phase = "built"
    <2>1. SUFFICES ASSUME Plain'
                   PROVE  (ShapeInv /\ CleanIn(todo, content, used) /\ ExactNow)'
      BY <1>1, <1>4 DEF ExactInv
    <2>2. Plain
      BY <1>1, <2>1, SamePlain
    <2>3. ShapeInv /\ CleanIn(todo, content, used) /\ ExactNow
      BY <1>4, <2>2 DEF ExactInv
    <2>4. FedInv'
      BY <1>1, <2>3, FedSame DEF ShapeInv
    <2>5. ShapeInv'
      BY <1>1, <2>3, <2>4, SameShape DEF ShapeInv
    <2>6. CleanIn(todo, content, used)'
      BY <1>1, <2>3, SameCleanIn
    <2>7. ExactNow'
      BY <1>1, <2>3, SameExactIn DEF ExactNow
    <2> QED
      BY <2>5, <2>6, <2>7
  <1> QED
    BY <1>2, <1>3, <1>4

LEMMA NextExactInv ==
    CrashInv /\ CrashInv' /\ TrainInv /\ ExactInv /\ [Next]_vars => ExactInv'
  <1> SUFFICES ASSUME CrashInv, CrashInv', TrainInv, ExactInv, [Next]_vars PROVE ExactInv'
    OBVIOUS
  <1>1. NetsThere /\ SweepInv /\ SweepInv'
    BY NetsThereNow DEF CrashInv
  <1>2. NetsThere'
    BY NetsThereNow, PTL
  <1>3. CASE Build
    BY <1>2, <1>3, BuildExactInv
  <1>4. CASE Next /\ ~ Build
    BY <1>1, <1>4, CallExactInv
  <1>5. CASE UNCHANGED vars
    BY <1>5, StutterExactInv
  <1> QED
    BY <1>3, <1>4, <1>5

\* Whatever plain program is run: the weights of a layer get the gradient that
\* is due to them, the sum over all paths to the losses since the gradients were
\* zeroed, through the net's own sweeps and those that optimize() makes of the
\* nets after it, unless one of the causes is known.
THEOREM GradientsAlwaysExact == Spec => [](Plain => GradientsAreExact)
  <1>1. ExactInv => (Plain => GradientsAreExact)
    <2> SUFFICES ASSUME ExactInv, Plain, phase = "built", todo = <<>>,
                        NEW n \in Net, causes[n] = {}
                 PROVE  \A l \in LayersOf(n) : HasWeights(l) => gradient[l] = due[l]
      BY DEF GradientsAreExact
    <2>1. ExactNow
      BY DEF ExactInv
    <2>2. ~ Targeted(todo, n) /\ ~ GoesOn(todo)
      BY DEF Targeted, GoesOn
    <2>3. Settled(n, gradient, due)
      BY <2>1, <2>2 DEF ExactNow, ExactIn, ExactFor
    <2> QED
      BY <2>3 DEF Settled
  <1>2. Spec => []TrainInv
    BY InitTrainInv, NextTrainInv, SpecCrashInv, SpecPastInv, PTL DEF Spec
  <1>3. Spec => []ExactInv
    BY <1>2, InitExactInv, NextExactInv, SpecCrashInv, PTL DEF Spec
  <1> QED
    BY <1>1, <1>3, PTL
=============================================================================
