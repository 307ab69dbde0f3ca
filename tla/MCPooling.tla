----------------------------- MODULE MCPooling -----------------------------
(* Values for the constants of Pooling.                                     *)
EXTENDS Pooling

Dim(i, k, s, p) == [in |-> i, kernel |-> k, stride |-> s, pads |-> p]

\* Every window and stride up to 3, on inputs up to 5.
Dims == {Dim(i, k, s, <<0, 0>>) : i \in 1 .. 5, k \in 1 .. 3, s \in 1 .. 3}

\* The same on both sides or not, and as large as a window.
GivenPads == {<<0, 0>>, <<1, 1>>, <<0, 1>>, <<2, 2>>}
PaddedDims == {Dim(i, k, s, p) : i \in {1, 4}, k \in {1, 2, 3}, s \in {1, 2},
                                 p \in GivenPads}

Single == Dim(1, 1, 1, <<0, 0>>)
Cubes(S) == UNION {{<<a, b, c>> : b \in S, c \in {a, d}} : a, d \in S}
SomeDims == {Dim(i, k, s, <<0, 0>>) : i \in {3, 4}, k \in {1, 3}, s \in {1, 2}}

Pool(dims, padding, rank, max, mem) ==
    [dims |-> dims, padding |-> padding, rank |-> rank, max |-> max, mem |-> mem]

PoolingLayers ==
    {Pool(<<d, Single>>, p, 1, max, mem) :
        d \in Dims, p \in {"same", "none"}, max \in BOOLEAN, mem \in {0, 1}}
    \cup {Pool(<<d, Single>>, "custom", 1, TRUE, 0) : d \in PaddedDims}
    \cup {Pool(<<d, e>>, p, 2, TRUE, 0) : d, e \in Dims, p \in {"same", "none"}}
    \cup {Pool(<<d, e>>, "custom", 2, TRUE, 0) : d, e \in PaddedDims}
    \cup {Pool(<<d, d>>, p, 2, max, 1) :
             d \in Dims, p \in {"same", "none"}, max \in BOOLEAN}
    \cup {Pool(c, p, 3, TRUE, 0) : c \in Cubes(SomeDims), p \in {"same", "none"}}
=============================================================================
