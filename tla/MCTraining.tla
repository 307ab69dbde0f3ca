----------------------------- MODULE MCTraining -----------------------------
(* Values for the constants of Training.                                    *)
EXTENDS Training

\* A net that is trained by itself, one that goes on from other nets, and a
\* loss graph, which always has one input per feed and one output with a loss.
Alone(in, out, losses, mem) ==
    [in |-> in, out |-> out, losses |-> losses, mem |-> mem, isLoss |-> FALSE,
     feeds |-> <<>>]
Following(feeds, in, out, losses, mem) ==
    [Alone(in, out, losses, mem) EXCEPT !.feeds = feeds]
LossOf(feeds, in, out) ==
    [Following(feeds, in, <<out>>, 1, 0) EXCEPT !.isLoss = TRUE]

Program(parent, views, models, devices, lsb, sizes, n) ==
    [parent |-> parent, views |-> views, models |-> models, devices |-> devices,
     lsb |-> lsb, sizes |-> sizes, calls |-> n]

-----------------------------------------------------------------------------
\* x -> h -> LAdd({h, h}) -> LAdd({.., x})
Residual(mem) == Program(<< <<>>, <<1>>, <<2, 2>>, <<3, 1>> >>, {},
                         << Alone(<<1>>, <<4>>, 1, mem) >>, 1, 1, {1, 2}, 5)

\* One output is a layer of the way to the other; they are listed in both orders.
Inner(out, mem) == Program(<< <<>>, <<1>>, <<2>>, <<3>> >>, {3},
                           << Alone(<<1>>, out, 2, mem) >>, 1, 1, {1, 2}, 5)

\* Two inputs, two outputs: the second input comes first in the graph's walk.
Crossed == Program(<< <<>>, <<>>, <<2, 1>>, <<1>>, <<2, 4>> >>, {},
                   << Alone(<<1, 2>>, <<3, 5>>, 2, 0) >>, 2, 2, {2}, 2)

\* On several devices, with every number of batches between two averages; one
\* sample is too few for two devices, three cannot be halved.
OnDevices(lsb, sizes, n) ==
    Program(<< <<>>, <<1>>, <<2>> >>, {}, << Alone(<<1>>, <<3>>, 1, 0) >>, 2, lsb, sizes, n)

\* encoder -> decoder -> loss; the loss counts its input twice
Chain(mem, losses, n) ==
    Program(<< <<>>, <<1>>, <<>>, <<3>>, <<>>, <<5, 5>> >>, {},
            << Alone(<<1>>, <<2>>, 0, mem), Following(<<2>>, <<3>>, <<4>>, losses, mem),
               LossOf(<<4>>, <<5>>, 6) >>, 1, 1, {2}, n)

\* Two losses on one net that lists no output; one sees its last layer in
\* another form.
TwoLosses(feed, n) ==
    Program(<< <<>>, <<1>>, <<2>>, <<>>, <<4>>, <<>>, <<6>> >>, {3},
            << Alone(<<1>>, <<>>, 0, 0), LossOf(<<3>>, <<4>>, 5),
               LossOf(<<feed>>, <<6>>, 7) >>, 1, 1, {2}, n)

\* A loss of two layers, or of one of them twice.
LossOfTwo(feeds) ==
    Program(<< <<>>, <<1>>, <<2>>, <<>>, <<>>, <<4, 5>> >>, {},
            << Alone(<<1>>, <<3>>, 0, 0), LossOf(feeds, <<4, 5>>, 6) >>, 1, 1, {2}, 6)

\* Two nets go on from one, and a loss has both.
Diamond ==
    Program(<< <<>>, <<1>>, <<>>, <<3>>, <<>>, <<5>>, <<>>, <<>>, <<7, 8>> >>, {},
            << Alone(<<1>>, <<2>>, 0, 0), Following(<<2>>, <<3>>, <<4>>, 0, 0),
               Following(<<2>>, <<5>>, <<6>>, 0, 0),
               LossOf(<<4, 6>>, <<7, 8>>, 9) >>, 1, 1, {2}, 5)

\* Layer 3 leads nowhere.
DeadEnd == Program(<< <<>>, <<1>>, <<1>> >>, {}, << Alone(<<1>>, <<2>>, 1, 0) >>, 1, 1, {2}, 2)

\* Every net of four layers with up to two parents each, one or two inputs and
\* one or two outputs, listed in either order.
Nodes(k) == UNION {[1 .. n -> 1 .. k] : n \in 1 .. 2}

SmallNets(devices, outs, n) ==
    {Program(<< <<>>, second, third, fourth >>, {},
             << Alone(IF second = <<>> THEN in ELSE <<1>>, out, Len(out), 0) >>,
             devices, 2, {2}, n) :
        second \in Nodes(1) \cup {<<>>}, third \in Nodes(2), fourth \in Nodes(3),
        in \in {<<1, 2>>, <<2, 1>>}, out \in outs}

Programs ==
    {Residual(m) : m \in {0, 1}}
    \cup {Inner(o, m) : o \in {<<2, 4>>, <<4, 2>>, <<2, 3>>}, m \in {0, 1}}
    \cup {Crossed, DeadEnd, OnDevices(0, {2}, 2)}
    \cup {OnDevices(lsb, {1, 3}, 7) : lsb \in {1, 2, 3}}
    \cup {Chain(0, 0, 6), Chain(0, 1, 5), Chain(1, 0, 5)}
    \cup {TwoLosses(1, 5), TwoLosses(2, 5), TwoLosses(3, 6)}
    \cup {LossOfTwo(<<2, 3>>), LossOfTwo(<<3, 3>>), Diamond}
    \cup SmallNets(1, {<<4>>, <<3, 4>>}, 1)
    \cup SmallNets(2, {<<4>>, <<2, 4>>, <<4, 3>>}, 0)
=============================================================================
