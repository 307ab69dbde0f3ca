---------------------------- MODULE BatchStream ----------------------------
(***************************************************************************)
(* What a data generator promises to a training loop: from the moment it is *)
(* started until it is stopped it gives batches of its data set, whole and  *)
(* none of them twice.  Buffers, threads and semaphores do not show.        *)
(***************************************************************************)
EXTENDS Integers, Sequences, Functions

CONSTANTS Gen,    \* the data generators of a program
          NoGen,  \* none of them
          Nbpp    \* [Gen -> batches of an epoch]

VARIABLES owner,  \* the generator that is running
          given   \* the batches it has given, in order

vars == <<owner, given>>

Init == owner = NoGen /\ given = <<>>

Open(g) == /\ owner = NoGen
           /\ owner' = g
           /\ given' = <<>>

Give(b) == /\ owner # NoGen
           /\ b \notin Range(given)
           /\ given' = Append(given, b)
           /\ UNCHANGED owner

Close == /\ owner # NoGen
         /\ owner' = NoGen
         /\ given' = <<>>

Next == \/ \E g \in Gen : Open(g)
        \/ owner # NoGen /\ \E b \in 0 .. Nbpp[owner] - 1 : Give(b)
        \/ Close

Spec == Init /\ [][Next]_vars
=============================================================================
