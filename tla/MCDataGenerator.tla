-------------------------- MODULE MCDataGenerator --------------------------
(* Values for the constants of DataGenerator.                               *)
EXTENDS DataGenerator

\* Generators for training, for validation and for a test, of different sizes.
CONSTANTS train, val, test

\* Two producers go round the ring twice, one producer once and a bit, and the
\* last generator has more buffers than batches.
Batches == [g \in Gen |-> IF g = test THEN 1 ELSE 4]
Buffers == [g \in Gen |-> IF g = val THEN 3 ELSE 2]
Threads == [g \in Gen |-> IF g = train THEN 2 ELSE 1]
=============================================================================
