------------------------- MODULE MCWeightAveraging -------------------------
(* Values for the constants of WeightAveraging.                             *)
EXTENDS WeightAveraging

\* Three batches for each rank, one each, none at all, and a batch smaller than
\* the number of ranks.  A batch_avg of 0 is one of the intervals.
Long    == [batch |-> 2 * N, size |-> 6 * N + 1, epochs |-> 2]
Short   == [batch |-> N, size |-> N, epochs |-> 1]
Empty   == [batch |-> 2 * N, size |-> 2 * N - 1, epochs |-> 1]
TooThin == [batch |-> N - 1, size |-> N, epochs |-> 1]

TwoFits == {<<Long, Short>>, <<Short, Long>>, <<Empty, Long>>, <<Long, TooThin>>}

TwoFitPrograms ==
    [method : Method, avg : {0, 1, 2, 4}, every : {0, 1, 2}, early : BOOLEAN,
     fits : TwoFits]
=============================================================================
