----------------------------- MODULE MCCluster -----------------------------
(* Values for the constants of Cluster.                                     *)
EXTENDS Cluster

CONSTANTS w1, g1, g2

\* The first worker owns the gradients.
FirstWorker == [g \in Gradients |-> w1]

OwnIds == [g \in Gradients |-> g]

\* Gradients over bad connections and perhaps a STOP.
Training == [gradients |-> {g1, g2}, signals |-> {"stop"}, refusals |-> TRUE,
             losses |-> TRUE, longWaits |-> TRUE]

\* SHUTDOWN over good connections.
Closing == [gradients |-> {}, signals |-> {"shutdown"}, refusals |-> FALSE,
            losses |-> FALSE, longWaits |-> FALSE]

TrainingAndClosing == {Training, Closing}
=============================================================================
