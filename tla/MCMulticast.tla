---------------------------- MODULE MCMulticast ----------------------------
(* Values for the constants of Multicast that the configurations share.     *)
EXTENDS Multicast, TLC

CONSTANT m1

\* One data packet, and two of which the last is shorter.
ShortMessages == [m \in Message |-> 3]
LongMessages  == [m \in Message |-> 7]

\* The first message has two data packets, the others one.
MixedMessages == [m \in Message |-> IF m = m1 THEN 7 ELSE 3]

\* Ids that tell the messages apart, and one id for all of them.
OwnIds    == [m \in Message |-> m]
SharedIds == [m \in Message |-> "id"]

WorkerSymmetry == Permutations(Worker)
=============================================================================
