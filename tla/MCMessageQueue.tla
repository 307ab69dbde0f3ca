--------------------------- MODULE MCMessageQueue ---------------------------
(* Values for the constants of MessageQueue.                                *)
EXTENDS MessageQueue

CONSTANTS main, reader  \* two producers

Only(m, r, c) == [t \in Caller |-> IF t = main THEN m ELSE IF t = reader THEN r ELSE c]

\* The master's input queue: reading threads push, the main thread pops at once
\* and asks for the size, signals come.
InputQueue(spurious) ==
    [looks |-> FALSE, calls |-> Only({"push"}, {"push"}, {"size"}), signals |-> 2,
     spurious |-> spurious]

\* An output queue: the main thread pushes and clears, a reading thread pushes
\* acknowledgements, a sender looks and pops.
OutputQueue(spurious) ==
    [looks |-> TRUE, calls |-> Only({"push", "clear"}, {"push_front"}, {}),
     signals |-> 0, spurious |-> spurious]

\* Acknowledgements, which nobody clears; messages that the sender itself puts
\* back, which stop() clears.
AckQueue == [looks |-> TRUE, calls |-> Only({"push"}, {"push"}, {}), signals |-> 0,
             spurious |-> TRUE]
PendingQueue == [looks |-> TRUE, calls |-> Only({"clear"}, {}, {"push"}), signals |-> 0,
                 spurious |-> TRUE]

QueueUses == {InputQueue(FALSE), InputQueue(TRUE), OutputQueue(FALSE),
              OutputQueue(TRUE), AckQueue, PendingQueue}
=============================================================================
