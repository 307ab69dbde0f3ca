------------------------- MODULE ReliableMulticast -------------------------
(***************************************************************************)
(* What the multicast of the distributed mode promises, without packets,    *)
(* acknowledgements or threads: every live worker receives a message at     *)
(* most once, receives nothing that was not submitted, and a message is     *)
(* reported as sent only when no live worker lacks it.                      *)
(***************************************************************************)
EXTENDS FiniteSets

CONSTANTS Message, Worker

VARIABLES status,     \* what the master knows of each message
          received,   \* the messages each worker has received
          down        \* the workers that have died

vars == <<status, received, down>>

TypeOK == /\ status \in [Message -> {"new", "submitted", "sent", "failed"}]
          /\ received \in [Worker -> SUBSET Message]
          /\ down \subseteq Worker

Init == /\ status = [m \in Message |-> "new"]
        /\ received = [w \in Worker |-> {}]
        /\ down = {}

Submit(m) == /\ status[m] = "new"
             /\ status' = [status EXCEPT ![m] = "submitted"]
             /\ UNCHANGED <<received, down>>

\* Late packets may still complete a message the master has given up.
Receive(w, m) == /\ status[m] \in {"submitted", "failed"}
                 /\ w \notin down
                 /\ m \notin received[w]
                 /\ received' = [received EXCEPT ![w] = @ \cup {m}]
                 /\ UNCHANGED <<status, down>>

ReportSent(m) == /\ status[m] = "submitted"
                 /\ \A w \in Worker \ down : m \in received[w]
                 /\ status' = [status EXCEPT ![m] = "sent"]
                 /\ UNCHANGED <<received, down>>

ReportFailed(m) == /\ status[m] = "submitted"
                   /\ status' = [status EXCEPT ![m] = "failed"]
                   /\ UNCHANGED <<received, down>>

Crash(w) == /\ w \notin down
            /\ down' = down \cup {w}
            /\ UNCHANGED <<status, received>>

Next == \/ \E m \in Message : Submit(m) \/ ReportSent(m) \/ ReportFailed(m)
        \/ \E w \in Worker, m \in Message : Receive(w, m)
        \/ \E w \in Worker : Crash(w)

Spec == Init /\ [][Next]_vars
=============================================================================
