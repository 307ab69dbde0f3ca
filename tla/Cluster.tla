------------------------------ MODULE Cluster ------------------------------
(***************************************************************************)
(* The main threads of the master and of the workers on top of TcpLink: the  *)
(* commands START, STOP and SHUTDOWN, which signals give to the master and   *)
(* the master to the workers, the status of a worker, the gradients it       *)
(* sends, and the end of all processes.                                     *)
(***************************************************************************)
EXTENDS TcpLink, SequencesExt

CONSTANTS MaxOutput,   \* a worker adds gradients to a shorter output queue
          MaxSignals   \* bound on how often the master is signalled a command

ASSUME ClusterAssumption ==
    MaxOutput \in Nat /\ MaxSignals \in Nat

VARIABLES
    signals,   \* how many signals the master got
    mainPc,    \* main threads: "read"; then "cleared" in a worker, "sleep" in
               \* the master; "stopping", "ended"
    status,    \* worker_status
    produced   \* gradients that were put in an output queue

mainVars == <<world, signals, mainPc, status, produced>>
vars == <<tcpVars, mainVars>>

\* A command to every worker, in the order of the master's list.
ToWorkers(c, num) ==
    LET list == SetToSeq(Worker)
    IN  [i \in DOMAIN list |-> Command(c, list[i], num)]

Init ==
    /\ TcpInit
    /\ output = [n \in Node |-> IF n = Master THEN ToWorkers("start", 0) ELSE <<>>]
    /\ signals = 0 /\ mainPc = [n \in Node |-> "read"]
    /\ status = [w \in Worker |-> "waiting"]
    /\ produced = {}

MainGoto(n, from, to) == /\ Up(n) /\ mainPc[n] = from
                         /\ mainPc' = [mainPc EXCEPT ![n] = to]

-----------------------------------------------------------------------------
\* The master.

\* handler_funtion() turns a signal into a command.
Signal(c) ==
    /\ c \in world.signals
    /\ Up(Master) /\ signals < MaxSignals
    /\ signals' = signals + 1
    /\ Push(input, Master, Command(c, Master, signals'))
    /\ UNCHANGED <<world, output, ackQueue, received, lost, senderVars, receiverVars,
                   senderActive, receiverActive, mainPc, status, produced>>

\* The first command makes a TCP receiver aware of the end, the second one
\* unlocks its acceptor; both go to the workers and to the master itself.
ShutdownCommands ==
    ToWorkers("shutdown", 1) \o <<Command("shutdown", Master, 1)>>
    \o ToWorkers("shutdown", 2) \o <<Command("shutdown", Master, 2)>>

\* START and STOP are passed on, SHUTDOWN replaces what waits in the output
\* queue; any other message is deleted.
MasterReads ==
    /\ input[Master] # <<>>
    /\ LET m == Head(input[Master])
       IN  /\ MainGoto(Master, "read",
                       IF m.kind = "shutdown" THEN "sleep" ELSE "read")
           /\ output' = [output EXCEPT ![Master] =
                  CASE m.kind \in {"start", "stop"} -> @ \o ToWorkers(m.kind, m.num)
                    [] m.kind = "shutdown" -> ShutdownCommands
                    [] OTHER -> @]
    /\ Pop(input, Master)
    /\ UNCHANGED <<ackQueue, received, lost, senderVars, receiverVars, senderActive,
                   receiverActive, signals, status, produced>>

\* Mutant: no wait.
SleepEndsAtOnce == TRUE

\* The second it sleeps is enough to send the commands if no peer refuses.
SleepEnds ==
    \/ failed[Master]
    \/ output[Master] = <<>> /\ hand[Master] = NoMessage

-----------------------------------------------------------------------------
\* Worker w.

\* What a command makes of the status.
StatusAfter(c, old) ==
    CASE c = "start" /\ old = "waiting" -> "running"
      [] c = "stop" /\ old \in {"waiting", "running"} -> "stopping"
      [] c = "shutdown" -> "to shutdown"
      [] OTHER -> old

WorkerReads(w) ==
    /\ input[w] # <<>>
    /\ MainGoto(w, "read", "read")
    /\ status' = [status EXCEPT ![w] = StatusAfter(Head(input[w]).kind, @)]
    /\ Pop(input, w)
    /\ UNCHANGED <<output, ackQueue, received, lost, senderVars, receiverVars,
                   senderActive, receiverActive, signals, produced>>

\* Once the input queue is empty the worker acts on its status.
Acts(w, to) == input[w] = <<>> /\ MainGoto(w, "read", to)

Produce(w, g) ==
    /\ status[w] = "running" /\ Len(output[w]) < MaxOutput
    /\ OwnerOf[g] = w /\ g \in world.gradients \ produced
    /\ Acts(w, "read")
    /\ produced' = produced \cup {g}
    /\ Push(output, w, GradientsOf(g))
    /\ UNCHANGED <<ackQueue, input, received, lost, senderVars, receiverVars,
                   senderActive, receiverActive, signals, status>>

\* Mutant: it waits for the acknowledgements, too.
HasStoppedAcknowledged(w) ==
    /\ status[w] = "stopping" /\ output[w] = <<>> /\ sent[w] = {}
    /\ Acts(w, "read")
    /\ status' = [status EXCEPT ![w] = "waiting"]
    /\ UNCHANGED <<tcpVars, signals, produced>>

\* STOPPING lasts until everything has left the output queue; in every other
\* case the worker just sleeps.
HasStopped(w) ==
    /\ status[w] = "stopping" /\ output[w] = <<>>
    /\ Acts(w, "read")
    /\ status' = [status EXCEPT ![w] = "waiting"]
    /\ UNCHANGED <<tcpVars, signals, produced>>

ClearOutput(w) ==
    /\ status[w] = "to shutdown"
    /\ Acts(w, "cleared")
    /\ output' = [output EXCEPT ![w] = <<>>]
    /\ UNCHANGED <<ackQueue, input, received, lost, senderVars, receiverVars,
                   senderActive, receiverActive, signals, status, produced>>

-----------------------------------------------------------------------------
\* The end of any process: TCP_Sender::stop() clears its flag ...
StopSender(n) ==
    /\ IF n = Master THEN SleepEnds /\ MainGoto(n, "sleep", "stopping")
                     ELSE MainGoto(n, "cleared", "stopping")
    /\ senderActive' = [senderActive EXCEPT ![n] = FALSE]
    /\ UNCHANGED <<queueVars, senderVars, receiverVars, receiverActive,
                   signals, status, produced>>

\* ... and the queue of pending messages; TCP_Receiver::stop() follows.
StopReceiver(n) ==
    /\ MainGoto(n, "stopping", "ended")
    /\ pending' = [pending EXCEPT ![n] = <<>>]
    /\ receiverActive' = [receiverActive EXCEPT ![n] = FALSE]
    /\ UNCHANGED <<queueVars, failed, sent, senderPc, hand, receiverVars,
                   senderActive, signals, status, produced>>

-----------------------------------------------------------------------------
WorkerStep(w) ==
    \/ WorkerReads(w) \/ \E g \in Gradients : Produce(w, g)
    \/ HasStopped(w) \/ ClearOutput(w)

MainStep(n) ==
    /\ \/ n = Master /\ MasterReads
       \/ n \in Worker /\ WorkerStep(n)
       \/ StopSender(n) \/ StopReceiver(n)
    /\ UNCHANGED world

Next == \/ \E n \in Node : MainStep(n) \/ (TcpStep(n) /\ UNCHANGED mainVars)
        \/ \E c \in Commands : Signal(c)

Spec == Init /\ [][Next]_vars

\* Threads run, and nobody is refused for ever; nothing but a push or luck
\* gets a thread out of pop().
Fairness ==
    \A n \in Node :
        /\ WF_vars(MainStep(n))
        /\ WF_vars(SenderRuns(n) /\ UNCHANGED mainVars)
        /\ SF_vars(Send(n) /\ UNCHANGED mainVars)
        /\ SF_vars(Recover(n) /\ UNCHANGED mainVars)
        /\ WF_vars(ReceiverStep(n) /\ UNCHANGED mainVars)

FairSpec == Spec /\ Fairness

-----------------------------------------------------------------------------
TypeOK ==
    /\ world \in Worlds /\ TcpTypeOK
    /\ signals \in 0 .. MaxSignals
    /\ mainPc \in [Node -> {"read", "cleared", "sleep", "stopping", "ended"}]
    /\ status \in [Worker -> {"waiting", "running", "stopping", "to shutdown"}]
    /\ produced \subseteq world.gradients

Serving(n) == mainPc[n] = "read"

\* Whatever fails and is tried again, gradients are never in two places, nor
\* reach the master twice; and while the worker that produced them serves they
\* are in one, unless a connection lost them or they got too old.
InOnePlace ==
    \A g \in Gradients :
        /\ Copies(g) <= 1
        /\ g \in produced \ lost /\ Up(OwnerOf[g]) /\ Serving(OwnerOf[g]) =>
               Copies(g) = 1

\* Gradients that are not lost get to the master, however often it refuses
\* them, unless their worker or the master shuts down. (What is received or
\* lost remains so: again and again all that was produced is done with.)
GradientsArrive ==
    []<> (\A g \in produced :
             g \in received \cup lost \/ ~ Serving(OwnerOf[g]) \/ ~ Serving(Master))

\* A worker that stops completes what it has to send and leaves that status.
StoppingEnds == \A w \in Worker : []<> (status[w] # "stopping")

\* When no peer refuses a connection of the master, its SHUTDOWN ends the
\* main threads of all workers.
WorkersShutDown ==
    []<> (mainPc[Master] = "ended" =>
             failed[Master] \/ \A w \in Worker : mainPc[w] = "ended")
=============================================================================
