--------------------------- MODULE ClusterProofs ---------------------------
(***************************************************************************)
(* Messages of the master and the workers over TCP, for any number of        *)
(* workers and gradients, any ids, and any world.                           *)
(*                                                                         *)
(* All that is claimed about gradients follows from how often they and their  *)
(* acknowledgement are somewhere: before their arrival, after it, and on the   *)
(* way back (Before, After, Acks).  Every step moves them along this path,     *)
(* loses them, or leaves them where they are.                                 *)
(***************************************************************************)
EXTENDS Cluster, FiniteSetTheorems, SequenceTheorems, TLAPS

-----------------------------------------------------------------------------
(* How often a message is in a queue *)

Positions(m, q) == {i \in DOMAIN q : q[i] = m}

LEMMA OccurType ==
    ASSUME NEW S, NEW q \in Seq(S), NEW m
    PROVE  /\ IsFiniteSet(Positions(m, q))
           /\ Cardinality(Positions(m, q)) = Occurrences(m, q)
           /\ Occurrences(m, q) \in Nat
           /\ Occurrences(m, q) = 0 <=> m \notin Range(q)
  <1> DEFINE P == Positions(m, q)
  <1>1. Len(q) \in Nat /\ DOMAIN q = 1 .. Len(q)
    BY LenProperties
  <1>2. IsFiniteSet(P)
    <2>1. P \in SUBSET (1 .. Len(q))
      BY <1>1 DEF Positions
    <2>2. IsFiniteSet(1 .. Len(q))
      BY <1>1, FS_Interval
    <2> QED
      BY <2>1, <2>2, FS_Subset
  <1>3. Cardinality(P) \in Nat /\ (Cardinality(P) = 0 <=> P = {})
    BY <1>2, FS_CardinalityType, FS_EmptySet
  <1>4. P = {} <=> m \notin Range(q)
    BY DEF Range, Positions
  <1>5. Cardinality(P) = Occurrences(m, q)
    BY DEF Positions, Occurrences
  <1> QED
    BY <1>2, <1>3, <1>4, <1>5

LEMMA NoneInEmpty ==
    ASSUME NEW m
    PROVE  Occurrences(m, <<>>) = 0
  <1>1. <<>> \in Seq({}) /\ m \notin Range(<<>>)
    BY EmptySeq DEF Range
  <1> QED
    BY <1>1, OccurType

LEMMA OneIsNumber ==
    ASSUME NEW c \in BOOLEAN
    PROVE  One(c) \in {0, 1} /\ (One(c) = 1 <=> c)
  BY DEF One

LEMMA OccurAppend ==
    ASSUME NEW S, NEW q \in Seq(S), NEW e \in S, NEW m
    PROVE  Occurrences(m, Append(q, e)) = Occurrences(m, q) + One(e = m)
  <1> DEFINE P == Positions(m, q)
             R == Positions(m, Append(q, e))
  <1>1. /\ Len(q) \in Nat /\ DOMAIN q = 1 .. Len(q)
        /\ DOMAIN Append(q, e) = 1 .. Len(q) + 1
        /\ \A i \in 1 .. Len(q) : Append(q, e)[i] = q[i]
        /\ Append(q, e)[Len(q) + 1] = e
    BY AppendProperties, LenProperties
  <1>2. IsFiniteSet(P) /\ Cardinality(P) = Occurrences(m, q)
    BY OccurType
  <1>3. Cardinality(P) \in Nat
    BY <1>2, FS_CardinalityType
  <1>0. Cardinality(R) = Occurrences(m, Append(q, e))
    <2> DEFINE a == Append(q, e)
    <2>1. a \in Seq(S)
      BY <1>1
    <2> HIDE DEF a
    <2>2. Cardinality(Positions(m, a)) = Occurrences(m, a)
      BY <2>1, OccurType
    <2> QED
      BY <2>2 DEF a
  <1>4. CASE e = m
    <2>1. R = P \cup {Len(q) + 1} /\ Len(q) + 1 \notin P
      BY <1>1, <1>4 DEF Positions
    <2>2. Cardinality(R) = Cardinality(P) + 1
      BY <1>2, <2>1, FS_AddElement
    <2> QED
      BY <1>0, <1>2, <1>3, <1>4, <2>2 DEF One
  <1>5. CASE e # m
    <2>1. R = P
      BY <1>1, <1>5 DEF Positions
    <2> QED
      BY <1>0, <1>2, <1>3, <1>5, <2>1 DEF One
  <1> QED
    BY <1>4, <1>5

LEMMA OccurTail ==
    ASSUME NEW S, NEW q \in Seq(S), q # <<>>, NEW m
    PROVE  Occurrences(m, q) = Occurrences(m, Tail(q)) + One(Head(q) = m)
  <1> DEFINE P == Positions(m, q)
             T == Positions(m, Tail(q))
             R == P \ {1}
             next == [i \in T |-> i + 1]
  <1>1. /\ Tail(q) \in Seq(S) /\ Head(q) = q[1]
        /\ Len(q) \in Nat \ {0} /\ Len(Tail(q)) = Len(q) - 1
        /\ DOMAIN q = 1 .. Len(q) /\ DOMAIN Tail(q) = 1 .. Len(q) - 1
        /\ \A i \in 1 .. Len(q) - 1 : Tail(q)[i] = q[i + 1]
    BY HeadTailProperties, LenProperties, EmptySeq
  <1>2. /\ IsFiniteSet(P) /\ Cardinality(P) = Occurrences(m, q)
        /\ IsFiniteSet(T) /\ Cardinality(T) = Occurrences(m, Tail(q))
    BY <1>1, OccurType
  <1>3. next \in Bijection(T, R)
    <2>1. next \in [T -> R]
      BY <1>1 DEF Positions
    <2>2. \A i, j \in T : next[i] = next[j] => i = j
      BY <1>1 DEF Positions
    <2>3. ASSUME NEW j \in R PROVE \E i \in T : next[i] = j
      <3>1. j - 1 \in T /\ j \in Nat
        BY <1>1 DEF Positions
      <3>2. next[j - 1] = j
        BY <3>1
      <3> QED
        BY <3>1, <3>2
    <2> QED
      BY <2>1, <2>2, <2>3 DEF Bijection, Injection, Surjection, IsInjective
  <1>4. Cardinality(R) = Cardinality(T)
    <2>1. ExistsBijection(T, R)
      BY <1>3 DEF ExistsBijection
    <2> QED
      BY <1>2, <2>1, FS_Bijection
  <1>5. Cardinality(R) = IF 1 \in P THEN Cardinality(P) - 1 ELSE Cardinality(P)
    BY <1>2, FS_RemoveElement
  <1>6. 1 \in P <=> Head(q) = m
    BY <1>1 DEF Positions
  <1>7. Cardinality(P) \in Nat /\ Cardinality(T) \in Nat
    BY <1>2, FS_CardinalityType
  <1> HIDE DEF P, T, R, next
  <1> QED
    BY <1>2, <1>4, <1>5, <1>6, <1>7 DEF One

\* Other messages behind those of a queue change nothing.
LEMMA OccurConcat ==
    ASSUME NEW S, NEW q \in Seq(S), NEW r \in Seq(S), NEW m, m \notin Range(r)
    PROVE  Occurrences(m, q \o r) = Occurrences(m, q)
  <1>1. /\ Len(q) \in Nat /\ Len(r) \in Nat
        /\ DOMAIN q = 1 .. Len(q) /\ DOMAIN r = 1 .. Len(r)
    BY LenProperties
  <1>2. /\ q \o r \in Seq(S) /\ Len(q \o r) = Len(q) + Len(r)
        /\ \A i \in 1 .. Len(q) + Len(r) :
              (q \o r)[i] = IF i <= Len(q) THEN q[i] ELSE r[i - Len(q)]
    BY ConcatProperties
  <1>3. DOMAIN (q \o r) = 1 .. Len(q) + Len(r)
    BY <1>2, LenProperties
  <1>4. \A i \in 1 .. Len(r) : r[i] # m
    BY <1>1 DEF Range
  <1>5. ASSUME NEW i \in 1 .. Len(q) + Len(r), (q \o r)[i] = m
        PROVE  i \in 1 .. Len(q) /\ q[i] = m
    <2>1. CASE i <= Len(q)
      BY <1>1, <1>2, <1>5, <2>1
    <2>2. CASE ~ (i <= Len(q))
      <3>1. i - Len(q) \in 1 .. Len(r) /\ (q \o r)[i] = r[i - Len(q)]
        BY <1>1, <1>2, <2>2
      <3> QED
        BY <1>4, <1>5, <3>1
    <2> QED
      BY <2>1, <2>2
  <1>6. ASSUME NEW i \in 1 .. Len(q), q[i] = m
        PROVE  i \in 1 .. Len(q) + Len(r) /\ (q \o r)[i] = m
    BY <1>1, <1>2, <1>6
  <1>7. {i \in DOMAIN (q \o r) : (q \o r)[i] = m} = {i \in DOMAIN q : q[i] = m}
    BY <1>1, <1>3, <1>5, <1>6
  <1> QED
    BY <1>7 DEF Occurrences

-----------------------------------------------------------------------------
(* The invariant *)

\* All that is ever sent: commands of the master, and, between a worker and
\* the master, its gradients and their acknowledgements.
AckOf(g) == Acknowledgement(GradientsOf(g))

Orders == {Command(c, to, num) : c \in Commands, to \in Node, num \in Nat}
Letters == {GradientsOf(g) : g \in Gradients} \cup {AckOf(g) : g \in Gradients}
Mail == Orders \cup Letters

Outgoing(n) == {m \in Mail : m.from = n}
Incoming(n) == {m \in Mail : m.to = n}
Owned(n) == {g \in Gradients : OwnerOf[g] = n}

\* Everything is where its sender and its receiver have it.
SenderShape ==
    /\ senderActive \in [Node -> BOOLEAN] /\ failed \in [Node -> BOOLEAN]
    /\ senderPc \in [Node -> {"top", "choose", "pop pending", "pop output", "send",
                              "stopped", "aborted"}]
    /\ DOMAIN hand = Node
    /\ \A n \in Node : IF senderPc[n] = "send"
                       THEN hand[n] \in Outgoing(n) ELSE hand[n] = NoMessage
    /\ output = [n \in Node |-> output[n]] /\ pending = [n \in Node |-> pending[n]]
    /\ \A n \in Node : output[n] \in Seq(Outgoing(n)) /\ pending[n] \in Seq(Outgoing(n))
    /\ sent \in [Node -> SUBSET Range(IdOf)]

ReceiverShape ==
    /\ receiverActive \in [Node -> BOOLEAN] /\ accepting \in [Node -> BOOLEAN]
    /\ DOMAIN backlog = Node /\ DOMAIN reading = Node /\ DOMAIN delivering = Node
    /\ input = [n \in Node |-> input[n]] /\ ackQueue = [n \in Node |-> ackQueue[n]]
    /\ \A n \in Node :
          /\ backlog[n] \subseteq Incoming(n) /\ reading[n] \subseteq Incoming(n)
          /\ delivering[n] \subseteq {GradientsOf(g) : g \in Gradients} \cap Incoming(n)
          /\ input[n] \in Seq(Incoming(n)) /\ ackQueue[n] \in Seq(Owned(n))
    /\ received \subseteq Gradients /\ lost \subseteq Gradients

MainShape ==
    /\ world \in Worlds
    /\ signals \in 0 .. MaxSignals
    /\ mainPc \in [Node -> {"read", "cleared", "sleep", "stopping", "ended"}]
    /\ status \in [Worker -> {"waiting", "running", "stopping", "to shutdown"}]
    /\ produced \subseteq world.gradients
    /\ \A n \in Node : ~ senderActive[n] => mainPc[n] \in {"stopping", "ended"}

Shape == SenderShape /\ ReceiverShape /\ MainShape

\* How often a message is between the output queue of its sender and the
\* thread of its receiver that reads it.
Travels(m) ==
    Occurrences(m, output[m.from]) + Occurrences(m, pending[m.from])
    + One(hand[m.from] = m) + One(m \in backlog[m.to]) + One(m \in reading[m.to])

\* Gradients before and after they reach the master, and their acknowledgement.
Before(g) == Travels(GradientsOf(g))
After(g)  == One(GradientsOf(g) \in delivering[Master]) + One(g \in received)
Acks(g)   == Travels(AckOf(g)) + Occurrences(g, ackQueue[OwnerOf[g]])

\* Gradients exist once, and are acknowledged when they have arrived.
Counted(g) ==
    /\ Before(g) + After(g) <= 1
    /\ Acks(g) <= After(g)
    /\ g \in produced \/ Before(g) + After(g) = 0

NotGone(g) ==
    g \in produced \ lost /\ Up(OwnerOf[g]) /\ Serving(OwnerOf[g]) =>
        Before(g) + After(g) = 1

\* Sent, and not known to have arrived.
InFlight(g) == OnTheWay(GradientsOf(g)) \/ Acks(g) # 0

Remembered(g) ==
    InFlight(g) /\ Up(OwnerOf[g]) => IdOf[g] \in sent[OwnerOf[g]]

\* An id is used again only when its gradients are done with.
OneFlight(g, h) ==
    /\ g # h /\ OwnerOf[g] = OwnerOf[h] /\ IdOf[g] = IdOf[h]
    /\ Up(OwnerOf[g]) /\ InFlight(g)
    => ~ InFlight(h)

LinkInv ==
    /\ \A g \in Gradients : Counted(g) /\ NotGone(g) /\ Remembered(g)
    /\ \A g, h \in Gradients : OneFlight(g, h)

Inv == Shape /\ LinkInv

-----------------------------------------------------------------------------
(* What is sent *)

LEMMA Nodes ==
    /\ Master \in Node /\ Worker \subseteq Node /\ Master \notin Worker
    /\ \A g \in Gradients : OwnerOf[g] \in Worker
  BY TcpAssumption DEF Node

LEMMA LetterFields ==
    ASSUME NEW g \in Gradients
    PROVE  /\ GradientsOf(g) \in Letters /\ AckOf(g) \in Letters
           /\ GradientsOf(g).kind = "gradients" /\ GradientsOf(g).num = g
           /\ GradientsOf(g).from = OwnerOf[g] /\ GradientsOf(g).to = Master
           /\ AckOf(g).kind = "ack" /\ AckOf(g).num = g
           /\ AckOf(g).from = Master /\ AckOf(g).to = OwnerOf[g]
  BY DEF Letters, AckOf, Acknowledgement, GradientsOf

LEMMA OrderFields ==
    ASSUME NEW m \in Orders
    PROVE  /\ m.kind \in Commands /\ m.from = Master /\ m.to \in Node /\ m.num \in Nat
           /\ m \in Outgoing(Master) /\ m \in Message
  <1>1. PICK c \in Commands, to \in Node, num \in Nat : m = Command(c, to, num)
    BY DEF Orders
  <1> QED
    BY <1>1, Nodes DEF Command, Outgoing, Mail, Message

LEMMA OrderMade ==
    ASSUME NEW c \in Commands, NEW to \in Node, NEW num \in Nat
    PROVE  Command(c, to, num) \in Orders
  BY DEF Orders

LEMMA MailKinds ==
    ASSUME NEW m \in Mail
    PROVE  /\ m \in Message /\ m # NoMessage
           /\ m.from \in Node /\ m.to \in Node
           /\ m.kind \in Commands => m \in Orders
           /\ m.kind = "gradients" => \E g \in Gradients : m = GradientsOf(g)
           /\ m.kind = "ack" => \E g \in Gradients : m = AckOf(g)
           /\ m.kind \in Commands \/ m.kind = "gradients" \/ m.kind = "ack"
  <1>1. CASE m \in Orders
    BY <1>1, OrderFields, NoMessageAssumption, Nodes DEF Commands
  <1>2. ASSUME NEW g \in Gradients, m = GradientsOf(g) PROVE m \in Message /\ m.kind = "gradients"
    BY <1>2, Nodes DEF GradientsOf, Message
  <1>3. ASSUME NEW g \in Gradients, m = AckOf(g) PROVE m \in Message /\ m.kind = "ack"
    BY <1>3, Nodes DEF AckOf, Acknowledgement, GradientsOf, Message
  <1>4. m \in Message
    BY <1>1, <1>2, <1>3, OrderFields DEF Mail, Letters
  <1>5. m.from \in Node /\ m.to \in Node /\ m # NoMessage
    BY <1>4, NoMessageAssumption DEF Message
  <1> QED
    BY <1>1, <1>2, <1>3, <1>4, <1>5 DEF Mail, Letters, Commands

\* The master's list holds workers.
LEMMA ListType == SetToSeq(Worker) \in Seq(Worker)
  <1> DEFINE n == Cardinality(Worker)
             list == CHOOSE f \in [1 .. n -> Worker] : IsInjective(f)
  <1>1. n \in Nat /\ \E f : f \in Bijection(1 .. n, Worker)
    BY TcpAssumption, FS_CardinalityType DEF ExistsBijection
  <1>2. \E f \in [1 .. n -> Worker] : IsInjective(f)
    BY <1>1 DEF Bijection, Injection
  <1> HIDE DEF n
  <1>3. list \in [1 .. n -> Worker]
    BY <1>2
  <1>4. list \in Seq(Worker)
    BY <1>1, <1>3, SeqDef
  <1> QED
    BY <1>4 DEF SetToSeq, n

LEMMA ToWorkersType ==
    ASSUME NEW c \in Commands, NEW num \in Nat
    PROVE  ToWorkers(c, num) \in Seq(Orders)
  <1> DEFINE list == SetToSeq(Worker)
  <1>1. list \in Seq(Worker)
    BY ListType
  <1> HIDE DEF list
  <1>2. Len(list) \in Nat /\ DOMAIN list = 1 .. Len(list)
    BY <1>1, LenProperties
  <1>3. \A i \in 1 .. Len(list) : list[i] \in Worker
    BY <1>1, ElementOfSeq
  <1>4. \A i \in 1 .. Len(list) : Command(c, list[i], num) \in Orders
    BY <1>3, OrderMade, Nodes
  <1>5. ToWorkers(c, num) = [i \in 1 .. Len(list) |-> Command(c, list[i], num)]
    BY <1>2 DEF ToWorkers, list
  <1>6. ToWorkers(c, num) \in [1 .. Len(list) -> Orders]
    BY <1>4, <1>5
  <1> QED
    BY <1>2, <1>6, SeqDef

LEMMA SingleType ==
    ASSUME NEW S, NEW e \in S
    PROVE  <<e>> \in Seq(S)
  OBVIOUS

LEMMA ShutdownType == ShutdownCommands \in Seq(Orders)
  <1>1. "shutdown" \in Commands /\ 1 \in Nat /\ 2 \in Nat
    BY DEF Commands
  <1>2. /\ Command("shutdown", Master, 1) \in Orders
        /\ Command("shutdown", Master, 2) \in Orders
    BY <1>1, OrderMade, Nodes
  <1>3. PICK a \in Seq(Orders) : a = ToWorkers("shutdown", 1)
    BY <1>1, ToWorkersType
  <1>4. PICK b \in Seq(Orders) : b = ToWorkers("shutdown", 2)
    BY <1>1, ToWorkersType
  <1>5. PICK x \in Seq(Orders) : x = <<Command("shutdown", Master, 1)>>
    BY <1>2, SingleType
  <1>6. PICK y \in Seq(Orders) : y = <<Command("shutdown", Master, 2)>>
    BY <1>2, SingleType
  <1>7. a \o x \in Seq(Orders)
    BY ConcatProperties
  <1>8. (a \o x) \o b \in Seq(Orders)
    BY <1>7, ConcatProperties
  <1>9. ((a \o x) \o b) \o y \in Seq(Orders)
    BY <1>8, ConcatProperties
  <1> QED
    BY <1>3, <1>4, <1>5, <1>6, <1>9 DEF ShutdownCommands

\* No letter among orders.
LEMMA OrdersAreNoLetters ==
    ASSUME NEW q \in Seq(Orders), NEW m \in Letters
    PROVE  m \notin Range(q) /\ q \in Seq(Outgoing(Master))
  <1>1. Orders \subseteq Outgoing(Master)
    BY OrderFields
  <1>2. q \in Seq(Outgoing(Master))
    BY <1>1, SeqMonotonic
  <1>3. Range(q) \subseteq Orders
    BY ElementOfSeq, LenProperties DEF Range
  <1>4. m.kind \notin Commands
    BY LetterFields DEF Letters, Commands
  <1> QED
    BY <1>2, <1>3, <1>4, OrderFields

-----------------------------------------------------------------------------
(* Everything stays where it belongs *)

\* A queue after a push, and after a pop.
LEMMA Pushed ==
    ASSUME NEW S, NEW q \in Seq(S), NEW e \in S
    PROVE  Append(q, e) \in Seq(S)
  OBVIOUS

LEMMA Popped ==
    ASSUME NEW S, NEW q \in Seq(S), q # <<>>
    PROVE  Head(q) \in S /\ Tail(q) \in Seq(S)
  OBVIOUS

\* Steps that leave a part of the state alone.
LEMMA SenderStutter ==
    ASSUME SenderShape, UNCHANGED <<senderActive, senderVars, output>>
    PROVE  SenderShape'
  BY DEF SenderShape, senderVars

LEMMA ReceiverStutter ==
    ASSUME ReceiverShape, UNCHANGED <<receiverActive, receiverVars, input, ackQueue,
                                      received, lost>>
    PROVE  ReceiverShape'
  BY DEF ReceiverShape, receiverVars

LEMMA MainStutter ==
    ASSUME MainShape, UNCHANGED <<mainVars, senderActive>>
    PROVE  MainShape'
  BY DEF MainShape, mainVars

LEMMA InitShape == Init => Shape
  <1> SUFFICES ASSUME Init PROVE Shape
    OBVIOUS
  <1> USE DEF Init, TcpInit
  <1>1. SenderShape
    <2>1. "start" \in Commands /\ 0 \in Nat
      BY DEF Commands
    <2>2. ToWorkers("start", 0) \in Seq(Outgoing(Master))
      BY <2>1, ToWorkersType, OrderFields, SeqMonotonic
    <2>3. \A n \in Node : <<>> \in Seq(Outgoing(n))
      BY EmptySeq
    <2> QED
      BY <2>2, <2>3 DEF SenderShape
  <1>2. ReceiverShape
    <2>1. \A n \in Node : <<>> \in Seq(Incoming(n)) /\ <<>> \in Seq(Owned(n))
      BY EmptySeq
    <2> QED
      BY <2>1 DEF ReceiverShape
  <1>3. MainShape
    BY ClusterAssumption DEF MainShape
  <1> QED
    BY <1>1, <1>2, <1>3 DEF Shape

LEMMA SenderRunsShape ==
    ASSUME Shape, NEW n \in Node, SenderRuns(n) \/ WakeForNothing(n), UNCHANGED mainVars
    PROVE  Shape'
  <1> USE DEF Shape
  <1>1. CASE Top(n) \/ Choose(n) \/ Recover(n) \/ WakeForNothing(n)
    <2>1. UNCHANGED <<queueVars, receiverVars, senderActive, receiverActive,
                      pending, sent, hand>>
      BY <1>1 DEF Top, Choose, Recover, WakeForNothing
    <2>2. ReceiverShape' /\ MainShape'
      BY <2>1, ReceiverStutter, MainStutter DEF queueVars
    <2>3. failed' \in [Node -> BOOLEAN]
      BY <1>1 DEF SenderShape, Top, Choose, Recover, WakeForNothing
    <2>4. /\ senderPc' \in [Node -> {"top", "choose", "pop pending", "pop output", "send",
                                     "stopped", "aborted"}]
          /\ \A k \in Node : senderPc'[k] = "send" <=> senderPc[k] = "send"
      BY <1>1 DEF SenderShape, Top, Choose, Recover, WakeForNothing, Goto
    <2>5. SenderShape'
      BY <2>1, <2>3, <2>4 DEF SenderShape, queueVars
    <2> QED
      BY <2>2, <2>5
  <1>2. CASE PopPending(n)
    <2>1. Head(pending[n]) \in Outgoing(n) /\ Tail(pending[n]) \in Seq(Outgoing(n))
      BY <1>2, Popped DEF PopPending, SenderShape
    <2>2. SenderShape'
      BY <1>2, <2>1 DEF PopPending, SenderShape, Goto, Pop, queueVars
    <2>3. ReceiverShape' /\ MainShape'
      BY <1>2, ReceiverStutter, MainStutter DEF PopPending, queueVars
    <2> QED
      BY <2>2, <2>3
  <1>3. CASE PopOutput(n)
    <2>1. Head(output[n]) \in Outgoing(n) /\ Tail(output[n]) \in Seq(Outgoing(n))
      BY <1>3, Popped DEF PopOutput, SenderShape
    <2>2. SenderShape'
      BY <1>3, <2>1 DEF PopOutput, SenderShape, Goto, Pop
    <2>3. ReceiverShape' /\ MainShape'
      BY <1>3, ReceiverStutter, MainStutter DEF PopOutput
    <2> QED
      BY <2>2, <2>3
  <1>4. CASE DropTooOld(n)
    <2>1. Head(pending[n]) \in Outgoing(n) /\ Tail(pending[n]) \in Seq(Outgoing(n))
      BY <1>4, Popped DEF DropTooOld, SenderShape
    <2>2. SenderShape'
      BY <1>4, <2>1 DEF DropTooOld, SenderShape, Goto, Pop
    <2>3. lost' \subseteq Gradients
      <3>1. Head(pending[n]) \in Mail
        BY <2>1 DEF Outgoing
      <3>2. Head(pending[n]).kind = "gradients" => Head(pending[n]).num \in Gradients
        BY <3>1, MailKinds, LetterFields
      <3> QED
        BY <1>4, <3>2 DEF DropTooOld, Lose, MustKeep, ReceiverShape
    <2>4. ReceiverShape'
      BY <1>4, <2>3 DEF DropTooOld, ReceiverShape, receiverVars
    <2> QED
      BY <1>4, <2>2, <2>4, MainStutter DEF DropTooOld
  <1>5. CASE Send(n)
    <2>1. hand[n] \in Outgoing(n) /\ hand[n] \in Mail /\ hand[n].to \in Node
      BY <1>5, MailKinds DEF Send, SenderShape, Outgoing
    <2>2. /\ senderPc' = [senderPc EXCEPT ![n] = "top"] \/ senderPc' = [senderPc EXCEPT ![n] = "aborted"]
          /\ UNCHANGED sent \/ (/\ MustKeep(hand[n])
                                /\ sent' = [sent EXCEPT ![n] = @ \cup {IdOf[hand[n].num]}])
      BY <1>5 DEF Send, Keep, Goto
    <2>3. sent' \in [Node -> SUBSET Range(IdOf)]
      <3>1. MustKeep(hand[n]) => hand[n].num \in Gradients
        BY <2>1, MailKinds, LetterFields DEF MustKeep
      <3>2. MustKeep(hand[n]) => IdOf[hand[n].num] \in Range(IdOf)
        BY <3>1, TcpAssumption DEF Range
      <3>3. CASE UNCHANGED sent
        BY <3>3 DEF SenderShape
      <3>4. CASE ~ UNCHANGED sent
        <4>1. sent' = [sent EXCEPT ![n] = @ \cup {IdOf[hand[n].num]}]
          BY <2>2, <3>4
        <4>2. IdOf[hand[n].num] \in Range(IdOf)
          BY <2>2, <3>2, <3>4
        <4> QED
          BY <4>1, <4>2 DEF SenderShape
      <3> QED
        BY <3>3, <3>4
    <2>4. hand' = [hand EXCEPT ![n] = NoMessage] /\ UNCHANGED <<senderActive, failed, output, pending>>
      BY <1>5 DEF Send, queueVars
    <2>5. SenderShape'
      BY <2>2, <2>3, <2>4 DEF SenderShape
    <2>6. ReceiverShape'
      <3>1. hand[n] \in Incoming(hand[n].to)
        BY <2>1 DEF Incoming
      <3>2. backlog' = [backlog EXCEPT ![hand[n].to] = @ \cup {hand[n]}]
        BY <1>5 DEF Send, Connect
      <3> QED
        BY <1>5, <2>1, <3>1, <3>2 DEF Send, ReceiverShape, queueVars
    <2> QED
      BY <1>5, <2>5, <2>6, MainStutter DEF Send
  <1>6. CASE SendFails(n)
    <2>1. senderPc[n] = "send" /\ hand[n] \in Outgoing(n)
      BY <1>6 DEF SendFails, SenderShape, Goto
    <2>2. Append(pending[n], hand[n]) \in Seq(Outgoing(n))
      BY <2>1, Pushed DEF SenderShape
    <2>3. pending' = [k \in Node |-> pending'[k]] /\ \A k \in Node : pending'[k] \in Seq(Outgoing(k))
      BY <1>6, <2>2 DEF SendFails, KeepFailed, SenderShape
    <2>4. SenderShape'
      BY <1>6, <2>3 DEF SendFails, SenderShape, Goto, queueVars
    <2>5. accepting' \in [Node -> BOOLEAN]
      BY ZenonT(40), <1>6 DEF SendFails, ReceiverShape
    <2>6. ReceiverShape'
      BY <1>6, <2>5 DEF SendFails, ReceiverShape, queueVars
    <2> QED
      BY <1>6, <2>4, <2>6, MainStutter DEF SendFails
  <1>7. CASE TakeAck(n)
    <2>1. Tail(ackQueue[n]) \in Seq(Owned(n))
      BY <1>7, Popped DEF TakeAck, ReceiverShape
    <2>2. SenderShape'
      BY <1>7 DEF TakeAck, SenderShape
    <2>3. ReceiverShape'
      BY <1>7, <2>1 DEF TakeAck, ReceiverShape, receiverVars, Pop
    <2> QED
      BY <1>7, <2>2, <2>3, MainStutter DEF TakeAck
  <1> QED
    BY <1>1, <1>2, <1>3, <1>4, <1>5, <1>6, <1>7 DEF SenderRuns

LEMMA ReceiverStepShape ==
    ASSUME Shape, NEW n \in Node, ReceiverStep(n), UNCHANGED mainVars
    PROVE  Shape'
  <1> USE DEF Shape
  <1>1. ASSUME NEW m \in backlog[n], Accept(n, m) PROVE Shape'
    <2>1. SenderShape' /\ MainShape'
      BY <1>1, SenderStutter, MainStutter DEF Accept, queueVars
    <2>2. ReceiverShape'
      BY <1>1 DEF Accept, ReceiverShape, queueVars
    <2> QED
      BY <2>1, <2>2
  <1>2. ASSUME NEW m \in reading[n] \cup delivering[n], ReadStep(n, m) PROVE Shape'
    <2>1. m \in Incoming(n) /\ m \in Mail /\ m.to = n
      BY <1>2 DEF ReceiverShape, Incoming
    <2>2. m.kind \in Commands => m \in Orders
      BY <2>1, MailKinds
    <2>3. m.kind = "gradients" => \E g \in Gradients : m = GradientsOf(g)
      BY <2>1, MailKinds
    <2>4. m.kind = "ack" => \E g \in Gradients : m = AckOf(g)
      BY <2>1, MailKinds
    <2>5. Append(input[n], m) \in Seq(Incoming(n))
      BY <2>1, Pushed DEF ReceiverShape
    <2>6. CASE ReadFails(n, m)
      <3>1. lost' \subseteq Gradients
        BY <2>3, <2>6, LetterFields DEF ReadFails, Lose, MustKeep, ReceiverShape
      <3>2. ReceiverShape'
        BY <2>6, <3>1 DEF ReadFails, ReadsFrom, ReceiverShape
      <3> QED
        BY <2>6, <3>2, SenderStutter, MainStutter DEF ReadFails
    <2>7. CASE ReadAck(n, m)
      <3>1. m.num \in Owned(n)
        BY <2>1, <2>4, <2>7, LetterFields DEF ReadAck, Owned
      <3>2. Append(ackQueue[n], m.num) \in Seq(Owned(n))
        BY <3>1, Pushed DEF ReceiverShape
      <3>3. ReceiverShape'
        BY <2>7, <3>2 DEF ReadAck, ReadsFrom, ReceiverShape, Push
      <3> QED
        BY <2>7, <3>3, SenderStutter, MainStutter DEF ReadAck
    <2>8. CASE ReadCommand(n, m)
      <3>1. receiverActive' \in [Node -> BOOLEAN]
        BY <2>8 DEF ReadCommand, ReceiverShape
      <3>2. ReceiverShape'
        BY <2>5, <2>8, <3>1 DEF ReadCommand, ReadsFrom, ReceiverShape, Push
      <3> QED
        BY <2>8, <3>2, SenderStutter, MainStutter DEF ReadCommand
    <2>9. CASE ReadGradients(n, m)
      <3>1. PICK g \in Gradients : m = GradientsOf(g)
        BY <2>3, <2>9 DEF ReadGradients
      <3>2. n = Master /\ Acknowledgement(m) = AckOf(g)
        BY <2>1, <3>1, LetterFields DEF AckOf
      <3>3. AckOf(g) \in Outgoing(n)
        BY <3>2, LetterFields DEF Outgoing, Mail
      <3>4. Append(output[n], Acknowledgement(m)) \in Seq(Outgoing(n))
        BY <3>2, <3>3, Pushed DEF SenderShape
      <3>5. SenderShape'
        BY <2>9, <3>4 DEF ReadGradients, SenderShape, Push, senderVars
      <3>6. ReceiverShape'
        BY <2>1, <2>9, <3>1 DEF ReadGradients, ReadsFrom, ReceiverShape
      <3> QED
        BY <2>9, <3>5, <3>6, MainStutter DEF ReadGradients
    <2>10. CASE Deliver(n, m)
      <3>1. \E g \in Gradients : m = GradientsOf(g)
        BY <2>10 DEF Deliver, ReceiverShape
      <3>2. received' \subseteq Gradients
        BY <2>10, <3>1, LetterFields DEF Deliver, ReceiverShape
      <3>3. ReceiverShape'
        BY <2>5, <2>10, <3>2 DEF Deliver, ReceiverShape, Push
      <3> QED
        BY <2>10, <3>3, SenderStutter, MainStutter DEF Deliver
    <2> QED
      BY <1>2, <2>6, <2>7, <2>8, <2>9, <2>10 DEF ReadStep
  <1> QED
    BY <1>1, <1>2 DEF ReceiverStep

LEMMA MainStepShape ==
    ASSUME Shape, NEW n \in Node, MainStep(n)
    PROVE  Shape'
  <1> USE DEF Shape
  <1>1. CASE n = Master /\ MasterReads
    <2> DEFINE m == Head(input[Master])
    <2>1. m \in Incoming(Master) /\ Tail(input[Master]) \in Seq(Incoming(Master))
      BY <1>1, Popped DEF MasterReads, ReceiverShape
    <2>2. m \in Mail
      BY <2>1 DEF Incoming
    <2>3. ReceiverShape'
      BY <1>1, <2>1 DEF MasterReads, ReceiverShape, receiverVars, Pop
    <2> HIDE DEF m
    <2>4. \A q \in Seq(Orders) : q \in Seq(Outgoing(Master))
      BY OrderFields, SeqMonotonic
    <2>5. m.kind \in {"start", "stop"} =>
              output[Master] \o ToWorkers(m.kind, m.num) \in Seq(Outgoing(Master))
      <3>1. SUFFICES ASSUME m.kind \in {"start", "stop"}
                     PROVE  output[Master] \o ToWorkers(m.kind, m.num) \in Seq(Outgoing(Master))
        OBVIOUS
      <3>2. m \in Orders
        BY <2>2, <3>1, MailKinds DEF Commands
      <3>3. ToWorkers(m.kind, m.num) \in Seq(Outgoing(Master))
        BY <2>4, <3>2, OrderFields, ToWorkersType
      <3> QED
        BY <3>3, Nodes, ConcatProperties DEF SenderShape
    <2>6. ShutdownCommands \in Seq(Outgoing(Master))
      BY <2>4, ShutdownType
    <2>7. output' = [output EXCEPT ![Master] =
                        CASE m.kind \in {"start", "stop"} -> @ \o ToWorkers(m.kind, m.num)
                          [] m.kind = "shutdown" -> ShutdownCommands
                          [] OTHER -> @]
      BY <1>1 DEF MasterReads, m
    <2>8. output'[Master] \in Seq(Outgoing(Master))
      <3>1. CASE m.kind \in {"start", "stop"}
        BY <2>5, <2>7, <3>1, Nodes DEF SenderShape
      <3>2. CASE m.kind = "shutdown"
        BY <2>6, <2>7, <3>2, Nodes DEF SenderShape
      <3>3. CASE m.kind \notin {"start", "stop", "shutdown"}
        BY <2>7, <3>3, Nodes DEF SenderShape
      <3> QED
        BY <3>1, <3>2, <3>3
    <2>9. output' = [k \in Node |-> output'[k]] /\ \A k \in Node \ {Master} : output'[k] = output[k]
      BY <2>7 DEF SenderShape
    <2>10. SenderShape'
      BY <1>1, <2>8, <2>9 DEF MasterReads, SenderShape, senderVars
    <2>11. MainShape'
      <3>1. \E pc \in {"sleep", "read"} : /\ mainPc[Master] = "read"
                                          /\ mainPc' = [mainPc EXCEPT ![Master] = pc]
        BY <1>1 DEF MasterReads, MainGoto
      <3> QED
        BY <1>1, <3>1 DEF MasterReads, MainStep, MainShape
    <2> QED
      BY <2>3, <2>10, <2>11
  <1>2. ASSUME n \in Worker, WorkerReads(n) PROVE Shape'
    <2>1. Tail(input[n]) \in Seq(Incoming(n))
      BY <1>2, Popped DEF WorkerReads, ReceiverShape
    <2>2. ReceiverShape'
      BY <1>2, <2>1 DEF WorkerReads, ReceiverShape, receiverVars, Pop
    <2>3. StatusAfter(Head(input[n]).kind, status[n])
             \in {"waiting", "running", "stopping", "to shutdown"}
      BY <1>2 DEF StatusAfter, MainShape
    <2>4. MainShape'
      BY <1>2, <2>3 DEF WorkerReads, MainStep, MainShape, MainGoto
    <2> QED
      BY <1>2, <2>2, <2>4, SenderStutter DEF WorkerReads
  <1>3. ASSUME n \in Worker, NEW g \in Gradients, Produce(n, g) PROVE Shape'
    <2>1. GradientsOf(g) \in Outgoing(n)
      BY <1>3, LetterFields DEF Produce, Outgoing, Mail
    <2>2. Append(output[n], GradientsOf(g)) \in Seq(Outgoing(n))
      BY <2>1, Pushed DEF SenderShape
    <2>3. SenderShape'
      BY <1>3, <2>2 DEF Produce, SenderShape, senderVars, Push
    <2>4. ReceiverShape'
      BY <1>3, ReceiverStutter DEF Produce
    <2>5. MainShape'
      BY <1>3 DEF Produce, Acts, MainGoto, MainStep, MainShape
    <2> QED
      BY <2>3, <2>4, <2>5
  <1>4. ASSUME n \in Worker, HasStopped(n) PROVE Shape'
    <2>1. UNCHANGED tcpVars
      BY <1>4 DEF HasStopped
    <2>2. SenderShape' /\ ReceiverShape'
      BY <2>1, SenderStutter, ReceiverStutter DEF tcpVars, queueVars
    <2>3. MainShape'
      BY <1>4, <2>1 DEF HasStopped, Acts, MainGoto, MainStep, MainShape, tcpVars
    <2> QED
      BY <2>2, <2>3
  <1>5. ASSUME n \in Worker, ClearOutput(n) PROVE Shape'
    <2>1. <<>> \in Seq(Outgoing(n))
      BY EmptySeq
    <2>2. SenderShape'
      BY <1>5, <2>1 DEF ClearOutput, SenderShape, senderVars
    <2>3. ReceiverShape'
      BY <1>5, ReceiverStutter DEF ClearOutput
    <2>4. MainShape'
      BY <1>5 DEF ClearOutput, Acts, MainGoto, MainStep, MainShape
    <2> QED
      BY <2>2, <2>3, <2>4
  <1>6. CASE StopSender(n)
    <2>1. SenderShape'
      BY <1>6 DEF StopSender, SenderShape, queueVars, senderVars
    <2>2. ReceiverShape'
      BY <1>6, ReceiverStutter DEF StopSender, queueVars
    <2>3. mainPc' = [mainPc EXCEPT ![n] = "stopping"]
      BY <1>6 DEF StopSender, MainGoto
    <2>4. senderActive' = [senderActive EXCEPT ![n] = FALSE]
      BY <1>6 DEF StopSender
    <2>5. MainShape'
      BY <1>6, <2>3, <2>4 DEF StopSender, MainStep, MainShape, SenderShape
    <2> QED
      BY <2>1, <2>2, <2>5
  <1>7. CASE StopReceiver(n)
    <2>1. <<>> \in Seq(Outgoing(n))
      BY EmptySeq
    <2>2. SenderShape'
      BY <1>7, <2>1 DEF StopReceiver, SenderShape, queueVars
    <2>3. ReceiverShape'
      BY <1>7 DEF StopReceiver, ReceiverShape, queueVars, receiverVars
    <2>4. MainShape'
      BY <1>7 DEF StopReceiver, MainGoto, MainStep, MainShape
    <2> QED
      BY <2>2, <2>3, <2>4
  <1> QED
    BY <1>1, <1>2, <1>3, <1>4, <1>5, <1>6, <1>7 DEF MainStep, WorkerStep

LEMMA SignalShape ==
    ASSUME Shape, NEW c \in Commands, Signal(c)
    PROVE  Shape'
  <1> USE DEF Shape
  <1>1. signals' \in Nat /\ signals' \in 0 .. MaxSignals
    <2>1. signals' = signals + 1 /\ signals < MaxSignals
      BY DEF Signal
    <2>2. signals \in 0 .. MaxSignals
      BY DEF MainShape
    <2>3. MaxSignals \in Nat
      BY ClusterAssumption
    <2> QED
      BY <2>1, <2>2, <2>3
  <1>2. Command(c, Master, signals') \in Incoming(Master)
    <2>1. Command(c, Master, signals') \in Orders
      BY <1>1, OrderMade, Nodes
    <2> QED
      BY <2>1 DEF Incoming, Mail, Command
  <1>3. Append(input[Master], Command(c, Master, signals')) \in Seq(Incoming(Master))
    BY <1>2, Pushed, Nodes DEF ReceiverShape
  <1>4. ReceiverShape'
    BY <1>3 DEF Signal, ReceiverShape, receiverVars, Push
  <1>5. MainShape'
    BY <1>1 DEF Signal, MainShape
  <1> QED
    BY <1>4, <1>5, SenderStutter DEF Signal

LEMMA NextShape == Shape /\ [Next]_vars => Shape'
  <1> SUFFICES ASSUME Shape, [Next]_vars PROVE Shape'
    OBVIOUS
  <1>1. ASSUME NEW n \in Node, MainStep(n) PROVE Shape'
    BY <1>1, MainStepShape
  <1>2. ASSUME NEW n \in Node, TcpStep(n), UNCHANGED mainVars PROVE Shape'
    BY <1>2, SenderRunsShape, ReceiverStepShape DEF TcpStep
  <1>3. ASSUME NEW c \in Commands, Signal(c) PROVE Shape'
    BY <1>3, SignalShape
  <1>4. CASE UNCHANGED vars
    BY <1>4, SenderStutter, ReceiverStutter, MainStutter
       DEF Shape, vars, tcpVars, queueVars
  <1> QED
    BY <1>1, <1>2, <1>3, <1>4 DEF Next

\* What the link and the main threads have is always of its type (TCP_Sender,
\* TCP_Receiver, the main loops of master and worker), for any number of
\* workers, gradients and signals.
THEOREM ClusterTypeCorrect == Spec => []TypeOK
  <1>1. Shape => TypeOK
    <2> SUFFICES ASSUME Shape PROVE TypeOK
      OBVIOUS
    <2>1. \A n \in Node : Outgoing(n) \subseteq Message /\ Incoming(n) \subseteq Message
      BY MailKinds DEF Outgoing, Incoming
    <2>2. \A n \in Node : Owned(n) \subseteq Gradients
      BY DEF Owned
    <2>3. SenderTypeOK
      <3>1. \A n \in Node : pending[n] \in Seq(Message)
        BY <2>1, SeqMonotonic DEF Shape, SenderShape
      <3>2. pending \in [Node -> Seq(Message)]
        BY <3>1 DEF Shape, SenderShape
      <3> QED
        BY <2>1, <3>2 DEF Shape, SenderShape, SenderTypeOK
    <2>4. \A n \in Node : /\ output[n] \in Seq(Message) /\ input[n] \in Seq(Message)
                          /\ ackQueue[n] \in Seq(Gradients)
      BY <2>1, <2>2, SeqMonotonic DEF Shape, SenderShape, ReceiverShape
    <2>5. /\ output \in [Node -> Seq(Message)] /\ input \in [Node -> Seq(Message)]
          /\ ackQueue \in [Node -> Seq(Gradients)]
      BY <2>4 DEF Shape, SenderShape, ReceiverShape
    <2>6. TcpTypeOK
      BY <2>1, <2>3, <2>5 DEF Shape, ReceiverShape, TcpTypeOK
    <2> QED
      BY <2>6 DEF Shape, MainShape, TypeOK
  <1>2. Spec => []Shape
    BY InitShape, NextShape, PTL DEF Spec
  <1> QED
    BY <1>1, <1>2, PTL

-----------------------------------------------------------------------------
(* How the steps move a letter *)

LEMMA LetterNodes ==
    ASSUME NEW m \in Letters
    PROVE  m \in Mail /\ m.from \in Node /\ m.to \in Node /\ m # NoMessage /\ m \notin Orders
  <1>1. m \in Mail
    BY DEF Mail
  <1>2. m.kind \notin Commands
    BY LetterFields DEF Letters, Commands
  <1> QED
    BY <1>1, <1>2, MailKinds, OrderFields

LEMMA TravelsType ==
    ASSUME Shape, NEW m \in Letters
    PROVE  /\ Occurrences(m, output[m.from]) \in Nat
           /\ Occurrences(m, pending[m.from]) \in Nat
           /\ Travels(m) \in Nat
           /\ OnTheWay(m) => Travels(m) >= 1
           /\ m \in Range(output[m.from]) \cup Range(pending[m.from]) => Travels(m) >= 1
           /\ hand[m.from] = m => Travels(m) >= 1
  <1>1. /\ output[m.from] \in Seq(Outgoing(m.from))
        /\ pending[m.from] \in Seq(Outgoing(m.from))
    BY LetterNodes DEF Shape, SenderShape
  <1>2. /\ Occurrences(m, output[m.from]) \in Nat
        /\ Occurrences(m, pending[m.from]) \in Nat
        /\ Occurrences(m, output[m.from]) = 0 <=> m \notin Range(output[m.from])
        /\ Occurrences(m, pending[m.from]) = 0 <=> m \notin Range(pending[m.from])
    BY <1>1, OccurType
  <1> QED
    BY <1>2 DEF Travels, OnTheWay, One

LEMMA Still ==
    ASSUME NEW m \in Letters, UNCHANGED <<output, pending, hand, backlog, reading>>
    PROVE  Travels(m)' = Travels(m) /\ (OnTheWay(m)' <=> OnTheWay(m))
  BY DEF Travels, OnTheWay

\* From the pending ones to the hand of the sender.
LEMMA PopPendingMoves ==
    ASSUME Shape, NEW n \in Node, PopPending(n), NEW m \in Letters
    PROVE  Travels(m)' = Travels(m) /\ (OnTheWay(m)' <=> OnTheWay(m))
  <1>1. /\ pending[n] # <<>> /\ hand' = [hand EXCEPT ![n] = Head(pending[n])]
        /\ pending' = [pending EXCEPT ![n] = Tail(pending[n])]
        /\ senderPc[n] = "pop pending"
        /\ UNCHANGED <<output, backlog, reading>>
    BY DEF PopPending, Pop, Goto, queueVars, receiverVars
  <1>2. hand[n] = NoMessage /\ DOMAIN hand = Node /\ DOMAIN pending = Node
    BY <1>1 DEF Shape, SenderShape
  <1>3. pending[n] \in Seq(Outgoing(n))
    BY DEF Shape, SenderShape
  <1>4. Occurrences(m, pending[n]) = Occurrences(m, Tail(pending[n])) + One(Head(pending[n]) = m)
    BY <1>1, <1>3, OccurTail
  <1>5. Occurrences(m, Tail(pending[n])) \in Nat
    BY <1>1, <1>3, Popped, OccurType
  <1>6. OnTheWay(m)' <=> OnTheWay(m)
    BY <1>1 DEF OnTheWay
  <1>7. CASE m.from = n
    <2>1. hand'[n] = Head(pending[n]) /\ pending'[n] = Tail(pending[n])
      BY <1>1, <1>2
    <2>2. One(hand[n] = m) = 0
      BY <1>2, LetterNodes DEF One
    <2>3. One(hand'[n] = m) = One(Head(pending[n]) = m)
      BY <2>1
    <2>4. Occurrences(m, pending'[n]) + One(hand'[n] = m)
            = Occurrences(m, pending[n]) + One(hand[n] = m)
      BY <1>4, <1>5, <2>1, <2>2, <2>3 DEF One
    <2>5. /\ Occurrences(m, pending'[n]) \in Nat /\ Occurrences(m, pending[n]) \in Nat
          /\ Occurrences(m, output[n]) \in Nat
          /\ One(hand[n] = m) \in Nat /\ One(hand'[n] = m) \in Nat
          /\ One(m \in backlog[m.to]) \in Nat /\ One(m \in reading[m.to]) \in Nat
      BY <1>5, <1>7, <2>1, TravelsType DEF One
    <2>6. Travels(m) =
            Occurrences(m, output[n]) + Occurrences(m, pending[n])
              + One(hand[n] = m) + One(m \in backlog[m.to]) + One(m \in reading[m.to])
      BY <1>7 DEF Travels
    <2>7. Travels(m)' =
            Occurrences(m, output[n]) + Occurrences(m, pending'[n])
              + One(hand'[n] = m) + One(m \in backlog[m.to]) + One(m \in reading[m.to])
      BY <1>1, <1>7 DEF Travels
    <2>8. Travels(m)' = Travels(m)
      BY <2>4, <2>5, <2>6, <2>7
    <2> QED
      BY <1>6, <2>8
  <1>8. CASE m.from # n
    <2>1. hand'[m.from] = hand[m.from] /\ pending'[m.from] = pending[m.from]
      BY <1>1, <1>2, <1>8, LetterNodes
    <2> QED
      BY <1>1, <1>6, <2>1 DEF Travels
  <1> QED
    BY <1>7, <1>8

\* From the output queue to the hand of the sender.
LEMMA PopOutputMoves ==
    ASSUME Shape, NEW n \in Node, PopOutput(n), NEW m \in Letters
    PROVE  Travels(m)' = Travels(m) /\ (OnTheWay(m)' <=> OnTheWay(m))
  <1>1. /\ output[n] # <<>> /\ hand' = [hand EXCEPT ![n] = Head(output[n])]
        /\ output' = [output EXCEPT ![n] = Tail(output[n])]
        /\ senderPc[n] = "pop output"
        /\ UNCHANGED <<pending, backlog, reading>>
    BY DEF PopOutput, Pop, Goto, receiverVars
  <1>2. hand[n] = NoMessage /\ DOMAIN hand = Node /\ DOMAIN output = Node
    BY <1>1 DEF Shape, SenderShape
  <1>3. output[n] \in Seq(Outgoing(n))
    BY DEF Shape, SenderShape
  <1>4. Occurrences(m, output[n]) = Occurrences(m, Tail(output[n])) + One(Head(output[n]) = m)
    BY <1>1, <1>3, OccurTail
  <1>5. Occurrences(m, Tail(output[n])) \in Nat
    BY <1>1, <1>3, Popped, OccurType
  <1>6. OnTheWay(m)' <=> OnTheWay(m)
    BY <1>1 DEF OnTheWay
  <1>7. CASE m.from = n
    <2>1. hand'[n] = Head(output[n]) /\ output'[n] = Tail(output[n])
      BY <1>1, <1>2
    <2>2. One(hand[n] = m) = 0
      BY <1>2, LetterNodes DEF One
    <2>3. One(hand'[n] = m) = One(Head(output[n]) = m)
      BY <2>1
    <2>4. Occurrences(m, output'[n]) + One(hand'[n] = m)
            = Occurrences(m, output[n]) + One(hand[n] = m)
      BY <1>4, <1>5, <2>1, <2>2, <2>3 DEF One
    <2>5. /\ Occurrences(m, output'[n]) \in Nat /\ Occurrences(m, output[n]) \in Nat
          /\ Occurrences(m, pending[n]) \in Nat
          /\ One(hand[n] = m) \in Nat /\ One(hand'[n] = m) \in Nat
          /\ One(m \in backlog[m.to]) \in Nat /\ One(m \in reading[m.to]) \in Nat
      BY <1>5, <1>7, <2>1, TravelsType DEF One
    <2>6. Travels(m) =
            Occurrences(m, output[n]) + Occurrences(m, pending[n])
              + One(hand[n] = m) + One(m \in backlog[m.to]) + One(m \in reading[m.to])
      BY <1>7 DEF Travels
    <2>7. Travels(m)' =
            Occurrences(m, output'[n]) + Occurrences(m, pending[n])
              + One(hand'[n] = m) + One(m \in backlog[m.to]) + One(m \in reading[m.to])
      BY <1>1, <1>7 DEF Travels
    <2>8. Travels(m)' = Travels(m)
      BY <2>4, <2>5, <2>6, <2>7
    <2> QED
      BY <1>6, <2>8
  <1>8. CASE m.from # n
    <2>1. hand'[m.from] = hand[m.from] /\ output'[m.from] = output[m.from]
      BY <1>1, <1>2, <1>8, LetterNodes
    <2> QED
      BY <1>1, <1>6, <2>1 DEF Travels
  <1> QED
    BY <1>7, <1>8

\* Only the message that is dropped is lost.
LEMMA DropMoves ==
    ASSUME Shape, NEW n \in Node, DropTooOld(n), NEW m \in Letters
    PROVE  /\ Travels(m)' <= Travels(m) /\ (OnTheWay(m)' <=> OnTheWay(m))
           /\ Travels(m)' = Travels(m) \/ m = Head(pending[n])
  <1>1. /\ pending[n] # <<>>
        /\ pending' = [pending EXCEPT ![n] = Tail(pending[n])]
        /\ UNCHANGED <<output, hand, backlog, reading>>
    BY DEF DropTooOld, Pop, receiverVars
  <1>2. n \in DOMAIN pending /\ pending[n] \in Seq(Outgoing(n))
    BY DEF Shape, SenderShape
  <1>4. Occurrences(m, pending[n]) = Occurrences(m, Tail(pending[n])) + One(Head(pending[n]) = m)
    BY <1>1, <1>2, OccurTail
  <1>5. Occurrences(m, Tail(pending[n])) \in Nat
    BY <1>1, <1>2, Popped, OccurType
  <1>6. OnTheWay(m)' <=> OnTheWay(m)
    BY <1>1 DEF OnTheWay
  <1>7. CASE m.from = n
    <2>1. pending'[n] = Tail(pending[n])
      BY <1>1, <1>2
    <2> QED
      BY SMTT(30), <1>1, <1>4, <1>5, <1>6, <1>7, <2>1, TravelsType DEF Travels, One
  <1>8. CASE m.from # n
    <2>1. Travels(m)' = Travels(m)
      BY <1>1, <1>8 DEF Travels
    <2> QED
      BY <1>6, <2>1, TravelsType
  <1> QED
    BY <1>7, <1>8

\* From the hand of the sender to a connection.
LEMMA SendMoves ==
    ASSUME Shape, NEW n \in Node, Send(n), NEW m \in Letters, Travels(m) <= 1
    PROVE  /\ Travels(m)' = Travels(m)
           /\ OnTheWay(m)' <=> OnTheWay(m) \/ hand[n] = m
  <1>1. /\ hand' = [hand EXCEPT ![n] = NoMessage]
        /\ backlog' = [backlog EXCEPT ![hand[n].to] = @ \cup {hand[n]}]
        /\ senderPc[n] = "send"
        /\ UNCHANGED <<output, pending, reading>>
    BY DEF Send, Connect, queueVars
  <1>2. /\ hand[n] \in Outgoing(n) /\ n \in DOMAIN hand
        /\ DOMAIN backlog = Node
    BY <1>1 DEF Shape, SenderShape, ReceiverShape
  <1>3. hand[n].from = n /\ hand[n].to \in Node
    BY <1>2, MailKinds DEF Outgoing
  <1>4. CASE hand[n] = m
    <2>1. hand'[m.from] # m /\ backlog'[m.to] = backlog[m.to] \cup {m}
      BY <1>1, <1>2, <1>3, <1>4, LetterNodes
    <2>2. m \notin backlog[m.to]
      BY <1>3, <1>4, TravelsType DEF Travels, One
    <2> QED
      BY <1>1, <1>3, <1>4, <2>1, <2>2, TravelsType DEF Travels, One, OnTheWay
  <1>5. CASE hand[n] # m
    <2>1. hand'[m.from] = m <=> hand[m.from] = m
      BY <1>1, <1>2, <1>5, LetterNodes
    <2>2. m \in backlog'[m.to] <=> m \in backlog[m.to]
      BY <1>1, <1>2, <1>3, <1>5, LetterNodes
    <2> QED
      BY <1>1, <1>5, <2>1, <2>2 DEF Travels, One, OnTheWay
  <1> QED
    BY <1>4, <1>5

\* Back to the pending ones, unless this is the end.
LEMMA SendFailsMoves ==
    ASSUME Shape, NEW n \in Node, SendFails(n), NEW m \in Letters
    PROVE  /\ Travels(m)' <= Travels(m) /\ (OnTheWay(m)' <=> OnTheWay(m))
           /\ Travels(m)' = Travels(m) \/ (m.from = n /\ ~ senderActive[n])
  <1>1. /\ hand' = [hand EXCEPT ![n] = NoMessage]
        /\ pending' = IF senderActive[n]
                      THEN [pending EXCEPT ![n] = Append(@, hand[n])] ELSE pending
        /\ senderPc[n] = "send"
        /\ UNCHANGED <<output, backlog, reading>>
    BY DEF SendFails, KeepFailed, Goto, queueVars
  <1>2. /\ hand[n] \in Outgoing(n) /\ n \in DOMAIN hand
        /\ n \in DOMAIN pending /\ pending[n] \in Seq(Outgoing(n))
    BY <1>1 DEF Shape, SenderShape
  <1>3. Occurrences(m, Append(pending[n], hand[n])) = Occurrences(m, pending[n]) + One(hand[n] = m)
    BY <1>2, OccurAppend
  <1>4. OnTheWay(m)' <=> OnTheWay(m)
    BY <1>1 DEF OnTheWay
  <1>5. CASE m.from = n
    <2>1. One(hand'[n] = m) = 0
      BY <1>1, <1>2, LetterNodes DEF One
    <2>2. CASE senderActive[n]
      <3>1. pending'[n] = Append(pending[n], hand[n])
        BY <1>1, <1>2, <2>2
      <3> QED
        BY <1>1, <1>3, <1>4, <1>5, <2>1, <3>1, TravelsType DEF Travels, One
    <2>3. CASE ~ senderActive[n]
      BY <1>1, <1>4, <1>5, <2>1, <2>3, TravelsType DEF Travels, One
    <2> QED
      BY <2>2, <2>3
  <1>6. CASE m.from # n
    <2>1. Travels(m)' = Travels(m)
      BY <1>1, <1>6 DEF Travels
    <2> QED
      BY <1>4, <2>1, TravelsType
  <1> QED
    BY <1>5, <1>6

\* From the backlog to the thread that reads it.
LEMMA AcceptMoves ==
    ASSUME Shape, NEW n \in Node, NEW x, Accept(n, x), NEW m \in Letters, Travels(m) <= 1
    PROVE  Travels(m)' = Travels(m) /\ (OnTheWay(m)' <=> OnTheWay(m))
  <1>1. /\ x \in backlog[n]
        /\ backlog' = [backlog EXCEPT ![n] = @ \ {x}]
        /\ reading' = [reading EXCEPT ![n] = @ \cup {x}]
        /\ UNCHANGED <<output, pending, hand>>
    BY DEF Accept, queueVars, senderVars
  <1>2. n \in DOMAIN backlog /\ n \in DOMAIN reading /\ x.to = n
    BY <1>1 DEF Shape, ReceiverShape, Incoming
  <1>3. CASE x = m
    <2>1. /\ m \in backlog[m.to] /\ m \notin backlog'[m.to]
          /\ m \in reading'[m.to]
      BY <1>1, <1>2, <1>3
    <2>2. m \notin reading[m.to]
      BY <2>1, TravelsType DEF Travels, One
    <2> QED
      BY <1>1, <2>1, <2>2, TravelsType DEF Travels, One, OnTheWay
  <1>4. CASE x # m
    <2>1. /\ m \in backlog'[m.to] <=> m \in backlog[m.to]
          /\ m \in reading'[m.to] <=> m \in reading[m.to]
      BY <1>1, <1>2, <1>4
    <2> QED
      BY <1>1, <2>1 DEF Travels, One, OnTheWay
  <1> QED
    BY <1>3, <1>4

\* A message that was read is no longer on its way; an answer may be queued.
LEMMA ReadMoves ==
    ASSUME Shape, NEW n \in Node, NEW x, ReadsFrom(n, x), NEW m \in Letters,
           UNCHANGED <<pending, hand, backlog>>
    PROVE  /\ OnTheWay(m)' => OnTheWay(m)
           /\ output' = output => Travels(m)' = Travels(m) - One(x = m)
           /\ \A a \in Outgoing(n) :
                 output' = [output EXCEPT ![n] = Append(@, a)] =>
                    Travels(m)' = Travels(m) - One(x = m) + One(a = m)
  <1>1. x \in reading[n] /\ reading' = [reading EXCEPT ![n] = @ \ {x}]
    BY DEF ReadsFrom
  <1>2. /\ n \in DOMAIN reading /\ x.to = n /\ n \in DOMAIN output
        /\ output[n] \in Seq(Outgoing(n))
    BY <1>1 DEF Shape, ReceiverShape, SenderShape, Incoming
  <1>3. /\ One(m \in reading'[m.to]) = One(m \in reading[m.to]) - One(x = m)
        /\ m \in reading'[m.to] => m \in reading[m.to]
    <2>1. CASE x = m
      BY <1>1, <1>2, <2>1 DEF One
    <2>2. CASE x # m
      BY <1>1, <1>2, <2>2 DEF One
    <2> QED
      BY <2>1, <2>2
  <1>4. OnTheWay(m)' => OnTheWay(m)
    BY <1>3 DEF OnTheWay
  <1>5. output' = output => Travels(m)' = Travels(m) - One(x = m)
    BY <1>3, TravelsType DEF Travels, One
  <1>6. ASSUME NEW a \in Outgoing(n), output' = [output EXCEPT ![n] = Append(@, a)]
        PROVE  Travels(m)' = Travels(m) - One(x = m) + One(a = m)
    <2>1. Occurrences(m, Append(output[n], a)) = Occurrences(m, output[n]) + One(a = m)
      BY <1>2, OccurAppend
    <2>2. Occurrences(m, output'[m.from]) = Occurrences(m, output[m.from]) + One(a = m)
      <3>1. CASE m.from = n
        BY <1>2, <1>6, <2>1, <3>1
      <3>2. CASE m.from # n
        <4>1. a # m
          BY <3>2 DEF Outgoing
        <4> QED
          BY <1>6, <3>2, <4>1, TravelsType DEF One
      <3> QED
        BY <3>1, <3>2
    <2> QED
      BY <1>3, <2>2, TravelsType DEF Travels, One
  <1> QED
    BY <1>4, <1>5, <1>6

\* What the main threads do to the output queue of process n.
LEMMA OutputMoves ==
    ASSUME Shape, NEW n \in Node, NEW m \in Letters,
           output' = [output EXCEPT ![n] = output'[n]],
           Occurrences(m, output'[n]) \in Nat,
           UNCHANGED <<pending, hand, backlog, reading>>
    PROVE  /\ OnTheWay(m)' <=> OnTheWay(m)
           /\ m.from # n => Travels(m)' = Travels(m)
           /\ m.from = n => Travels(m)' = Travels(m) - Occurrences(m, output[n])
                                                     + Occurrences(m, output'[n])
  <1>1. OnTheWay(m)' <=> OnTheWay(m)
    BY DEF OnTheWay
  <1>2. m.from # n => output'[m.from] = output[m.from]
    BY LetterNodes DEF Shape, SenderShape
  <1>3. m.from # n => Travels(m)' = Travels(m)
    BY <1>2 DEF Travels
  <1>4. ASSUME m.from = n
        PROVE  Travels(m)' = Travels(m) - Occurrences(m, output[n]) + Occurrences(m, output'[n])
    <2>1. PICK old \in Nat : old = Occurrences(m, output[n])
      BY <1>4, TravelsType
    <2> DEFINE rest == Occurrences(m, pending[n]) + One(hand[n] = m)
                       + One(m \in backlog[m.to]) + One(m \in reading[m.to])
    <2>2. rest \in Nat
      BY <1>4, TravelsType DEF One
    <2>3. Travels(m) = old + rest
      BY <1>4, <2>1, TravelsType DEF Travels, One
    <2>4. Travels(m)' = Occurrences(m, output'[n]) + rest
      BY <1>4, TravelsType DEF Travels, One
    <2> HIDE DEF rest
    <2> QED
      BY <2>1, <2>2, <2>3, <2>4
  <1> QED
    BY <1>1, <1>3, <1>4

-----------------------------------------------------------------------------
(* Gradients and their acknowledgements *)

LEMMA CountTypes ==
    ASSUME Shape, NEW g \in Gradients
    PROVE  /\ Before(g) \in Nat /\ After(g) \in Nat /\ Acks(g) \in Nat
           /\ Travels(AckOf(g)) \in Nat
           /\ Occurrences(g, ackQueue[OwnerOf[g]]) \in Nat
           /\ g \in Range(ackQueue[OwnerOf[g]]) => Acks(g) >= 1
           /\ Travels(AckOf(g)) <= Acks(g)
           /\ OnTheWay(GradientsOf(g)) => Before(g) >= 1
  <1>1. GradientsOf(g) \in Letters /\ AckOf(g) \in Letters
    BY LetterFields
  <1>2. ackQueue[OwnerOf[g]] \in Seq(Owned(OwnerOf[g]))
    BY Nodes DEF Shape, ReceiverShape
  <1>3. /\ Occurrences(g, ackQueue[OwnerOf[g]]) \in Nat
        /\ Occurrences(g, ackQueue[OwnerOf[g]]) = 0 <=> g \notin Range(ackQueue[OwnerOf[g]])
    BY <1>2, OccurType
  <1>4. Travels(GradientsOf(g)) \in Nat /\ Travels(AckOf(g)) \in Nat
    BY <1>1, TravelsType
  <1>5. After(g) \in Nat
    BY DEF After, One
  <1>6. OnTheWay(GradientsOf(g)) => Before(g) >= 1
    BY <1>1, TravelsType DEF Before
  <1> QED
    BY <1>3, <1>4, <1>5, <1>6 DEF Before, Acks

CountsTyped(g) ==
    /\ Before(g) \in Nat /\ After(g) \in Nat /\ Acks(g) \in Nat
    /\ Travels(AckOf(g)) \in Nat

\* The same after a step.
LEMMA CountTypesNext == (Shape => \A g \in Gradients : CountsTyped(g))'
  <1>1. Shape => \A g \in Gradients : CountsTyped(g)
    BY CountTypes DEF CountsTyped
  <1> QED
    BY <1>1, PTL

LEMMA OneTravels ==
    ASSUME Shape, LinkInv, NEW m \in Letters
    PROVE  Travels(m) <= 1
  <1>1. ASSUME NEW g \in Gradients
        PROVE  Travels(GradientsOf(g)) <= 1 /\ Travels(AckOf(g)) <= 1
    <2>1. Counted(g)
      BY <1>1 DEF LinkInv
    <2> QED
      BY <2>1, CountTypes DEF Counted, Before
  <1> QED
    BY <1>1 DEF Letters

\* Nobody comes back from an exception or from the end of the main loop.
LEMMA NeverBack ==
    ASSUME Shape, [Next]_vars, NEW n \in Node
    PROVE  (Up(n)' => Up(n)) /\ (Serving(n)' => Serving(n))
  <1>1. senderPc = [k \in Node |-> senderPc[k]] /\ mainPc = [k \in Node |-> mainPc[k]]
    BY DEF Shape, SenderShape, MainShape
  <1>2. ASSUME NEW k \in Node, MainStep(k) PROVE (Up(n)' => Up(n)) /\ (Serving(n)' => Serving(n))
    <2>1. UNCHANGED senderPc
      BY <1>2 DEF MainStep, MasterReads, WorkerStep, WorkerReads, Produce, HasStopped,
                  ClearOutput, StopSender, StopReceiver, senderVars, tcpVars
    <2>2. \/ UNCHANGED mainPc
          \/ \E from, to \in {"read", "cleared", "sleep", "stopping", "ended"} :
                /\ MainGoto(k, from, to) /\ (to = "read" => from = "read")
      BY <1>2 DEF MainStep, MasterReads, WorkerStep, WorkerReads, Produce, HasStopped,
                  ClearOutput, StopSender, StopReceiver, Acts
    <2> QED
      BY <1>1, <2>1, <2>2 DEF Up, Serving, MainGoto
  <1>3. ASSUME NEW k \in Node, TcpStep(k), UNCHANGED mainVars
        PROVE  (Up(n)' => Up(n)) /\ (Serving(n)' => Serving(n))
    <2>1. \/ UNCHANGED senderPc
          \/ /\ senderPc[k] # "aborted"
             /\ \E to \in {"top", "choose", "pop pending", "pop output", "send",
                           "stopped", "aborted"} : senderPc' = [senderPc EXCEPT ![k] = to]
      <3>1. CASE Top(k) \/ Choose(k) \/ PopPending(k) \/ DropTooOld(k) \/ PopOutput(k)
                 \/ SendFails(k) \/ WakeForNothing(k)
        BY <3>1 DEF Top, Choose, PopPending, DropTooOld, PopOutput, SendFails,
                    WakeForNothing, Goto
      <3>2. CASE Send(k)
        BY <3>2 DEF Send, Keep, Goto
      <3>3. CASE Recover(k) \/ TakeAck(k) \/ ReceiverStep(k)
        BY <3>3 DEF Recover, TakeAck, ReceiverStep, Accept, ReadStep, ReadFails, ReadAck,
                    ReadCommand, ReadGradients, Deliver, senderVars
      <3> QED
        BY <1>3, <3>1, <3>2, <3>3 DEF TcpStep, SenderRuns
    <2> QED
      BY <1>1, <1>3, <2>1 DEF Up, Serving, mainVars
  <1>4. ASSUME NEW c \in Commands, Signal(c)
        PROVE  (Up(n)' => Up(n)) /\ (Serving(n)' => Serving(n))
    BY <1>4 DEF Signal, Up, Serving, senderVars
  <1>5. CASE UNCHANGED vars
    BY <1>5 DEF vars, tcpVars, mainVars, senderVars, Up, Serving
  <1> QED
    BY <1>2, <1>3, <1>4, <1>5 DEF Next

\* A step that brings gradients no further, or the acknowledgement a place.
LEMMA CalmStep ==
    ASSUME Shape, Shape', LinkInv,
           UNCHANGED <<sent, produced>>, lost \subseteq lost',
           \A n \in Node : (Up(n)' => Up(n)) /\ (Serving(n)' => Serving(n)),
           \A g \in Gradients :
               /\ Before(g)' <= Before(g) /\ Acks(g)' <= Acks(g) /\ After(g)' = After(g)
               /\ OnTheWay(GradientsOf(g))' => OnTheWay(GradientsOf(g))
               /\ Before(g)' = Before(g) \/ g \in lost' \/ ~ Serving(OwnerOf[g])'
    PROVE  LinkInv'
  <1>1. ASSUME NEW g \in Gradients PROVE Counted(g)' /\ NotGone(g)'
    <2>1. Counted(g) /\ NotGone(g)
      BY DEF LinkInv
    <2>2. /\ Before(g) \in Nat /\ After(g) \in Nat /\ Acks(g) \in Nat
          /\ Before(g)' \in Nat /\ After(g)' \in Nat /\ Acks(g)' \in Nat
      BY CountTypes, CountTypesNext DEF CountsTyped
    <2>3. OwnerOf[g] \in Node
      BY Nodes
    <2>4. Counted(g)'
      BY <2>1, <2>2 DEF Counted
    <2>5. NotGone(g)'
      <3> SUFFICES ASSUME g \in produced' \ lost', Up(OwnerOf[g])', Serving(OwnerOf[g])'
                   PROVE  Before(g)' + After(g)' = 1
        BY DEF NotGone
      <3>1. g \in produced \ lost /\ Up(OwnerOf[g]) /\ Serving(OwnerOf[g])
        BY <2>3
      <3>2. Before(g) + After(g) = 1 /\ Before(g)' = Before(g)
        BY <2>1, <3>1 DEF NotGone
      <3> QED
        BY <3>2
    <2> QED
      BY <2>4, <2>5
  <1>2. ASSUME NEW g \in Gradients PROVE InFlight(g)' => InFlight(g)
    <2>1. Acks(g) \in Nat /\ Acks(g)' \in Nat
      BY CountTypes, CountTypesNext DEF CountsTyped
    <2> QED
      BY <2>1 DEF InFlight
  <1>3. ASSUME NEW g \in Gradients PROVE Remembered(g)'
    BY <1>2, Nodes DEF LinkInv, Remembered
  <1>4. ASSUME NEW g \in Gradients, NEW h \in Gradients PROVE OneFlight(g, h)'
    BY <1>2, Nodes DEF LinkInv, OneFlight
  <1> QED
    BY <1>1, <1>3, <1>4 DEF LinkInv

\* A step that only moves letters along, or loses them.
LEMMA CalmLetters ==
    ASSUME Shape, Shape', LinkInv,
           UNCHANGED <<sent, produced, ackQueue, received, delivering>>, lost \subseteq lost',
           \A n \in Node : (Up(n)' => Up(n)) /\ (Serving(n)' => Serving(n)),
           \A m \in Letters : Travels(m)' <= Travels(m) /\ (OnTheWay(m)' => OnTheWay(m)),
           \A g \in Gradients : \/ Travels(GradientsOf(g))' = Travels(GradientsOf(g))
                                \/ g \in lost' \/ ~ Serving(OwnerOf[g])'
    PROVE  LinkInv'
  <1>1. ASSUME NEW g \in Gradients
        PROVE  /\ Before(g)' <= Before(g) /\ Acks(g)' <= Acks(g) /\ After(g)' = After(g)
               /\ OnTheWay(GradientsOf(g))' => OnTheWay(GradientsOf(g))
               /\ Before(g)' = Before(g) \/ g \in lost' \/ ~ Serving(OwnerOf[g])'
    <2>1. GradientsOf(g) \in Letters /\ AckOf(g) \in Letters
      BY LetterFields
    <2>2. After(g)' = After(g)
      BY DEF After
    <2>3. Acks(g)' <= Acks(g)
      <3>1. /\ Travels(AckOf(g)) \in Nat /\ Travels(AckOf(g))' \in Nat
            /\ Occurrences(g, ackQueue[OwnerOf[g]]) \in Nat
        BY CountTypes, CountTypesNext DEF CountsTyped
      <3>2. Travels(AckOf(g))' <= Travels(AckOf(g))
        BY <2>1
      <3>3. Acks(g)' = Travels(AckOf(g))' + Occurrences(g, ackQueue[OwnerOf[g]])
        BY DEF Acks
      <3> QED
        BY <3>1, <3>2, <3>3 DEF Acks
    <2> QED
      BY <2>1, <2>2, <2>3 DEF Before
  <1> QED
    BY <1>1, CalmStep

-----------------------------------------------------------------------------
(* Every step keeps the invariant *)

LEMMA DifferentLetters ==
    ASSUME NEW g \in Gradients, NEW h \in Gradients
    PROVE  /\ GradientsOf(g) = GradientsOf(h) <=> g = h
           /\ AckOf(g) = AckOf(h) <=> g = h
           /\ GradientsOf(g) # AckOf(h)
           /\ GradientsOf(g) \notin Orders /\ AckOf(g) \notin Orders
  BY LetterFields, LetterNodes

LEMMA SenderRunsLink ==
    ASSUME Inv, Shape', [Next]_vars, NEW n \in Node,
           SenderRuns(n) \/ WakeForNothing(n), UNCHANGED mainVars
    PROVE  LinkInv'
  <1> USE DEF Inv
  <1>1. \A k \in Node : (Up(k)' => Up(k)) /\ (Serving(k)' => Serving(k))
    BY NeverBack
  <1>2. \A m \in Letters : Travels(m) \in Nat /\ Travels(m) <= 1
    BY TravelsType, OneTravels
  <1>3. \A g \in Gradients : /\ GradientsOf(g) \in Letters /\ AckOf(g) \in Letters
                             /\ GradientsOf(g).from = OwnerOf[g] /\ OwnerOf[g] \in Node
    BY LetterFields, Nodes
  <1>4. UNCHANGED produced
    BY DEF mainVars
  <1>5. CASE Top(n) \/ Choose(n) \/ Recover(n) \/ WakeForNothing(n)
    <2>1. UNCHANGED <<queueVars, receiverVars, pending, sent, hand>>
      BY <1>5 DEF Top, Choose, Recover, WakeForNothing
    <2>2. \A m \in Letters : Travels(m)' = Travels(m) /\ (OnTheWay(m)' <=> OnTheWay(m))
      BY <2>1, Still DEF queueVars, receiverVars
    <2> QED
      BY <1>1, <1>2, <1>3, <1>4, <2>1, <2>2, CalmLetters DEF queueVars, receiverVars
  <1>6. CASE PopPending(n)
    <2>1. \A m \in Letters : Travels(m)' = Travels(m) /\ (OnTheWay(m)' <=> OnTheWay(m))
      BY <1>6, PopPendingMoves
    <2>2. \A m \in Letters : Travels(m)' <= Travels(m) /\ (OnTheWay(m)' => OnTheWay(m))
      BY <1>2, <2>1
    <2>3. UNCHANGED <<sent, ackQueue, received, delivering, lost>> /\ lost \subseteq lost'
      BY <1>6 DEF PopPending, queueVars, receiverVars
    <2> QED
      BY <1>1, <1>3, <1>4, <2>1, <2>2, <2>3, CalmLetters
  <1>7. CASE PopOutput(n)
    <2>1. \A m \in Letters : Travels(m)' = Travels(m) /\ (OnTheWay(m)' <=> OnTheWay(m))
      BY <1>7, PopOutputMoves
    <2>2. \A m \in Letters : Travels(m)' <= Travels(m) /\ (OnTheWay(m)' => OnTheWay(m))
      BY <1>2, <2>1
    <2>3. UNCHANGED <<sent, ackQueue, received, delivering, lost>> /\ lost \subseteq lost'
      BY <1>7 DEF PopOutput, receiverVars
    <2> QED
      BY <1>1, <1>3, <1>4, <2>1, <2>2, <2>3, CalmLetters
  <1>8. CASE DropTooOld(n)
    <2>1. \A m \in Letters : /\ Travels(m)' <= Travels(m) /\ (OnTheWay(m)' <=> OnTheWay(m))
                             /\ Travels(m)' = Travels(m) \/ m = Head(pending[n])
      BY <1>8, DropMoves
    <2>2. lost \subseteq lost'
      BY <1>8 DEF DropTooOld, Lose
    <2>3. ASSUME NEW g \in Gradients, GradientsOf(g) = Head(pending[n]) PROVE g \in lost'
      <3>1. Head(pending[n]).kind = "gradients" /\ Head(pending[n]).num = g
        BY <2>3, LetterFields
      <3> HIDE <2>3
      <3> QED
        BY <1>8, <3>1 DEF DropTooOld, Lose, MustKeep
    <2>4. UNCHANGED <<sent, ackQueue, received, delivering>>
      BY <1>8 DEF DropTooOld, receiverVars
    <2> QED
      BY <1>1, <1>3, <1>4, <2>1, <2>2, <2>3, <2>4, CalmLetters
  <1>9. CASE SendFails(n)
    <2>1. \A m \in Letters : /\ Travels(m)' <= Travels(m) /\ (OnTheWay(m)' <=> OnTheWay(m))
                             /\ Travels(m)' = Travels(m) \/ (m.from = n /\ ~ senderActive[n])
      BY <1>9, SendFailsMoves
    <2>2. ~ senderActive[n] => ~ Serving(n)'
      BY DEF Shape, MainShape, Serving, mainVars
    <2>3. UNCHANGED <<sent, ackQueue, received, delivering, lost>>
      BY <1>9 DEF SendFails, queueVars
    <2> QED
      BY <1>1, <1>3, <1>4, <2>1, <2>2, <2>3, CalmLetters
  <1>10. CASE Send(n)
    <2>1. \A m \in Letters : /\ Travels(m)' = Travels(m)
                             /\ OnTheWay(m)' <=> OnTheWay(m) \/ hand[n] = m
      BY <1>2, <1>10, SendMoves
    <2>2. UNCHANGED <<ackQueue, received, lost, delivering>>
      BY <1>10 DEF Send, queueVars
    <2>3. \A g \in Gradients : Before(g)' = Before(g) /\ Acks(g)' = Acks(g) /\ After(g)' = After(g)
      BY <1>3, <2>1, <2>2 DEF Before, Acks, After
    <2>4. hand[n] \in Mail /\ hand[n].from = n
      BY <1>10 DEF Send, Shape, SenderShape, Outgoing
    <2>5. CASE ~ MustKeep(hand[n])
      <3>1. UNCHANGED sent
        BY <1>10, <2>5 DEF Send, Keep
      <3>2. \A g \in Gradients : hand[n] # GradientsOf(g)
        BY <2>5, LetterFields DEF MustKeep
      <3>3. \A g \in Gradients : Before(g) \in Nat /\ Acks(g) \in Nat
        BY CountTypes
      <3>4. lost \subseteq lost'
        BY <2>2
      <3> QED
        BY <1>1, <1>3, <1>4, <2>1, <2>3, <3>1, <3>2, <3>3, <3>4, CalmStep
    <2>6. CASE MustKeep(hand[n])
      <3>1. PICK h \in Gradients : hand[n] = GradientsOf(h)
        BY <2>4, <2>6, MailKinds DEF MustKeep
      <3>2. n = OwnerOf[h] /\ hand[n].num = h
        BY <2>4, <3>1, LetterFields
      <3>3. \/ IdOf[h] \in sent[n] /\ UNCHANGED sent /\ ~ Up(n)'
            \/ IdOf[h] \notin sent[n] /\ sent' = [sent EXCEPT ![n] = @ \cup {IdOf[h]}]
        BY <1>10, <2>6, <3>2 DEF Send, Keep, Goto, Up, Shape, SenderShape
      <3>4. \A g \in Gradients : InFlight(g)' <=> InFlight(g) \/ g = h
        BY <1>3, <2>1, <2>3, <3>1, DifferentLetters DEF InFlight
      <3>5. \A k \in Node : sent[k] \subseteq sent'[k]
        BY <3>3 DEF Shape, SenderShape
      <3>6. ~ Up(n)' \/ IdOf[h] \in sent'[n]
        <4>1. n \in DOMAIN sent
          BY DEF Shape, SenderShape
        <4>2. CASE IdOf[h] \notin sent[n]
          BY <3>3, <4>1, <4>2
        <4>3. CASE IdOf[h] \in sent[n]
          BY <3>3, <4>3
        <4> QED
          BY <4>2, <4>3
      <3>7. \A g \in Gradients : Counted(g)' /\ NotGone(g)'
        BY <1>1, <1>3, <1>4, <2>2, <2>3 DEF LinkInv, Counted, NotGone
      <3>8. ASSUME NEW g \in Gradients PROVE Remembered(g)'
        BY <1>1, <1>3, <3>2, <3>4, <3>5, <3>6 DEF LinkInv, Remembered
      <3>9. ASSUME NEW g \in Gradients, g # h, OwnerOf[g] = n, IdOf[g] = IdOf[h],
                   InFlight(g), Up(n)'
            PROVE  FALSE
        <4>1. IdOf[h] \in sent[n]
          BY <1>1, <3>9 DEF LinkInv, Remembered
        <4> QED
          BY <3>3, <3>9, <4>1
      <3>10. ASSUME NEW g \in Gradients, NEW f \in Gradients PROVE OneFlight(g, f)'
        BY <1>1, <1>3, <3>2, <3>4, <3>9 DEF LinkInv, OneFlight
      <3> QED
        BY <3>7, <3>8, <3>10 DEF LinkInv
    <2> QED
      BY <2>5, <2>6
  <1>11. CASE TakeAck(n)
    <2>0. PICK h : h = Head(ackQueue[n])
      OBVIOUS
    <2>1. /\ ackQueue[n] # <<>>
          /\ sent' = [sent EXCEPT ![n] = @ \ {IdOf[h]}]
          /\ ackQueue' = [ackQueue EXCEPT ![n] = Tail(ackQueue[n])]
          /\ UNCHANGED <<output, pending, hand, backlog, reading, received, lost, delivering>>
      BY <1>11, <2>0 DEF TakeAck, Pop, receiverVars
    <2>2. ackQueue[n] \in Seq(Owned(n)) /\ n \in DOMAIN ackQueue /\ DOMAIN ackQueue = Node
      BY DEF Shape, ReceiverShape
    <2>3. h \in Gradients /\ OwnerOf[h] = n
      BY <2>0, <2>1, <2>2, Popped DEF Owned
    <2>4. \A g \in Gradients : Occurrences(g, ackQueue[n])
                                 = Occurrences(g, Tail(ackQueue[n])) + One(h = g)
      BY <2>0, <2>1, <2>2, OccurTail
    <2>5. \A g \in Gradients : Occurrences(g, Tail(ackQueue[n])) \in Nat
      BY <2>1, <2>2, Popped, OccurType
    <2>6. \A m \in Letters : Travels(m)' = Travels(m) /\ (OnTheWay(m)' <=> OnTheWay(m))
      BY <2>1, Still
    <2>7. \A g \in Gradients : /\ Before(g)' = Before(g) /\ After(g)' = After(g)
                               /\ OnTheWay(GradientsOf(g))' <=> OnTheWay(GradientsOf(g))
      BY <1>3, <2>1, <2>6 DEF Before, After
    <2>8. ASSUME NEW g \in Gradients PROVE Acks(g)' = Acks(g) - One(h = g)
      <3>1. Travels(AckOf(g))' = Travels(AckOf(g)) /\ Travels(AckOf(g)) \in Nat
        BY <1>2, <1>3, <2>6
      <3>2. CASE OwnerOf[g] = n
        <4>1. ackQueue'[n] = Tail(ackQueue[n])
          BY <2>1, <2>2
        <4> QED
          BY <2>4, <2>5, <3>1, <3>2, <4>1 DEF Acks, One
      <3>3. CASE OwnerOf[g] # n
        <4>1. ackQueue'[OwnerOf[g]] = ackQueue[OwnerOf[g]] /\ h # g
          BY <1>3, <2>1, <2>2, <2>3, <3>3
        <4>2. Occurrences(g, ackQueue[OwnerOf[g]]) \in Nat
          BY CountTypes
        <4> QED
          BY <3>1, <4>1, <4>2 DEF Acks, One
      <3> QED
        BY <3>2, <3>3
    <2>9. \A g \in Gradients : /\ Before(g) \in Nat /\ After(g) \in Nat /\ Acks(g) \in Nat
                               /\ Acks(g)' \in Nat
      BY CountTypes, CountTypesNext DEF CountsTyped
    <2>10. \A g \in Gradients : InFlight(g)' => InFlight(g)
      BY <2>7, <2>8, <2>9 DEF InFlight, One
    <2>11. InFlight(h) /\ ~ InFlight(h)'
      <3>1. Acks(h)' = Acks(h) - 1 /\ Acks(h)' \in Nat /\ Acks(h) \in Nat
        BY <2>3, <2>8, <2>9 DEF One
      <3>2. /\ Before(h) + After(h) <= 1 /\ Acks(h) <= After(h)
            /\ Before(h) \in Nat /\ After(h) \in Nat
        BY <2>3, <2>9 DEF LinkInv, Counted
      <3>3. Acks(h) = 1 /\ Before(h) = 0
        BY <3>1, <3>2
      <3>4. ~ OnTheWay(GradientsOf(h))'
        BY <2>3, <2>7, <3>3, CountTypes
      <3> QED
        BY <3>1, <3>3, <3>4 DEF InFlight
    <2>12. \A g \in Gradients : Counted(g)' /\ NotGone(g)'
      <3> SUFFICES ASSUME NEW g \in Gradients PROVE Counted(g)' /\ NotGone(g)'
        OBVIOUS
      <3>1. Acks(g)' <= Acks(g)
        BY <2>8, <2>9 DEF One
      <3>2. Counted(g)'
        BY <1>4, <2>7, <2>9, <3>1 DEF LinkInv, Counted
      <3>3. NotGone(g)'
        BY <1>1, <1>3, <1>4, <2>1, <2>7 DEF LinkInv, NotGone
      <3> QED
        BY <3>2, <3>3
    <2>13. ASSUME NEW g \in Gradients PROVE Remembered(g)'
      <3> SUFFICES ASSUME InFlight(g)', Up(OwnerOf[g])'
                   PROVE  IdOf[g] \in sent'[OwnerOf[g]]
        BY DEF Remembered
      <3>1. InFlight(g) /\ Up(OwnerOf[g]) /\ g # h
        BY <1>1, <1>3, <2>10, <2>11
      <3>2. IdOf[g] \in sent[OwnerOf[g]]
        BY <3>1 DEF LinkInv, Remembered
      <3>3. OwnerOf[g] = n => IdOf[g] # IdOf[h]
        BY <2>3, <2>11, <3>1 DEF LinkInv, OneFlight
      <3> QED
        BY <1>3, <2>1, <3>2, <3>3 DEF Shape, SenderShape
    <2>14. ASSUME NEW g \in Gradients, NEW f \in Gradients PROVE OneFlight(g, f)'
      BY <1>1, <1>3, <2>10 DEF LinkInv, OneFlight
    <2> QED
      BY <2>12, <2>13, <2>14 DEF LinkInv
  <1> QED
    BY <1>5, <1>6, <1>7, <1>8, <1>9, <1>10, <1>11 DEF SenderRuns

LEMMA ReceiverStepLink ==
    ASSUME Inv, Shape', [Next]_vars, NEW n \in Node, ReceiverStep(n), UNCHANGED mainVars
    PROVE  LinkInv'
  <1> USE DEF Inv
  <1>1. \A k \in Node : (Up(k)' => Up(k)) /\ (Serving(k)' => Serving(k))
    BY NeverBack
  <1>2. \A m \in Letters : Travels(m) \in Nat /\ Travels(m) <= 1
    BY TravelsType, OneTravels
  <1>3. \A g \in Gradients : /\ GradientsOf(g) \in Letters /\ AckOf(g) \in Letters
                             /\ GradientsOf(g).from = OwnerOf[g] /\ OwnerOf[g] \in Node
    BY LetterFields, Nodes
  <1>4. UNCHANGED produced
    BY DEF mainVars
  <1>5. ASSUME NEW x \in backlog[n], Accept(n, x) PROVE LinkInv'
    <2>1. \A m \in Letters : Travels(m)' = Travels(m) /\ (OnTheWay(m)' <=> OnTheWay(m))
      BY <1>2, <1>5, AcceptMoves
    <2>2. \A m \in Letters : Travels(m)' <= Travels(m) /\ (OnTheWay(m)' => OnTheWay(m))
      BY <1>2, <2>1
    <2>3. UNCHANGED <<sent, ackQueue, received, delivering, lost>> /\ lost \subseteq lost'
      BY <1>5 DEF Accept, queueVars, senderVars
    <2> QED
      BY <1>1, <1>3, <1>4, <2>1, <2>2, <2>3, CalmLetters
  <1>6. ASSUME NEW x \in reading[n] \cup delivering[n], ReadStep(n, x) PROVE LinkInv'
    <2>1. x \in Incoming(n) /\ x \in Mail /\ x.to = n
      BY <1>6 DEF Shape, ReceiverShape, Incoming
    <2>2. CASE ReadFails(n, x)
      <3>1. ReadsFrom(n, x) /\ UNCHANGED <<output, pending, hand, backlog>>
        BY <2>2 DEF ReadFails, senderVars
      <3>2. \A m \in Letters : /\ Travels(m)' = Travels(m) - One(x = m)
                               /\ OnTheWay(m)' => OnTheWay(m)
        BY <3>1, ReadMoves
      <3>3. \A m \in Letters : Travels(m)' <= Travels(m) /\ (OnTheWay(m)' => OnTheWay(m))
        BY <1>2, <3>2 DEF One
      <3>4. UNCHANGED <<sent, ackQueue, received, delivering>> /\ lost \subseteq lost'
        BY <2>2 DEF ReadFails, Lose, senderVars
      <3>5. ASSUME NEW g \in Gradients
            PROVE  Travels(GradientsOf(g))' = Travels(GradientsOf(g)) \/ g \in lost'
        <4>1. CASE x = GradientsOf(g)
          <5>1. x.kind = "gradients" /\ x.num = g
            BY <4>1, LetterFields
          <5> HIDE <4>1
          <5> QED
            BY <2>2, <5>1 DEF ReadFails, Lose, MustKeep
        <4>2. CASE x # GradientsOf(g)
          BY <1>2, <1>3, <3>2, <4>2 DEF One
        <4> QED
          BY <4>1, <4>2
      <3> QED
        BY <1>1, <1>4, <3>3, <3>4, <3>5, CalmLetters
    <2>3. CASE ReadCommand(n, x)
      <3>1. ReadsFrom(n, x) /\ UNCHANGED <<output, pending, hand, backlog>>
        BY <2>3 DEF ReadCommand, senderVars
      <3>2. \A m \in Letters : x # m
        BY <2>1, <2>3, MailKinds, LetterNodes DEF ReadCommand
      <3>3. \A m \in Letters : Travels(m)' = Travels(m) /\ (OnTheWay(m)' => OnTheWay(m))
        BY <1>2, <3>1, <3>2, ReadMoves DEF One
      <3>4. \A m \in Letters : Travels(m)' <= Travels(m)
        BY <1>2, <3>3
      <3>5. UNCHANGED <<sent, ackQueue, received, delivering, lost>> /\ lost \subseteq lost'
        BY <2>3 DEF ReadCommand, senderVars
      <3> QED
        BY <1>1, <1>3, <1>4, <3>3, <3>4, <3>5, CalmLetters
    <2>4. CASE ReadAck(n, x)
      <3>1. ReadsFrom(n, x) /\ UNCHANGED <<output, pending, hand, backlog>>
        BY <2>4 DEF ReadAck, senderVars
      <3>2. PICK h \in Gradients : x = AckOf(h)
        BY <2>1, <2>4, MailKinds DEF ReadAck
      <3>3. n = OwnerOf[h] /\ x.num = h
        BY <2>1, <3>2, LetterFields
      <3>4. /\ ackQueue' = [ackQueue EXCEPT ![n] = Append(@, h)]
            /\ UNCHANGED <<sent, received, delivering, lost>> /\ lost \subseteq lost'
        BY <2>4, <3>3 DEF ReadAck, Push, senderVars
      <3>5. /\ ackQueue[n] \in Seq(Owned(n)) /\ n \in DOMAIN ackQueue /\ h \in Owned(n)
        BY <3>3 DEF Shape, ReceiverShape, Owned
      <3>6. \A m \in Letters : /\ Travels(m)' = Travels(m) - One(x = m)
                               /\ OnTheWay(m)' => OnTheWay(m)
        BY <3>1, ReadMoves
      <3>7. ASSUME NEW g \in Gradients
            PROVE  /\ Before(g)' = Before(g) /\ After(g)' = After(g) /\ Acks(g)' = Acks(g)
                   /\ OnTheWay(GradientsOf(g))' => OnTheWay(GradientsOf(g))
        <4>1. Travels(GradientsOf(g))' = Travels(GradientsOf(g))
          BY <1>2, <1>3, <3>2, <3>6, DifferentLetters DEF One
        <4>2. Travels(AckOf(g))' = Travels(AckOf(g)) - One(h = g)
          BY <1>3, <3>2, <3>6, DifferentLetters DEF One
        <4>3. Occurrences(g, ackQueue'[OwnerOf[g]])
                = Occurrences(g, ackQueue[OwnerOf[g]]) + One(h = g)
          <5>1. CASE OwnerOf[g] = n
            <6>1. Occurrences(g, Append(ackQueue[n], h)) = Occurrences(g, ackQueue[n]) + One(h = g)
              BY <3>5, OccurAppend
            <6>2. ackQueue'[n] = Append(ackQueue[n], h)
              BY <3>4, <3>5
            <6> QED
              BY <5>1, <6>1, <6>2
          <5>2. CASE OwnerOf[g] # n
            <6>1. ackQueue'[OwnerOf[g]] = ackQueue[OwnerOf[g]] /\ h # g
              BY <3>3, <3>4, <5>2
            <6> QED
              BY <6>1, CountTypes DEF One
          <5> QED
            BY <5>1, <5>2
        <4>4. After(g)' = After(g)
          BY <3>4 DEF After
        <4>5. Acks(g)' = Acks(g)
          <5>1. /\ Travels(AckOf(g)) \in Nat /\ Occurrences(g, ackQueue[OwnerOf[g]]) \in Nat
                /\ One(h = g) \in Nat
            BY CountTypes DEF One
          <5>2. Acks(g)' = Travels(AckOf(g))' + Occurrences(g, ackQueue'[OwnerOf[g]])
            BY DEF Acks
          <5> QED
            BY <4>2, <4>3, <5>1, <5>2 DEF Acks
        <4> QED
          BY <1>3, <3>6, <4>1, <4>4, <4>5 DEF Before
      <3>8. \A g \in Gradients : /\ Before(g)' <= Before(g) /\ Acks(g)' <= Acks(g)
        BY <3>7, CountTypes
      <3> QED
        BY <1>1, <1>4, <3>4, <3>7, <3>8, CalmStep
    <2>5. CASE ReadGradients(n, x)
      <3>1. ReadsFrom(n, x) /\ UNCHANGED <<pending, hand, backlog>>
        BY <2>5 DEF ReadGradients, senderVars
      <3>2. PICK h \in Gradients : x = GradientsOf(h)
        BY <2>1, <2>5, MailKinds DEF ReadGradients
      <3>3. n = Master /\ Acknowledgement(x) = AckOf(h)
        BY <2>1, <3>2, LetterFields DEF AckOf
      <3>4. /\ output' = [output EXCEPT ![n] = Append(@, AckOf(h))]
            /\ delivering' = [delivering EXCEPT ![n] = @ \cup {x}]
            /\ UNCHANGED <<sent, received, ackQueue, lost>>
        BY <2>5, <3>3 DEF ReadGradients, Push, senderVars
      <3>5. AckOf(h) \in Outgoing(n) /\ n \in DOMAIN delivering
        BY <3>3, LetterFields DEF Outgoing, Mail, Shape, ReceiverShape
      <3>6. \A m \in Letters : /\ Travels(m)' = Travels(m) - One(x = m) + One(AckOf(h) = m)
                               /\ OnTheWay(m)' => OnTheWay(m)
        <4> SUFFICES ASSUME NEW m \in Letters
                     PROVE  /\ Travels(m)' = Travels(m) - One(x = m) + One(AckOf(h) = m)
                            /\ OnTheWay(m)' => OnTheWay(m)
          OBVIOUS
        <4>1. /\ OnTheWay(m)' => OnTheWay(m)
              /\ \A a \in Outgoing(n) :
                    output' = [output EXCEPT ![n] = Append(@, a)] =>
                       Travels(m)' = Travels(m) - One(x = m) + One(a = m)
          BY <3>1, ReadMoves
        <4> QED
          BY <3>4, <3>5, <4>1
      <3>7. \A g \in Gradients : Before(g)' = Before(g) - One(g = h)
        BY <1>2, <1>3, <3>2, <3>6, DifferentLetters DEF Before, One
      <3>8. ASSUME NEW g \in Gradients PROVE Acks(g)' = Acks(g) + One(g = h)
        <4>1. Travels(AckOf(g))' = Travels(AckOf(g)) + One(g = h)
          BY <1>2, <1>3, <3>2, <3>6, DifferentLetters DEF One
        <4>2. /\ Travels(AckOf(g)) \in Nat /\ Occurrences(g, ackQueue[OwnerOf[g]]) \in Nat
              /\ One(g = h) \in Nat
          BY CountTypes DEF One
        <4>3. Acks(g)' = Travels(AckOf(g))' + Occurrences(g, ackQueue[OwnerOf[g]])
          BY <3>4 DEF Acks
        <4> QED
          BY <4>1, <4>2, <4>3 DEF Acks
      <3>9. OnTheWay(x) /\ Before(h) >= 1
        <4>1. OnTheWay(x)
          BY <2>1, <3>1 DEF ReadsFrom, OnTheWay
        <4> QED
          BY <3>2, <4>1, CountTypes
      <3>10. \A g \in Gradients :
                /\ Before(g) \in Nat /\ After(g) \in Nat /\ Acks(g) \in Nat
                /\ Before(g)' \in Nat /\ After(g)' \in Nat /\ Acks(g)' \in Nat
        BY CountTypes, CountTypesNext DEF CountsTyped
      <3>11. Before(h) = 1 /\ After(h) = 0 /\ Acks(h) = 0
        BY <3>9, <3>10 DEF LinkInv, Counted
      <3>12. ASSUME NEW g \in Gradients PROVE After(g)' = After(g) + One(g = h)
        <4>1. CASE g = h
          <5>1. GradientsOf(h) \in delivering'[Master] /\ h \notin received
            BY <3>2, <3>3, <3>4, <3>5, <3>11 DEF After, One
          <5> QED
            BY <3>4, <3>11, <4>1, <5>1 DEF After, One
        <4>2. CASE g # h
          <5>1. GradientsOf(g) \in delivering'[Master] <=> GradientsOf(g) \in delivering[Master]
            BY <3>2, <3>3, <3>4, <3>5, <4>2, DifferentLetters
          <5> QED
            BY <3>4, <3>10, <4>2, <5>1 DEF After, One
        <4> QED
          BY <4>1, <4>2
      <3>13. ASSUME NEW g \in Gradients PROVE Counted(g)' /\ NotGone(g)'
        <4>1. Before(g)' + After(g)' = Before(g) + After(g)
          BY <3>7, <3>10, <3>12 DEF One
        <4>2. Acks(g)' <= After(g)'
          BY <3>8, <3>10, <3>12 DEF LinkInv, Counted, One
        <4>3. Counted(g)'
          BY <1>4, <4>1, <4>2 DEF LinkInv, Counted
        <4>4. NotGone(g)'
          BY <1>1, <1>3, <1>4, <3>4, <4>1 DEF LinkInv, NotGone
        <4> QED
          BY <4>3, <4>4
      <3>14. ASSUME NEW g \in Gradients PROVE InFlight(g)' => InFlight(g)
        <4>1. CASE g = h
          BY <3>2, <3>9, <4>1 DEF InFlight
        <4>2. CASE g # h
          BY <1>3, <3>6, <3>8, <3>10, <4>2 DEF InFlight, One
        <4> QED
          BY <4>1, <4>2
      <3>15. ASSUME NEW g \in Gradients PROVE Remembered(g)'
        BY <1>1, <1>3, <3>4, <3>14 DEF LinkInv, Remembered
      <3>16. ASSUME NEW g \in Gradients, NEW f \in Gradients PROVE OneFlight(g, f)'
        BY <1>1, <1>3, <3>14 DEF LinkInv, OneFlight
      <3> QED
        BY <3>13, <3>15, <3>16 DEF LinkInv
    <2>6. CASE Deliver(n, x)
      <3>1. PICK h \in Gradients : x = GradientsOf(h)
        BY <2>6 DEF Deliver, Shape, ReceiverShape
      <3>2. n = Master /\ x.num = h
        BY <2>1, <3>1, LetterFields
      <3>3. /\ x \in delivering[n]
            /\ delivering' = [delivering EXCEPT ![n] = @ \ {x}]
            /\ received' = received \cup {h}
            /\ UNCHANGED <<output, ackQueue, pending, hand, backlog, reading, sent, lost>>
            /\ lost \subseteq lost'
        BY <2>6, <3>2 DEF Deliver, senderVars
      <3>4. \A m \in Letters : Travels(m)' = Travels(m) /\ (OnTheWay(m)' <=> OnTheWay(m))
        BY <3>3, Still
      <3>5. n \in DOMAIN delivering
        BY DEF Shape, ReceiverShape
      <3>6. \A g \in Gradients : Before(g) \in Nat /\ After(g) \in Nat /\ Acks(g) \in Nat
        BY CountTypes
      <3>7. ASSUME NEW g \in Gradients PROVE After(g)' = After(g)
        <4>1. CASE g = h
          <5>1. Before(h) + After(h) <= 1
            BY DEF LinkInv, Counted
          <5>2. After(h) <= 1
            BY <3>6, <5>1
          <5>3. GradientsOf(h) \in delivering[Master] /\ h \notin received
            BY <3>1, <3>2, <3>3, <5>2 DEF After, One
          <5>4. GradientsOf(h) \notin delivering'[Master] /\ h \in received'
            BY <3>1, <3>2, <3>3, <3>5
          <5> QED
            BY <4>1, <5>3, <5>4 DEF After, One
        <4>2. CASE g # h
          <5>1. GradientsOf(g) \in delivering'[Master] <=> GradientsOf(g) \in delivering[Master]
            BY <3>1, <3>2, <3>3, <3>5, <4>2, DifferentLetters
          <5> QED
            BY <3>3, <4>2, <5>1 DEF After, One
        <4> QED
          BY <4>1, <4>2
      <3>8. \A g \in Gradients : /\ Before(g)' = Before(g) /\ Acks(g)' = Acks(g)
                                 /\ OnTheWay(GradientsOf(g))' => OnTheWay(GradientsOf(g))
        BY <1>3, <3>3, <3>4 DEF Before, Acks
      <3>9. \A g \in Gradients : Before(g)' <= Before(g) /\ Acks(g)' <= Acks(g)
        BY <3>6, <3>8
      <3> QED
        BY <1>1, <1>4, <3>3, <3>7, <3>8, <3>9, CalmStep
    <2> QED
      BY <1>6, <2>2, <2>3, <2>4, <2>5, <2>6 DEF ReadStep
  <1> QED
    BY <1>5, <1>6 DEF ReceiverStep

LEMMA MainStepLink ==
    ASSUME Inv, Shape', [Next]_vars, NEW n \in Node, MainStep(n)
    PROVE  LinkInv'
  <1> USE DEF Inv
  <1>1. \A k \in Node : (Up(k)' => Up(k)) /\ (Serving(k)' => Serving(k))
    BY NeverBack
  <1>2. \A m \in Letters : Travels(m) \in Nat
    BY TravelsType
  <1>3. \A g \in Gradients : /\ GradientsOf(g) \in Letters /\ AckOf(g) \in Letters
                             /\ GradientsOf(g).from = OwnerOf[g] /\ AckOf(g).from = Master
                             /\ OwnerOf[g] \in Node /\ OwnerOf[g] # Master
    BY LetterFields, Nodes
  <1>4. n \in DOMAIN output /\ n \in DOMAIN pending /\ n \in DOMAIN mainPc
        /\ output[n] \in Seq(Outgoing(n)) /\ pending[n] \in Seq(Outgoing(n))
    BY DEF Shape, SenderShape, MainShape
  <1>5. CASE n = Master /\ MasterReads
    <2>1. PICK x : x = Head(input[Master])
      OBVIOUS
    <2>2. /\ output' = [output EXCEPT ![n] =
                  CASE x.kind \in {"start", "stop"} -> @ \o ToWorkers(x.kind, x.num)
                    [] x.kind = "shutdown" -> ShutdownCommands
                    [] OTHER -> @]
          /\ UNCHANGED <<pending, hand, backlog, reading>>
          /\ UNCHANGED <<sent, produced, ackQueue, received, delivering, lost>>
          /\ lost \subseteq lost'
      BY <1>5, <2>1 DEF MasterReads, senderVars, receiverVars
    <2>3. x \in Mail
      <3>1. input[Master] # <<>> /\ input[Master] \in Seq(Incoming(Master))
        BY <1>5, Nodes DEF MasterReads, Shape, ReceiverShape
      <3> QED
        BY <2>1, <3>1, Popped DEF Incoming
    <2>4. ASSUME NEW m \in Letters
          PROVE  /\ Occurrences(m, output'[n]) \in Nat
                 /\ m.from = n => Occurrences(m, output'[n]) <= Occurrences(m, output[n])
      <3>1. Occurrences(m, output[n]) \in Nat
        BY <1>4, OccurType
      <3>2. CASE x.kind \in {"start", "stop"}
        <4>1. output'[n] = output[n] \o ToWorkers(x.kind, x.num)
          BY <1>4, <2>2, <3>2
        <4>2. x.kind \in Commands /\ x.num \in Nat
          BY <2>3, <3>2, MailKinds, OrderFields DEF Commands
        <4>3. PICK r \in Seq(Orders) : r = ToWorkers(x.kind, x.num)
          BY <4>2, ToWorkersType
        <4>4. m \notin Range(r) /\ r \in Seq(Outgoing(n))
          BY <1>5, OrdersAreNoLetters
        <4>5. Occurrences(m, output[n] \o r) = Occurrences(m, output[n])
          BY <1>4, <4>4, OccurConcat
        <4> QED
          BY <3>1, <4>1, <4>3, <4>5
      <3>3. CASE x.kind = "shutdown"
        <4>1. output'[n] = ShutdownCommands
          BY <1>4, <2>2, <3>3
        <4>2. PICK r \in Seq(Orders) : r = ShutdownCommands
          BY ShutdownType
        <4>3. m \notin Range(r) /\ r \in Seq(Outgoing(n))
          BY <1>5, OrdersAreNoLetters
        <4>4. Occurrences(m, r) = 0
          BY <4>3, OccurType
        <4> QED
          BY <3>1, <4>1, <4>2, <4>4
      <3>4. CASE x.kind \notin {"start", "stop", "shutdown"}
        BY <1>4, <2>2, <3>1, <3>4
      <3> QED
        BY <3>2, <3>3, <3>4
    <2>5. output' = [output EXCEPT ![n] = output'[n]]
      BY <1>4, <2>2
    <2>6. ASSUME NEW m \in Letters
          PROVE  /\ Travels(m)' <= Travels(m) /\ (OnTheWay(m)' => OnTheWay(m))
                 /\ m.from # n => Travels(m)' = Travels(m)
      <3>1. /\ OnTheWay(m)' <=> OnTheWay(m)
            /\ m.from # n => Travels(m)' = Travels(m)
            /\ m.from = n => Travels(m)' = Travels(m) - Occurrences(m, output[n])
                                                      + Occurrences(m, output'[n])
        BY <2>2, <2>4, <2>5, OutputMoves
      <3>2. Occurrences(m, output[n]) \in Nat
        BY <1>4, OccurType
      <3> QED
        BY <1>2, <2>4, <3>1, <3>2
    <2> QED
      BY <1>1, <1>3, <1>5, <2>2, <2>6, CalmLetters
  <1>6. CASE \/ n \in Worker /\ (WorkerReads(n) \/ HasStopped(n))
             \/ StopSender(n)
    <2>1. /\ UNCHANGED <<output, pending, hand, backlog, reading>>
          /\ UNCHANGED <<sent, produced, ackQueue, received, delivering, lost>>
          /\ lost \subseteq lost'
      BY <1>6 DEF WorkerReads, HasStopped, StopSender, tcpVars, queueVars, senderVars,
                  receiverVars
    <2>2. \A m \in Letters : Travels(m)' = Travels(m) /\ (OnTheWay(m)' <=> OnTheWay(m))
      BY <2>1, Still
    <2>3. \A m \in Letters : Travels(m)' <= Travels(m) /\ (OnTheWay(m)' => OnTheWay(m))
      BY <1>2, <2>2
    <2> QED
      BY <1>1, <1>3, <2>1, <2>2, <2>3, CalmLetters
  <1>7. ASSUME n \in Worker, NEW h \in Gradients, Produce(n, h) PROVE LinkInv'
    <2>1. /\ OwnerOf[h] = n /\ h \notin produced /\ produced' = produced \cup {h}
          /\ output' = [output EXCEPT ![n] = Append(@, GradientsOf(h))]
          /\ UNCHANGED <<pending, hand, backlog, reading>>
          /\ UNCHANGED <<sent, ackQueue, received, delivering, lost>>
      BY <1>7 DEF Produce, Push, senderVars, receiverVars
    <2>2. GradientsOf(h) \in Outgoing(n)
      BY <1>3, <2>1 DEF Outgoing, Mail
    <2>3. /\ output'[n] = Append(output[n], GradientsOf(h))
          /\ output' = [output EXCEPT ![n] = output'[n]]
      BY <1>4, <2>1
    <2>4. ASSUME NEW m \in Letters
          PROVE  /\ Travels(m)' = Travels(m) + One(GradientsOf(h) = m)
                 /\ OnTheWay(m)' <=> OnTheWay(m)
      <3>1. Occurrences(m, output'[n]) = Occurrences(m, output[n]) + One(GradientsOf(h) = m)
        BY <1>4, <2>2, <2>3, OccurAppend
      <3>2. Occurrences(m, output[n]) \in Nat /\ Occurrences(m, output'[n]) \in Nat
        BY <1>4, <3>1, OccurType DEF One
      <3>3. /\ OnTheWay(m)' <=> OnTheWay(m)
            /\ m.from # n => Travels(m)' = Travels(m)
            /\ m.from = n => Travels(m)' = Travels(m) - Occurrences(m, output[n])
                                                      + Occurrences(m, output'[n])
        BY <2>1, <2>3, <3>2, OutputMoves
      <3>4. m.from # n => One(GradientsOf(h) = m) = 0
        BY <1>3, <2>1 DEF One
      <3>5. One(GradientsOf(h) = m) \in Nat
        BY DEF One
      <3> QED
        BY <1>2, <3>1, <3>2, <3>3, <3>4, <3>5
    <2>5. \A g \in Gradients :
             /\ Before(g)' = Before(g) + One(h = g)
             /\ OnTheWay(GradientsOf(g))' <=> OnTheWay(GradientsOf(g))
      BY <1>3, <2>4, DifferentLetters DEF Before, One
    <2>6. ASSUME NEW g \in Gradients PROVE Acks(g)' = Acks(g) /\ After(g)' = After(g)
      <3>1. Travels(AckOf(g))' = Travels(AckOf(g))
        BY <1>2, <1>3, <2>4, DifferentLetters DEF One
      <3> QED
        BY <2>1, <3>1 DEF Acks, After
    <2>7. \A g \in Gradients : Before(g) \in Nat /\ After(g) \in Nat /\ Acks(g) \in Nat
      BY CountTypes
    <2>8. Before(h) + After(h) = 0
      BY <2>1 DEF LinkInv, Counted
    <2>9. ASSUME NEW g \in Gradients PROVE Counted(g)' /\ NotGone(g)'
      <3>1. CASE g = h
        <4>1. Before(g)' + After(g)' = 1 /\ Acks(g) = 0 /\ Acks(g)' = 0
          BY <2>5, <2>6, <2>7, <2>8, <3>1 DEF LinkInv, Counted, One
        <4>2. g \in produced' /\ After(g)' = After(g)
          BY <2>1, <2>6, <3>1
        <4> QED
          BY <2>7, <4>1, <4>2 DEF Counted, NotGone
      <3>2. CASE g # h
        <4>1. Before(g)' = Before(g) /\ Acks(g)' = Acks(g) /\ After(g)' = After(g)
          BY <2>5, <2>6, <2>7, <3>2 DEF One
        <4>2. g \in produced' <=> g \in produced
          BY <2>1, <3>2
        <4>3. Counted(g)'
          BY <4>1, <4>2 DEF LinkInv, Counted
        <4>4. NotGone(g)'
          BY <1>1, <1>3, <2>1, <4>1, <4>2 DEF LinkInv, NotGone
        <4> QED
          BY <4>3, <4>4
      <3> QED
        BY <3>1, <3>2
    <2>10. \A g \in Gradients : InFlight(g)' <=> InFlight(g)
      BY <2>5, <2>6 DEF InFlight
    <2>11. ASSUME NEW g \in Gradients PROVE Remembered(g)'
      BY <1>1, <1>3, <2>1, <2>10 DEF LinkInv, Remembered
    <2>12. ASSUME NEW g \in Gradients, NEW f \in Gradients PROVE OneFlight(g, f)'
      BY <1>1, <1>3, <2>10 DEF LinkInv, OneFlight
    <2> QED
      BY <2>9, <2>11, <2>12 DEF LinkInv
  <1>8. ASSUME n \in Worker, ClearOutput(n) PROVE LinkInv'
    <2>1. /\ output' = [output EXCEPT ![n] = <<>>]
          /\ UNCHANGED <<pending, hand, backlog, reading>>
          /\ UNCHANGED <<sent, produced, ackQueue, received, delivering, lost>>
          /\ lost \subseteq lost'
          /\ mainPc' = [mainPc EXCEPT ![n] = "cleared"]
      BY <1>8 DEF ClearOutput, Acts, MainGoto, senderVars, receiverVars
    <2>2. output'[n] = <<>> /\ output' = [output EXCEPT ![n] = output'[n]]
      BY <1>4, <2>1
    <2>3. ~ Serving(n)'
      BY <1>4, <2>1 DEF Serving
    <2>4. ASSUME NEW m \in Letters
          PROVE  /\ Travels(m)' <= Travels(m) /\ (OnTheWay(m)' => OnTheWay(m))
                 /\ m.from # n => Travels(m)' = Travels(m)
      <3>1. Occurrences(m, output'[n]) = 0 /\ Occurrences(m, output'[n]) \in Nat
        BY <2>2, NoneInEmpty
      <3>2. /\ OnTheWay(m)' <=> OnTheWay(m)
            /\ m.from # n => Travels(m)' = Travels(m)
            /\ m.from = n => Travels(m)' = Travels(m) - Occurrences(m, output[n])
                                                      + Occurrences(m, output'[n])
        BY <2>1, <2>2, <3>1, OutputMoves
      <3>3. Occurrences(m, output[n]) \in Nat
        BY <1>4, OccurType
      <3> QED
        BY <1>2, <3>1, <3>2, <3>3
    <2> QED
      BY <1>1, <1>3, <2>1, <2>3, <2>4, CalmLetters
  <1>9. CASE StopReceiver(n)
    <2>1. /\ pending' = [pending EXCEPT ![n] = <<>>]
          /\ UNCHANGED <<output, hand, backlog, reading>>
          /\ UNCHANGED <<sent, produced, ackQueue, received, delivering, lost>>
          /\ lost \subseteq lost'
          /\ mainPc' = [mainPc EXCEPT ![n] = "ended"]
      BY <1>9 DEF StopReceiver, MainGoto, queueVars, receiverVars
    <2>2. ~ Serving(n)'
      BY <1>4, <2>1 DEF Serving
    <2>3. ASSUME NEW m \in Letters
          PROVE  /\ Travels(m)' <= Travels(m) /\ (OnTheWay(m)' => OnTheWay(m))
                 /\ m.from # n => Travels(m)' = Travels(m)
      <3>1. OnTheWay(m)' <=> OnTheWay(m)
        BY <2>1 DEF OnTheWay
      <3>2. CASE m.from = n
        <4>1. Occurrences(m, pending'[m.from]) = 0
          BY <1>4, <2>1, <3>2, NoneInEmpty
        <4>2. Travels(m)' <= Travels(m)
          BY <2>1, <4>1, TravelsType DEF Travels, One
        <4> QED
          BY <3>1, <3>2, <4>2
      <3>3. CASE m.from # n
        <4>1. Travels(m)' = Travels(m)
          BY <2>1, <3>3 DEF Travels
        <4> QED
          BY <1>2, <3>1, <4>1
      <3> QED
        BY <3>2, <3>3
    <2> QED
      BY <1>1, <1>3, <2>1, <2>2, <2>3, CalmLetters
  <1> QED
    BY <1>5, <1>6, <1>7, <1>8, <1>9 DEF MainStep, WorkerStep

\* Signals and steps that change nothing.
LEMMA StillLink ==
    ASSUME Inv, Shape', [Next]_vars, UNCHANGED vars \/ (\E c \in Commands : Signal(c))
    PROVE  LinkInv'
  <1> USE DEF Inv
  <1>1. /\ UNCHANGED <<output, pending, hand, backlog, reading>>
        /\ UNCHANGED <<sent, produced, ackQueue, received, delivering, lost>>
        /\ lost \subseteq lost'
    BY DEF Signal, vars, mainVars, tcpVars, queueVars, senderVars, receiverVars
  <1>2. \A m \in Letters : Travels(m)' = Travels(m) /\ (OnTheWay(m)' <=> OnTheWay(m))
    BY <1>1, Still
  <1>3. \A m \in Letters : Travels(m)' <= Travels(m) /\ (OnTheWay(m)' => OnTheWay(m))
    BY <1>2, TravelsType
  <1>4. \A g \in Gradients : Travels(GradientsOf(g))' = Travels(GradientsOf(g))
    BY <1>2, LetterFields
  <1> QED
    BY <1>1, <1>3, <1>4, NeverBack, CalmLetters

LEMMA InitLink == Init => LinkInv
  <1> SUFFICES ASSUME Init PROVE LinkInv
    OBVIOUS
  <1>1. ASSUME NEW m \in Letters PROVE Travels(m) = 0 /\ ~ OnTheWay(m)
    <2>1. m.from \in Node /\ m.to \in Node /\ m # NoMessage
      BY LetterNodes
    <2>2. Occurrences(m, output[m.from]) = 0
      <3>1. CASE m.from = Master
        <4>1. "start" \in Commands /\ 0 \in Nat
          BY DEF Commands
        <4>2. PICK r \in Seq(Orders) : r = ToWorkers("start", 0)
          BY <4>1, ToWorkersType
        <4>3. m \notin Range(r)
          BY OrdersAreNoLetters
        <4>4. output[m.from] = r
          BY <2>1, <3>1, <4>2 DEF Init
        <4> QED
          BY <4>3, <4>4, OccurType
      <3>2. CASE m.from # Master
        BY <2>1, <3>2, NoneInEmpty DEF Init
      <3> QED
        BY <3>1, <3>2
    <2>3. Occurrences(m, pending[m.from]) = 0
      BY <2>1, NoneInEmpty DEF Init, TcpInit
    <2>4. hand[m.from] # m /\ backlog[m.to] = {} /\ reading[m.to] = {}
      BY <2>1 DEF Init, TcpInit
    <2> QED
      BY <2>2, <2>3, <2>4 DEF Travels, OnTheWay, One
  <1>2. ASSUME NEW g \in Gradients
        PROVE  Before(g) = 0 /\ After(g) = 0 /\ Acks(g) = 0 /\ ~ InFlight(g)
    <2>1. GradientsOf(g) \in Letters /\ AckOf(g) \in Letters /\ OwnerOf[g] \in Node
      BY LetterFields, Nodes
    <2>2. Occurrences(g, ackQueue[OwnerOf[g]]) = 0
      BY <2>1, NoneInEmpty DEF Init, TcpInit
    <2>3. Before(g) = 0 /\ Acks(g) = 0
      BY <1>1, <2>1, <2>2 DEF Before, Acks
    <2>4. After(g) = 0
      BY Nodes DEF After, One, Init, TcpInit
    <2> QED
      BY <1>1, <2>1, <2>3, <2>4 DEF InFlight
  <1>3. produced = {}
    BY DEF Init
  <1>4. \A g \in Gradients : Counted(g) /\ NotGone(g) /\ Remembered(g)
    BY <1>2, <1>3 DEF Counted, NotGone, Remembered
  <1>5. \A g, h \in Gradients : OneFlight(g, h)
    BY <1>2 DEF OneFlight
  <1> QED
    BY <1>4, <1>5 DEF LinkInv

LEMMA InvHolds == Spec => []Inv
  <1>1. Init => Inv
    BY InitShape, InitLink DEF Inv
  <1>2. Inv /\ [Next]_vars => Inv'
    <2> SUFFICES ASSUME Inv, [Next]_vars PROVE Inv'
      OBVIOUS
    <2>1. Shape'
      BY NextShape DEF Inv
    <2>2. ASSUME NEW n \in Node, MainStep(n) PROVE LinkInv'
      BY <2>1, <2>2, MainStepLink
    <2>3. ASSUME NEW n \in Node, TcpStep(n), UNCHANGED mainVars PROVE LinkInv'
      BY <2>1, <2>3, SenderRunsLink, ReceiverStepLink DEF TcpStep
    <2>4. UNCHANGED vars \/ (\E c \in Commands : Signal(c)) => LinkInv'
      BY <2>1, StillLink
    <2> QED
      BY <2>1, <2>2, <2>3, <2>4 DEF Inv, Next
  <1> QED
    BY <1>1, <1>2, PTL DEF Spec

-----------------------------------------------------------------------------
(* What it says of gradients *)

\* Where an acknowledgement may be, it is counted.
LEMMA AckCounted ==
    ASSUME Shape, NEW g \in Gradients,
           Queued(AckOf(g), Master) \/ OnTheWay(AckOf(g)) \/ g \in Range(ackQueue[OwnerOf[g]])
    PROVE  Acks(g) >= 1
  <1>1. AckOf(g) \in Letters /\ AckOf(g).from = Master
    BY LetterFields
  <1>2. Queued(AckOf(g), Master) \/ OnTheWay(AckOf(g)) => Travels(AckOf(g)) >= 1
    BY <1>1, TravelsType DEF Queued
  <1> QED
    BY <1>2, CountTypes

\* The master acknowledges only gradients that are in its input queue or on
\* their last step to it (TCP_Receiver's threads, which queue the
\* acknowledgement first), for any number of workers, gradients and signals.
THEOREM AcksAreAlwaysTrue == Spec => []AcksAreTrue
  <1>1. Inv => AcksAreTrue
    <2> SUFFICES ASSUME Inv PROVE AcksAreTrue
      OBVIOUS
    <2> USE DEF Inv
    <2>1. ASSUME NEW g \in Gradients, Acks(g) >= 1
          PROVE  g \in received \/ GradientsOf(g) \in delivering[Master]
      <3>1. Acks(g) <= After(g) /\ Acks(g) \in Nat /\ After(g) \in Nat
        BY CountTypes DEF LinkInv, Counted
      <3>2. After(g) # 0
        BY <2>1, <3>1
      <3> QED
        BY <3>2 DEF After, One
    <2> QED
      BY <2>1, AckCounted DEF AcksAreTrue, AckOf
  <1> QED
    BY <1>1, InvHolds, PTL

\* A TCP_Sender keeps the gradients it sent in sent_messages until their
\* acknowledgement is there, even when ids are used again.
THEOREM GradientsAreKept == Spec => []KeptUntilAcknowledged
  <1>1. Inv => KeptUntilAcknowledged
    <2> SUFFICES ASSUME Inv PROVE KeptUntilAcknowledged
      OBVIOUS
    <2> USE DEF Inv
    <2>1. ASSUME NEW g \in Gradients, Up(OwnerOf[g]),
                 OnTheWay(GradientsOf(g)) \/ Acks(g) >= 1
          PROVE  IdOf[g] \in sent[OwnerOf[g]]
      <3>1. InFlight(g)
        BY <2>1, CountTypes DEF InFlight
      <3> QED
        BY <2>1, <3>1 DEF LinkInv, Remembered
    <2> QED
      BY <2>1, AckCounted DEF KeptUntilAcknowledged, AckOf
  <1> QED
    BY <1>1, InvHolds, PTL

\* Gradients are in one place while their worker serves, and never in two:
\* what is tried again was not sent, and nothing reaches the master twice.
THEOREM GradientsInOnePlace == Spec => []InOnePlace
  <1>1. Inv => InOnePlace
    <2> SUFFICES ASSUME Inv, NEW g \in Gradients
                 PROVE  /\ Copies(g) <= 1
                        /\ g \in produced \ lost /\ Up(OwnerOf[g]) /\ Serving(OwnerOf[g]) =>
                               Copies(g) = 1
      BY DEF InOnePlace
    <2> USE DEF Inv
    <2>1. GradientsOf(g) \in Letters /\ GradientsOf(g).to = Master
      BY LetterFields
    <2>2. /\ Occurrences(GradientsOf(g), output[GradientsOf(g).from]) \in Nat
          /\ Occurrences(GradientsOf(g), pending[GradientsOf(g).from]) \in Nat
      BY <2>1, TravelsType
    <2>3. Copies(g) = Before(g) + After(g)
      BY <2>1, <2>2 DEF Copies, Before, After, Travels, One
    <2> QED
      BY <2>3 DEF LinkInv, Counted, NotGone
  <1> QED
    BY <1>1, InvHolds, PTL
=============================================================================
