------------------------- MODULE MessageQueueProofs -------------------------
(***************************************************************************)
(* Safety of MessageQueue for any number of threads, calls and signals.     *)
(***************************************************************************)
EXTENDS MessageQueue, SequenceTheorems, TLAPS

\* Who is inside a call has the mutex, and the handler runs in a thread.
MutexInv ==
    /\ \A t \in Thread : pc[t] \in Within <=> holder = t
    /\ pc[Handler] \in {"idle", "called", "push"}
    /\ victim = Nobody <=> pc[Handler] = "idle"

\* On its way to a message the consumer either has one or a reason not to.
PopInv ==
    /\ use.looks /\ pc[Consumer] \in {"looked", "pop"} => cleared \/ q # <<>>
    /\ pc[Consumer] \in {"woken", "back"} => q # <<>> \/ cleared \/ idle

\* The bound on calls of clear() is not passed, since only who has the mutex counts.
ClearInv == \A t \in Thread : pc[t] = "clear" => clears < MaxClears

Inv == /\ TypeOK /\ MutexInv /\ PopInv /\ ClearInv
       /\ NoWakeUpIsLost /\ LookPreventsWait /\ NullHasCause

-----------------------------------------------------------------------------
(* Queues *)

\* A full turn leaves a queue as it was: push_front() puts a message last.
LEMMA FullTurn ==
    ASSUME NEW S, NEW s \in Seq(S)
    PROVE  Turned(s) = s
  <1>1. Len(s) \in Nat /\ DOMAIN s = 1 .. Len(s) /\ s = [i \in DOMAIN s |-> s[i]]
    OBVIOUS
  <1>2. ASSUME NEW i \in DOMAIN s
        PROVE  ((i - 1 + Len(s)) % Len(s)) + 1 = i
    <2> DEFINE n == Len(s)
               k == i - 1
    <2>1. n \in Nat \ {0} /\ k \in 0 .. n - 1 /\ i = k + 1
      BY <1>1
    <2> HIDE DEF n, k
    <2>2. (k + n) % n = k
      BY <2>1
    <2> QED
      BY <2>1, <2>2 DEF n, k
  <1> QED
    BY <1>1, <1>2 DEF Turned

LEMMA AppendType ==
    ASSUME NEW p \in Nat, NEW s \in Seq(1 .. p)
    PROVE  /\ Append(s, p + 1) \in Seq(1 .. p + 1)
           /\ Append(s, p + 1) # <<>>
  <1>1. s \in Seq(1 .. p + 1)
    <2>1. 1 .. p \subseteq 1 .. p + 1
      OBVIOUS
    <2> QED
      BY <2>1
  <1>2. p + 1 \in 1 .. p + 1
    OBVIOUS
  <1> QED
    BY <1>1, <1>2, AppendProperties

\* Every call that has the mutex appends what it pushes.
LEMMA PushedLast ==
    ASSUME TypeOK, NEW t \in Thread, Push(t) \/ PushFront(t)
    PROVE  Pushed(t, Append(q, pushed + 1))
  <1>1. CASE Push(t)
    BY <1>1 DEF Push
  <1>2. CASE PushFront(t)
    <2>1. Append(q, pushed + 1) \in Seq(1 .. pushed + 1)
      BY AppendType DEF TypeOK
    <2>2. Turned(Append(q, pushed + 1)) = Append(q, pushed + 1)
      BY <2>1, FullTurn
    <2> QED
      BY <1>2, <2>2 DEF PushFront
  <1> QED
    BY <1>1, <1>2

-----------------------------------------------------------------------------
(* The invariant *)

LEMMA Threads ==
    /\ Consumer \in Caller /\ Handler \in Thread /\ Handler \notin Caller
    /\ Caller \subseteq Thread /\ Nobody \notin Thread /\ Consumer # Handler
  BY QueueAssumption DEF Caller, Thread

LEMMA InitInv == Init => Inv
  <1> SUFFICES ASSUME Init PROVE Inv
    OBVIOUS
  <1>1. use.signals \in Nat
    BY QueueAssumption DEF Init, Use
  <1>2. <<>> \in Seq(1 .. pushed)
    OBVIOUS
  <1>3. pc \in [Thread -> Within \cup Outside]
    BY DEF Init, Outside
  <1>4. clears \in 0 .. MaxClears /\ pushed \in Nat /\ signals \in Nat
    BY <1>1, QueueAssumption DEF Init
  <1>5. cleared \in BOOLEAN /\ idle \in BOOLEAN
    BY DEF Init
  <1>6. TypeOK
    BY <1>2, <1>3, <1>4, <1>5 DEF Init, TypeOK
  <1> QED
    BY <1>6, Threads DEF Init, Inv, MutexInv, PopInv, ClearInv, NoWakeUpIsLost, LookPreventsWait,
       NullHasCause, Within

\* Locking the mutex for a call changes nothing else.
LEMMA LockInv ==
    ASSUME Inv, NEW t \in Caller, NEW from \in Outside, NEW what \in Within,
           Lock(t, from, what), what = "clear" => clears < MaxClears,
           UNCHANGED <<use, queueVars, signalVars>>,
           UNCHANGED popVars \/ Anew,
           t = Consumer =>
               /\ what \in {"pop", "back"} /\ use.looks => UNCHANGED popVars
               /\ what = "pop" => from = (IF use.looks THEN "looked" ELSE "idle")
               /\ what = "back" => from = "woken" /\ UNCHANGED popVars,
           t # Consumer => UNCHANGED popVars /\ what \notin {"pop", "back"}
    PROVE  Inv'
  <1>1. /\ pc[t] = from /\ holder = Nobody /\ holder' = t
        /\ pc' = [pc EXCEPT ![t] = what]
    BY DEF Lock, Goto
  <1>2. Inv /\ TypeOK /\ pc \in [Thread -> Within \cup Outside]
    BY DEF Inv, TypeOK
  <1>3. TypeOK'
    BY <1>1, <1>2, Threads DEF TypeOK, queueVars, signalVars, popVars, Anew
  <1>4. MutexInv'
    BY <1>1, <1>2, Threads DEF Inv, MutexInv, signalVars, Within, Outside
  <1>5. PopInv'
    BY <1>1, <1>2, Threads DEF Inv, PopInv, queueVars, popVars, Anew, Within, Outside
  <1>6. NoWakeUpIsLost'
    BY <1>1, <1>2, Threads DEF Inv, NoWakeUpIsLost, queueVars, Within
  <1>7. LookPreventsWait'
    BY <1>1, <1>2, Threads DEF Inv, LookPreventsWait, popVars, Anew, Within
  <1>8. NullHasCause'
    BY <1>2 DEF Inv, NullHasCause, popVars, Anew
  <1>9. ClearInv'
    BY <1>1, <1>2 DEF Inv, ClearInv, queueVars
  <1> QED
    BY <1>3, <1>4, <1>5, <1>6, <1>7, <1>8, <1>9 DEF Inv

LEMMA PushInv ==
    ASSUME Inv, NEW t \in Thread, Push(t) \/ PushFront(t)
    PROVE  Inv'
  <1>1. pc[t] \in {"push", "push_front"} /\ Pushed(t, Append(q, pushed + 1))
    BY PushedLast DEF Push, PushFront, Inside, Inv
  <1>2. /\ q' = Append(q, pushed + 1) /\ pushed' = pushed + 1 /\ holder' = Nobody
        /\ UNCHANGED <<use, clears, signals, result, cleared, idle>>
        /\ urgent' \subseteq urgent \cup {pushed + 1}
        /\ victim' = IF t = Handler THEN Nobody ELSE victim
        /\ pc' = IF pc[Consumer] = "asleep"
                 THEN [[pc EXCEPT ![t] = "idle"] EXCEPT ![Consumer] = "woken"]
                 ELSE [pc EXCEPT ![t] = "idle"]
    <2>1. t = Consumer => pc[Consumer] # "asleep"
      BY <1>1
    <2> QED
      BY <1>1, <2>1 DEF Pushed, Notify, Release, popVars, Push, PushFront
  <1>3. TypeOK /\ MutexInv /\ pc \in [Thread -> Within \cup Outside]
    BY DEF Inv, TypeOK
  <1>4. q' \in Seq(1 .. pushed') /\ q' # <<>> /\ pushed' \in Nat
    <2>1. pushed \in Nat /\ q \in Seq(1 .. pushed)
      BY <1>3 DEF TypeOK
    <2>2. /\ Append(q, pushed + 1) \in Seq(1 .. pushed + 1)
          /\ Append(q, pushed + 1) # <<>>
      BY <2>1, AppendType
    <2>3. q' = Append(q, pushed + 1) /\ pushed' = pushed + 1
      BY <1>2
    <2> QED
      BY <2>1, <2>2, <2>3
  <1>5. /\ pc' \in [Thread -> Within \cup Outside]
        /\ \A s \in Thread \ {t, Consumer} : pc'[s] = pc[s]
        /\ pc'[t] = "idle"
        /\ t # Consumer => pc'[Consumer] = IF pc[Consumer] = "asleep" THEN "woken"
                                           ELSE pc[Consumer]
    BY <1>1, <1>2, <1>3, Threads DEF Outside
  <1>6. TypeOK'
    <2>1. urgent' \subseteq 1 .. pushed'
      BY <1>2, <1>3 DEF TypeOK
    <2> QED
      BY <1>2, <1>3, <1>4, <1>5, <2>1 DEF TypeOK
  <1>7. MutexInv'
    <2>1. holder = t
      BY <1>1, <1>3 DEF MutexInv, Within
    <2>2. \A s \in Thread : pc'[s] \notin Within
      BY <1>3, <1>5, <2>1, Threads DEF MutexInv, Within
    <2>3. pc'[Handler] \in {"idle", "called", "push"}
      BY <1>3, <1>5, Threads DEF MutexInv
    <2>4. victim' = Nobody <=> pc'[Handler] = "idle"
      BY <1>2, <1>3, <1>5, Threads DEF MutexInv
    <2> QED
      BY <1>2, <2>2, <2>3, <2>4, Threads DEF MutexInv
  <1>8. PopInv' /\ NoWakeUpIsLost'
    BY <1>4, <1>5, Threads DEF PopInv, NoWakeUpIsLost
  <1>0. ClearInv'
    BY <1>2, <1>3, <1>5 DEF Inv, ClearInv
  <1>9. LookPreventsWait' /\ NullHasCause'
    BY <1>1, <1>2, <1>5, Threads DEF Inv, LookPreventsWait, NullHasCause
  <1> QED
    BY <1>6, <1>7, <1>8, <1>9, <1>0 DEF Inv

\* Who releases the mutex is outside of every call then.
LEMMA MutexReleased ==
    ASSUME TypeOK, MutexInv, NEW t \in Caller, pc[t] \in Within, NEW at \in Outside,
           Goto(t, at), Release, UNCHANGED victim
    PROVE  MutexInv' /\ pc' \in [Thread -> Within \cup Outside]
  <1>1. /\ pc \in [Thread -> Within \cup Outside] /\ pc' = [pc EXCEPT ![t] = at]
        /\ holder' = Nobody /\ victim' = victim /\ holder = t
    BY Threads DEF TypeOK, MutexInv, Goto, Release
  <1>2. \A s \in Thread : pc'[s] \notin Within
    BY <1>1, Threads DEF MutexInv, Within, Outside
  <1>3. pc'[Handler] = pc[Handler]
    BY <1>1, Threads
  <1>4. pc' \in [Thread -> Within \cup Outside]
    BY <1>1
  <1> QED
    BY <1>1, <1>2, <1>3, <1>4, Threads DEF MutexInv

LEMMA ClearInvariant ==
    ASSUME Inv, NEW t \in Caller, Clear(t)
    PROVE  Inv'
  <1>1. /\ pc[t] = "clear" /\ pc' = [pc EXCEPT ![t] = "idle"]
        /\ Goto(t, "idle") /\ Release /\ holder' = Nobody
        /\ q' = <<>> /\ clears' = clears + 1 /\ cleared' = TRUE
        /\ UNCHANGED <<use, pushed, urgent, victim, signals, result, idle>>
    BY DEF Clear, Inside, Goto, Release, signalVars
  <1>2. TypeOK /\ MutexInv
    BY DEF Inv
  <1>3. MutexInv' /\ pc' \in [Thread -> Within \cup Outside]
    BY <1>1, <1>2, MutexReleased DEF Within, Outside
  <1>4. clears' \in 0 .. MaxClears
    <2>1. clears < MaxClears /\ clears \in 0 .. MaxClears
      BY <1>1, <1>2, Threads DEF Inv, ClearInv, TypeOK
    <2> QED
      BY <1>1, <2>1, QueueAssumption
  <1>5. q' \in Seq(1 .. pushed')
    BY <1>1
  <1>6. TypeOK'
    BY <1>1, <1>2, <1>3, <1>4, <1>5 DEF TypeOK
  <1>7. ClearInv'
    <2>1. \A s \in Thread : pc'[s] \notin Within
      BY <1>1, <1>3, Threads DEF MutexInv
    <2> QED
      BY <2>1 DEF ClearInv, Within
  <1> QED
    BY <1>1, <1>3, <1>6, <1>7 DEF Inv, PopInv, NoWakeUpIsLost, LookPreventsWait, NullHasCause

LEMMA SizeInv ==
    ASSUME Inv, NEW t \in Caller, Size(t)
    PROVE  Inv'
  <1>1. /\ pc[t] = "size" /\ pc' = [pc EXCEPT ![t] = "idle"]
        /\ Goto(t, "idle") /\ Release /\ holder' = Nobody
        /\ UNCHANGED <<use, q, pushed, urgent, clears, victim, signals, result, cleared, idle>>
    BY DEF Size, Inside, Goto, Release, queueVars, signalVars, popVars
  <1>2. TypeOK /\ MutexInv /\ pc \in [Thread -> Within \cup Outside]
    BY DEF Inv, TypeOK
  <1>3. MutexInv' /\ pc' \in [Thread -> Within \cup Outside]
    BY <1>1, <1>2, MutexReleased DEF Within, Outside
  <1>4. TypeOK'
    BY <1>1, <1>2, <1>3 DEF TypeOK
  <1>5. pc'[Consumer] \in {pc[Consumer], "idle"}
    BY <1>1, <1>2, Threads
  <1>6. ClearInv'
    BY <1>1, <1>2 DEF Inv, ClearInv
  <1> QED
    BY <1>1, <1>3, <1>4, <1>5, <1>6
       DEF Inv, PopInv, NoWakeUpIsLost, LookPreventsWait, NullHasCause

\* What the consumer does with the mutex, up to where it releases it.
LEMMA ConsumerReleases ==
    ASSUME Inv, pc[Consumer] \in Within, NEW at \in Outside, Goto(Consumer, at), Release,
           UNCHANGED <<use, pushed, urgent, clears, signalVars>>
    PROVE  /\ MutexInv' /\ ClearInv' /\ pc'[Consumer] = at
           /\ q' \in Seq(1 .. pushed) /\ result' \in {"none", "message", "null"}
              /\ cleared' \in BOOLEAN /\ idle' \in BOOLEAN => TypeOK'
  <1>1. /\ TypeOK /\ MutexInv /\ pc \in [Thread -> Within \cup Outside]
        /\ holder' = Nobody /\ pc' = [pc EXCEPT ![Consumer] = at]
        /\ UNCHANGED <<use, pushed, urgent, clears, victim, signals>>
    BY DEF Inv, TypeOK, Goto, Release, signalVars
  <1>2. MutexInv' /\ pc' \in [Thread -> Within \cup Outside] /\ pc'[Consumer] = at
    BY <1>1, MutexReleased, Threads
  <1>3. ClearInv'
    BY <1>1 DEF Inv, ClearInv, Outside
  <1>4. ASSUME q' \in Seq(1 .. pushed), result' \in {"none", "message", "null"},
               cleared' \in BOOLEAN, idle' \in BOOLEAN
        PROVE  TypeOK'
    BY <1>1, <1>2, <1>4 DEF TypeOK
  <1> QED
    BY <1>2, <1>3, <1>4

LEMMA EmptyInv == ASSUME Inv, Empty PROVE Inv'
  <1> DEFINE at == IF q = <<>> THEN "idle" ELSE "looked"
  <1>1. /\ pc[Consumer] = "empty" /\ Goto(Consumer, at) /\ Release
        /\ q' = q /\ result' = "none" /\ cleared' = FALSE /\ idle' = FALSE
        /\ UNCHANGED <<use, pushed, urgent, clears, signalVars>>
    BY DEF Empty, Inside, Anew, queueVars
  <1>2. at \in Outside /\ pc[Consumer] \in Within /\ (at = "looked" => q # <<>>)
        /\ at \in {"idle", "looked"}
    BY <1>1 DEF Within, Outside
  <1> HIDE DEF at
  <1>3. MutexInv' /\ ClearInv' /\ pc'[Consumer] = at /\ TypeOK'
    <2>1. q' \in Seq(1 .. pushed)
      BY <1>1 DEF Inv, TypeOK
    <2>2. cleared' \in BOOLEAN /\ idle' \in BOOLEAN
      BY <1>1
    <2> QED
      BY <1>1, <1>2, <2>1, <2>2, ConsumerReleases
  <1> QED
    BY <1>1, <1>2, <1>3 DEF Inv, PopInv, NoWakeUpIsLost, LookPreventsWait, NullHasCause

\* A message is taken, or there is none and a reason for it.
LEMMA TakeInv ==
    ASSUME Inv, pc[Consumer] \in {"pop", "back"}, Release, Take \/ ComeBackEmpty,
           pc[Consumer] = "pop" => Take,
           UNCHANGED <<use, pushed, urgent, clears, signalVars>>
    PROVE  Inv'
  <1>1. /\ q' \in {q, Tail(q)} /\ (q' # q => q # <<>>) /\ result' \in {"message", "null"}
        /\ Goto(Consumer, "idle") /\ cleared' = cleared /\ idle' = idle
        /\ (result' = "null" => q = <<>> /\ pc[Consumer] = "back")
    BY DEF Take, ComeBackEmpty
  <1>2. q' \in Seq(1 .. pushed)
    <2>1. q \in Seq(1 .. pushed)
      BY DEF Inv, TypeOK
    <2> QED
      BY <1>1, <2>1
  <1>3. cleared \in BOOLEAN /\ idle \in BOOLEAN
    BY DEF Inv, TypeOK
  <1>4. MutexInv' /\ ClearInv' /\ pc'[Consumer] = "idle" /\ TypeOK'
    BY <1>1, <1>2, <1>3, ConsumerReleases DEF Within, Outside
  <1>5. NullHasCause'
    BY <1>1 DEF Inv, PopInv, NullHasCause
  <1> QED
    BY <1>4, <1>5 DEF Inv, PopInv, NoWakeUpIsLost, LookPreventsWait

LEMMA PopInvariant == ASSUME Inv, Pop PROVE Inv'
  <1>1. /\ pc[Consumer] = "pop" /\ Release /\ (Take \/ Wait)
        /\ UNCHANGED <<use, pushed, urgent, clears, signalVars>>
    BY DEF Pop, Inside
  <1>2. CASE Take
    BY <1>1, <1>2, TakeInv
  <1>3. CASE Wait
    <2>1. /\ q = <<>> /\ q' = q /\ Goto(Consumer, "asleep")
          /\ result' = result /\ cleared' = cleared /\ idle' = idle
      BY <1>3 DEF Wait, popVars
    <2>2. /\ q' \in Seq(1 .. pushed) /\ result' \in {"none", "message", "null"}
          /\ cleared' \in BOOLEAN /\ idle' \in BOOLEAN
      BY <2>1 DEF Inv, TypeOK
    <2>3. MutexInv' /\ ClearInv' /\ pc'[Consumer] = "asleep" /\ TypeOK'
      BY <1>1, <2>1, <2>2, ConsumerReleases DEF Within, Outside
    <2>4. use.looks => cleared
      BY <1>1, <2>1 DEF Inv, PopInv
    <2> QED
      BY <1>1, <2>1, <2>3, <2>4
         DEF Inv, PopInv, NoWakeUpIsLost, LookPreventsWait, NullHasCause
  <1> QED
    BY <1>1, <1>2, <1>3

LEMMA WakeForNothingInv == ASSUME Inv, WakeForNothing PROVE Inv'
  <1>1. /\ pc[Consumer] = "asleep" /\ pc' = [pc EXCEPT ![Consumer] = "woken"]
        /\ idle' = TRUE
        /\ UNCHANGED <<use, q, pushed, urgent, clears, holder, victim, signals, result,
                     cleared>>
    BY DEF WakeForNothing, Goto, queueVars, signalVars
  <1>2. TypeOK /\ MutexInv /\ pc \in [Thread -> Within \cup Outside]
    BY DEF Inv, TypeOK
  <1>3. pc' \in [Thread -> Within \cup Outside] /\ pc'[Consumer] = "woken"
    BY <1>1, <1>2, Threads DEF Outside
  <1>4. idle' \in BOOLEAN
    BY <1>1
  <1>5. TypeOK'
    BY <1>1, <1>2, <1>3, <1>4 DEF TypeOK
  <1>6. MutexInv'
    BY <1>1, <1>2, Threads DEF MutexInv, Within
  <1>7. ClearInv'
    BY <1>1, <1>2 DEF Inv, ClearInv
  <1> QED
    BY <1>1, <1>3, <1>5, <1>6, <1>7
       DEF Inv, PopInv, NoWakeUpIsLost, LookPreventsWait, NullHasCause

\* The steps of the signal handler: it is called, and it locks the mutex.
LEMMA HandlerInv ==
    ASSUME Inv, Signal \/ HandlerLocks
    PROVE  Inv'
  <1>1. TypeOK /\ MutexInv /\ pc \in [Thread -> Within \cup Outside]
    BY DEF Inv, TypeOK
  <1>2. UNCHANGED <<use, q, pushed, urgent, clears, result, cleared, idle>>
    BY DEF Signal, HandlerLocks, queueVars, signalVars, popVars
  <1>3. CASE Signal
    <2>1. PICK t \in Caller : victim' = t
      BY <1>3 DEF Signal
    <2>2. /\ signals > 0 /\ victim = Nobody /\ signals' = signals - 1
          /\ pc' = [pc EXCEPT ![Handler] = "called"] /\ holder' = holder
      BY <1>3 DEF Signal, Goto
    <2>3. pc' \in [Thread -> Within \cup Outside] /\ signals' \in Nat
      <3>1. signals \in Nat
        BY <1>1 DEF TypeOK
      <3>2. signals' \in Nat
        BY <2>2, <3>1
      <3>3. pc' \in [Thread -> Within \cup Outside]
        BY <1>1, <2>2 DEF Outside
      <3> QED
        BY <3>2, <3>3
    <2>4. TypeOK'
      BY <1>1, <1>2, <2>1, <2>2, <2>3 DEF TypeOK
    <2>5. MutexInv'
      BY <1>1, <2>1, <2>2, Threads DEF MutexInv, Within
    <2>6. pc'[Consumer] = pc[Consumer] /\ ClearInv'
      BY <1>1, <1>2, <2>2, Threads DEF Inv, ClearInv
    <2> QED
      BY <1>2, <2>4, <2>5, <2>6
         DEF Inv, PopInv, NoWakeUpIsLost, LookPreventsWait, NullHasCause
  <1>4. CASE HandlerLocks
    <2>1. /\ pc[Handler] = "called" /\ holder = Nobody /\ holder' = Handler
          /\ pc' = [pc EXCEPT ![Handler] = "push"] /\ UNCHANGED <<victim, signals>>
      BY <1>4 DEF HandlerLocks, Lock, Goto, signalVars
    <2>2. pc' \in [Thread -> Within \cup Outside]
      BY <1>1, <2>1 DEF Within
    <2>3. TypeOK'
      BY <1>1, <1>2, <2>1, <2>2, Threads DEF TypeOK
    <2>4. MutexInv'
      BY <1>1, <2>1, Threads DEF MutexInv, Within
    <2>5. pc'[Consumer] = pc[Consumer] /\ ClearInv'
      BY <1>1, <1>2, <2>1, Threads DEF Inv, ClearInv
    <2> QED
      BY <1>2, <2>3, <2>4, <2>5
         DEF Inv, PopInv, NoWakeUpIsLost, LookPreventsWait, NullHasCause
  <1> QED
    BY <1>3, <1>4

LEMMA BeginCallInv ==
    ASSUME Inv, NEW t \in Caller, NEW call \in Call, BeginCall(t, call)
    PROVE  Inv'
  <1>1. /\ Lock(t, "idle", call) /\ (call = "clear" => clears < MaxClears)
        /\ UNCHANGED <<use, queueVars, signalVars>> /\ UNCHANGED popVars
    BY DEF BeginCall
  <1>2. call \in Within \ {"pop", "back"} /\ "idle" \in Outside
    BY DEF Call, Within, Outside
  <1> QED
    BY <1>1, <1>2, LockInv

\* Where the consumer locks the mutex: to look, to pop, and when it wakes up.
LEMMA ConsumerLocks ==
    ASSUME Inv, Look \/ BeginPop \/ WakeUp
    PROVE  Inv'
  <1>0. UNCHANGED <<use, queueVars, signalVars>>
    BY DEF Look, BeginPop, WakeUp
  <1>1. CASE Look
    <2>1. Lock(Consumer, "idle", "empty") /\ UNCHANGED popVars
      BY <1>1 DEF Look
    <2>2. "idle" \in Outside /\ "empty" \in Within
      BY DEF Outside, Within
    <2> QED
      BY <1>0, <2>1, <2>2, LockInv, Threads
  <1>2. CASE BeginPop
    <2> DEFINE from == IF use.looks THEN "looked" ELSE "idle"
    <2>1. /\ Lock(Consumer, from, "pop") /\ (UNCHANGED popVars \/ Anew)
          /\ (use.looks => UNCHANGED popVars)
      BY <1>2 DEF BeginPop
    <2>2. from \in Outside /\ "pop" \in Within
      BY DEF Outside, Within
    <2> QED
      BY <1>0, <2>1, <2>2, LockInv, Threads
  <1>3. CASE WakeUp
    <2>1. Lock(Consumer, "woken", "back") /\ UNCHANGED popVars
      BY <1>3 DEF WakeUp
    <2>2. "woken" \in Outside /\ "back" \in Within
      BY DEF Outside, Within
    <2> QED
      BY <1>0, <2>1, <2>2, LockInv, Threads
  <1> QED
    BY <1>1, <1>2, <1>3

LEMMA ReturnFromWaitInv == ASSUME Inv, ReturnFromWait PROVE Inv'
  <1>1. /\ pc[Consumer] = "back" /\ Release /\ (Take \/ ComeBackEmpty)
        /\ UNCHANGED <<use, pushed, urgent, clears, signalVars>>
    BY DEF ReturnFromWait, Inside
  <1> QED
    BY <1>1, TakeInv

LEMMA NextInv == Inv /\ [Next]_vars => Inv'
  <1> SUFFICES ASSUME Inv, [Next]_vars PROVE Inv'
    OBVIOUS
  <1>1. CASE \E t \in Caller : Calls(t)
    <2>1. PICK t \in Caller : Calls(t)
      BY <1>1
    <2>2. CASE \E call \in Call : BeginCall(t, call)
      BY <2>2, BeginCallInv
    <2>3. CASE PushFront(t)
      BY <2>3, PushInv, Threads
    <2>4. CASE Clear(t)
      BY <2>4, ClearInvariant
    <2>5. CASE Size(t)
      BY <2>5, SizeInv
    <2> QED
      BY <2>1, <2>2, <2>3, <2>4, <2>5 DEF Calls
  <1>2. CASE \E t \in Thread : Push(t)
    BY <1>2, PushInv
  <1>3. CASE Consume
    BY <1>3, ConsumerLocks, EmptyInv, PopInvariant, ReturnFromWaitInv DEF Consume
  <1>4. CASE WakeForNothing
    BY <1>4, WakeForNothingInv
  <1>5. CASE Signal \/ HandlerLocks
    BY <1>5, HandlerInv
  <1>6. CASE UNCHANGED vars
    BY <1>6 DEF vars, queueVars, signalVars, popVars, Inv, TypeOK, MutexInv, PopInv, ClearInv,
       NoWakeUpIsLost, LookPreventsWait, NullHasCause
  <1> QED
    BY <1>1, <1>2, <1>3, <1>4, <1>5, <1>6 DEF Next

LEMMA InvHolds == Spec => []Inv
  BY InitInv, NextInv, PTL DEF Spec

-----------------------------------------------------------------------------
(* The order *)

\* What a step does to the queue, whichever it is.
LEMMA QueueSteps ==
    ASSUME Inv, [Next]_vars
    PROVE  \/ q' = q \/ q' = <<>>
           \/ q' = Append(q, pushed + 1)
           \/ q # <<>> /\ q' = Tail(q)
  <1>1. CASE \E t \in Caller : Calls(t)
    <2>1. PICK t \in Caller : Calls(t)
      BY <1>1
    <2>2. CASE PushFront(t)
      BY <2>2, PushedLast, Threads DEF Inv, Pushed
    <2> QED
      BY <2>1, <2>2 DEF Calls, BeginCall, Clear, Size, queueVars
  <1>2. CASE \E t \in Thread : Push(t)
    BY <1>2, PushedLast DEF Inv, Pushed
  <1>3. CASE Consume
    BY <1>3 DEF Consume, Look, Empty, BeginPop, Pop, WakeUp, ReturnFromWait, Take, Wait,
       ComeBackEmpty, queueVars
  <1>4. CASE WakeForNothing \/ Signal \/ HandlerLocks
    BY <1>4 DEF WakeForNothing, Signal, HandlerLocks, queueVars
  <1>5. CASE UNCHANGED vars
    BY <1>5 DEF vars, queueVars
  <1> QED
    BY <1>1, <1>2, <1>3, <1>4, <1>5 DEF Next

\* Every message of the queue has come before those behind it.
Ascending == \A i, j \in DOMAIN q : i < j => q[i] < q[j]

\* A new message has a number larger than all, and taking the first keeps the rest
\* in order.
LEMMA OrderStep ==
    ASSUME Inv, Ascending, [Next]_vars
    PROVE  Ascending'
  <1> DEFINE Ordered(s) == \A i, j \in DOMAIN s : i < j => s[i] < s[j]
  <1>1. q \in Seq(1 .. pushed) /\ pushed \in Nat /\ Ordered(q)
    BY DEF Inv, TypeOK, Ascending
  <1>2. PICK s \in Seq(1 .. pushed) : s = q
    BY <1>1
  <1>3. Len(s) \in Nat /\ DOMAIN s = 1 .. Len(s) /\ \A i \in DOMAIN s : s[i] \in 1 .. pushed
    <2>1. Len(s) \in Nat /\ DOMAIN s = 1 .. Len(s)
      BY LenProperties
    <2>2. \A i \in 1 .. Len(s) : s[i] \in 1 .. pushed
      BY ElementOfSeq
    <2> QED
      BY <2>1, <2>2
  <1>4. Ordered(Append(s, pushed + 1))
    <2> DEFINE u == Append(s, pushed + 1)
    <2>1. /\ DOMAIN u = 1 .. Len(s) + 1 /\ u[Len(s) + 1] = pushed + 1
          /\ \A i \in 1 .. Len(s) : u[i] = s[i]
      BY <1>1, <1>3
    <2> HIDE DEF u
    <2> SUFFICES ASSUME NEW i \in DOMAIN u, NEW j \in DOMAIN u, i < j
                 PROVE  u[i] < u[j]
      BY DEF u
    <2>2. i \in 1 .. Len(s) /\ j \in 1 .. Len(s) + 1
      BY <1>3, <2>1
    <2>3. u[i] = s[i] /\ s[i] \in 1 .. pushed
      BY <1>3, <2>1, <2>2
    <2>4. CASE j = Len(s) + 1
      BY <1>1, <2>1, <2>3, <2>4
    <2>5. CASE j \in 1 .. Len(s)
      BY <1>1, <1>2, <1>3, <2>1, <2>2, <2>3, <2>5
    <2> QED
      BY <1>3, <2>2, <2>4, <2>5
  <1>5. ASSUME s # <<>> PROVE Ordered(Tail(s))
    <2> DEFINE u == Tail(s)
    <2>1. /\ DOMAIN u = 1 .. Len(s) - 1
          /\ \A i \in 1 .. Len(s) - 1 : u[i] = s[i + 1]
      BY <1>3, <1>5
    <2> HIDE DEF u
    <2> SUFFICES ASSUME NEW i \in DOMAIN u, NEW j \in DOMAIN u, i < j
                 PROVE  u[i] < u[j]
      BY DEF u
    <2>2. i + 1 \in DOMAIN s /\ j + 1 \in DOMAIN s /\ i + 1 < j + 1
      BY <1>3, <2>1
    <2> QED
      BY <1>1, <1>2, <2>1, <2>2
  <1>6. Ordered(<<>>)
    OBVIOUS
  <1>7. q' = q \/ q' = <<>> \/ q' = Append(s, pushed + 1) \/ (s # <<>> /\ q' = Tail(s))
    BY <1>2, QueueSteps
  <1>8. Ordered(q')
    BY <1>1, <1>4, <1>5, <1>6, <1>7
  <1> QED
    BY <1>8 DEF Ascending

-----------------------------------------------------------------------------
(* The theorems *)

\* The queue holds only messages that were pushed, and every call, wait and signal
\* is where it can be, whatever the threads that use a queue do.
THEOREM QueueTypeCorrect == Spec => []TypeOK
  BY InvHolds, PTL DEF Inv

\* The consumer never sleeps while the queue has a message: eddl_queue.pop() tests the
\* queue and waits under the mutex under which push() adds and notifies.
THEOREM WakeUpsArrive == Spec => []NoWakeUpIsLost
  BY InvHolds, PTL DEF Inv

\* A sender that tests empty() first waits in pop() only if clear() came in between,
\* and pop() returns nullptr only after a clear() or a wait that ended for no reason.
THEOREM PopsHaveCauses == Spec => []PopHasCause
  <1>1. Inv => PopHasCause
    BY DEF Inv, PopHasCause
  <1> QED
    BY <1>1, InvHolds, PTL

\* No message is twice in the queue, and those that came by push() leave it in the
\* order in which they came.  This is because push_front() puts a message last as
\* push() does, so that all leave in that order.
THEOREM MessagesKeepTheirOrder == Spec => []PushesKeepTheirOrder
  <1>1. Init => Ascending
    BY DEF Init, Ascending
  <1>2. Inv /\ Ascending /\ [Next]_vars => Ascending'
    BY OrderStep
  <1>3. Inv /\ Ascending => PushesKeepTheirOrder
    <2> SUFFICES ASSUME Inv, Ascending, NEW i \in DOMAIN q, NEW j \in DOMAIN q, i < j
                 PROVE  q[i] # q[j] /\ q[i] < q[j]
      BY DEF PushesKeepTheirOrder
    <2>1. q[i] < q[j]
      BY DEF Ascending
    <2>2. q[i] \in Nat /\ q[j] \in Nat
      BY DEF Inv, TypeOK
    <2> QED
      BY <2>1, <2>2
  <1> QED
    BY <1>1, <1>2, <1>3, InvHolds, PTL DEF Spec
=============================================================================
