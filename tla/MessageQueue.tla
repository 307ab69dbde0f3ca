---------------------------- MODULE MessageQueue ----------------------------
(***************************************************************************)
(* eddl_queue: a queue of messages with a mutex and a condition variable.   *)
(* Any thread may push, or clear the queue; one thread takes messages out,   *)
(* either by a pop() that waits, or after a look whether there is something   *)
(* to pop.  In the master a signal handler pushes commands, in the middle of   *)
(* whatever the thread was doing that the signal interrupts.                    *)
(*                                                                         *)
(* A thread locks the mutex in one step and does what it does in the next,    *)
(* which ends in releasing it; a wait releases it, too.                        *)
(***************************************************************************)
EXTENDS Integers, Sequences

CONSTANTS Producer,  \* threads that push or clear
          Consumer,  \* the thread that pops
          Handler,   \* the signal handler
          Nobody,    \* no thread
          Uses,      \* how queues are used
          MaxPushes, MaxClears  \* bounds

Caller == Producer \cup {Consumer}
Thread == Caller \cup {Handler}

Call == {"push", "push_front", "clear", "size"}

\* Whether the consumer looks first, what the others call, how many signals
\* come (a bound), and whether wait() may return for no reason.
Use == [looks : BOOLEAN, calls : [Caller -> SUBSET Call], signals : Nat,
        spurious : BOOLEAN]

ASSUME QueueAssumption ==
    /\ Consumer \notin Producer /\ Handler \notin Caller /\ Nobody \notin Thread
    /\ Uses \subseteq Use
    /\ MaxPushes \in Nat /\ MaxClears \in Nat

VARIABLES use,      \* the program's choice
          q,        \* the queue; messages are numbered as they are pushed
          pushed,   \* how many have been
          urgent,   \* those that came by push_front()
          clears,   \* how many calls of clear() there were
          holder,   \* the thread that has the mutex
          pc,       \* [Thread -> the call it is in, or where in it]
          victim,   \* the thread that the signal handler has interrupted
          signals,  \* how many there still are
          result,   \* what pop() returned last
          cleared,  \* whether clear() was called since the consumer looked,
                    \* or since it called pop() if it did not look
          idle      \* whether a wait has ended for no reason since then

queueVars  == <<q, pushed, urgent, clears>>
signalVars == <<victim, signals>>
popVars    == <<result, cleared, idle>>
vars == <<use, queueVars, holder, pc, signalVars, popVars>>

Init ==
    /\ use \in Uses
    /\ q = <<>> /\ pushed = 0 /\ urgent = {} /\ clears = 0
    /\ holder = Nobody /\ pc = [t \in Thread |-> "idle"]
    /\ victim = Nobody /\ signals = use.signals
    /\ result = "none" /\ cleared = FALSE /\ idle = FALSE

Goto(t, at) == pc' = [pc EXCEPT ![t] = at]

-----------------------------------------------------------------------------
(* The mutex. *)

\* An interrupted thread does nothing.
Runs(t) == t # victim

\* Thread t, which is at `from', locks the mutex for `what'.
Lock(t, from, what) ==
    /\ pc[t] = from /\ Runs(t) /\ holder = Nobody
    /\ holder' = t /\ Goto(t, what)

\* A call that has the mutex ends with releasing it.
Inside(t, what) == pc[t] = what /\ Runs(t)
Release == holder' = Nobody

-----------------------------------------------------------------------------
(* push(), push_front(), clear() and size(). *)

\* Mutant: nobody is told.
NotifyNobody(next) == pc' = next

\* notify_one(): only the consumer ever waits.
Notify(next) ==
    pc' = IF pc[Consumer] = "asleep" THEN [next EXCEPT ![Consumer] = "woken"] ELSE next

\* Mutant: the loop turns the queue once too often.
TurnedOnceMore(s) == Append(Tail(s), Head(s))

\* The loop of push_front() moves the first to the end as often as there are
\* elements, the new one included.  This leaves them all where they were: the new
\* one last, not in front as the name says.
Turned(s) == [i \in DOMAIN s |-> s[((i - 1 + Len(s)) % Len(s)) + 1]]

BeginCall(t, call) ==
    /\ call \in use.calls[t]
    /\ call = "clear" => clears < MaxClears
    /\ call \in {"push", "push_front"} => pushed < MaxPushes
    /\ Lock(t, "idle", call)
    /\ UNCHANGED <<use, queueVars, signalVars, popVars>>

Pushed(t, queue) ==
    /\ q' = queue /\ pushed' = pushed + 1
    /\ Notify([pc EXCEPT ![t] = "idle"])
    /\ Release
    /\ victim' = IF t = Handler THEN Nobody ELSE victim
    /\ UNCHANGED <<use, clears, signals, popVars>>

Push(t) ==
    /\ Inside(t, "push") /\ Pushed(t, Append(q, pushed + 1))
    /\ UNCHANGED urgent

PushFront(t) ==
    /\ Inside(t, "push_front") /\ Pushed(t, Turned(Append(q, pushed + 1)))
    /\ urgent' = urgent \cup {pushed + 1}

Clear(t) ==
    /\ Inside(t, "clear")
    /\ q' = <<>> /\ clears' = clears + 1 /\ cleared' = TRUE
    /\ Release /\ Goto(t, "idle")
    /\ UNCHANGED <<use, pushed, urgent, signalVars, result, idle>>

Size(t) ==
    /\ Inside(t, "size")
    /\ Release /\ Goto(t, "idle")
    /\ UNCHANGED <<use, queueVars, signalVars, popVars>>

-----------------------------------------------------------------------------
(* empty() and pop(). *)

Look ==
    /\ use.looks /\ Lock(Consumer, "idle", "empty")
    /\ UNCHANGED <<use, queueVars, signalVars, popVars>>

Anew == result' = "none" /\ cleared' = FALSE /\ idle' = FALSE

\* The consumer goes on to pop() only if there is something.
Empty ==
    /\ Inside(Consumer, "empty")
    /\ Goto(Consumer, IF q = <<>> THEN "idle" ELSE "looked")
    /\ Anew /\ Release
    /\ UNCHANGED <<use, queueVars, signalVars>>

BeginPop ==
    /\ \/ use.looks /\ Lock(Consumer, "looked", "pop") /\ UNCHANGED popVars
       \/ ~ use.looks /\ Lock(Consumer, "idle", "pop") /\ Anew
    /\ UNCHANGED <<use, queueVars, signalVars>>

Take ==
    /\ q # <<>>
    /\ q' = Tail(q) /\ result' = "message"
    /\ Goto(Consumer, "idle") /\ UNCHANGED <<cleared, idle>>

Wait == q = <<>> /\ Goto(Consumer, "asleep") /\ UNCHANGED <<q, popVars>>

\* The wait is not repeated when there is still nothing.
ComeBackEmpty ==
    /\ q = <<>> /\ result' = "null"
    /\ Goto(Consumer, "idle") /\ UNCHANGED <<q, cleared, idle>>

\* Mutant: there is no wait.
PopAtOnce ==
    /\ Inside(Consumer, "pop") /\ (Take \/ ComeBackEmpty)
    /\ Release
    /\ UNCHANGED <<use, pushed, urgent, clears, signalVars>>

Pop ==
    /\ Inside(Consumer, "pop") /\ (Take \/ Wait)
    /\ Release
    /\ UNCHANGED <<use, pushed, urgent, clears, signalVars>>

\* Standard C++: a wait may end without a notification.
WakeForNothing ==
    /\ use.spurious /\ pc[Consumer] = "asleep" /\ Runs(Consumer)
    /\ Goto(Consumer, "woken") /\ idle' = TRUE
    /\ UNCHANGED <<use, queueVars, holder, signalVars, result, cleared>>

WakeUp ==
    /\ Lock(Consumer, "woken", "back")
    /\ UNCHANGED <<use, queueVars, signalVars, popVars>>

\* Mutant: the mutex is not released.
ReturnFromWaitLocked ==
    /\ Inside(Consumer, "back") /\ (Take \/ ComeBackEmpty)
    /\ UNCHANGED <<use, pushed, urgent, clears, signalVars, holder>>

ReturnFromWait ==
    /\ Inside(Consumer, "back") /\ (Take \/ ComeBackEmpty)
    /\ Release
    /\ UNCHANGED <<use, pushed, urgent, clears, signalVars>>

-----------------------------------------------------------------------------
(* Signals. *)

\* A signal interrupts any thread of the process, one at a time.
Signal ==
    /\ signals > 0 /\ victim = Nobody
    /\ \E t \in Caller : victim' = t
    /\ signals' = signals - 1
    /\ Goto(Handler, "called")
    /\ UNCHANGED <<use, queueVars, holder, popVars>>

HandlerLocks ==
    /\ Lock(Handler, "called", "push")
    /\ UNCHANGED <<use, queueVars, signalVars, popVars>>

-----------------------------------------------------------------------------
Calls(t) == \/ \E call \in Call : BeginCall(t, call)
            \/ PushFront(t) \/ Clear(t) \/ Size(t)

Consume == Look \/ Empty \/ BeginPop \/ Pop \/ WakeUp \/ ReturnFromWait

Next == \/ \E t \in Caller : Calls(t)
        \/ \E t \in Thread : Push(t)
        \/ Consume \/ WakeForNothing \/ Signal \/ HandlerLocks

Spec == Init /\ [][Next]_vars

\* Threads run, and a mutex that is released time and again is not always
\* another's. Nobody has to call push() or clear(), or send a signal.
FairSpec ==
    /\ Spec /\ SF_vars(Consume) /\ SF_vars(HandlerLocks)
    /\ \A t \in Thread : WF_vars(Push(t))
    /\ \A t \in Caller : /\ WF_vars(PushFront(t)) /\ WF_vars(Clear(t))
                         /\ WF_vars(Size(t))
-----------------------------------------------------------------------------
Within == {"push", "push_front", "clear", "size", "empty", "pop", "back"}
Outside == {"idle", "looked", "asleep", "woken", "called"}

TypeOK ==
    /\ use \in Uses
    /\ q \in Seq(1 .. pushed) /\ pushed \in Nat /\ urgent \subseteq 1 .. pushed
    /\ clears \in 0 .. MaxClears
    /\ holder \in Thread \cup {Nobody}
    /\ pc \in [Thread -> Within \cup Outside]
    /\ victim \in Caller \cup {Nobody} /\ signals \in Nat
    /\ result \in {"none", "message", "null"}
    /\ cleared \in BOOLEAN /\ idle \in BOOLEAN

\* The consumer is never asleep while there is something in the queue, whoever
\* pushes while it is on its way to sleep, and however often it was woken before.
NoWakeUpIsLost == pc[Consumer] = "asleep" => q = <<>>

\* A consumer that looks before it pops waits only if the queue was cleared in
\* between; nobody else takes what it has seen.
LookPreventsWait ==
    use.looks /\ pc[Consumer] \in {"asleep", "woken", "back"} => cleared

\* pop() returns nothing only if the queue was cleared or the wait ended for no
\* reason. Where neither happens the result need not be tested.
NullHasCause == result = "null" => cleared \/ idle

\* pop() waits and fails for these reasons only.
PopHasCause == LookPreventsWait /\ NullHasCause

\* No message is in the queue twice, and those that came by push() stay in the
\* order in which they came, wherever push_front() puts its own among them.
PushesKeepTheirOrder ==
    \A i, j \in DOMAIN q :
        i < j => /\ q[i] # q[j]
                 /\ {q[i], q[j]} \cap urgent = {} => q[i] < q[j]

\* Within a handler that was called in the middle of a call the thread waits for
\* a mutex that it has itself.
WaitsForItself == pc[Handler] = "called" /\ holder = victim

Holds(n) == \E i \in DOMAIN q : q[i] = n

\* Every message leaves the queue some time, unless a thread waits for itself.
MessagesLeave ==
    \A n \in 1 .. MaxPushes : Holds(n) ~> (~ Holds(n) \/ WaitsForItself)
=============================================================================
