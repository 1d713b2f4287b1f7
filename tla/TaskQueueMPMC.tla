--------------------------- MODULE TaskQueueMPMC ---------------------------
(***************************************************************************)
(* A TaskQueue and the threads that use it.  Any thread may call any       *)
(* method at any time: the queue promises its behaviour to arbitrary       *)
(* producers and consumers, and to a close() that races with them.         *)
(*                                                                         *)
(* The items are the numbers 1, 2, 3, ... in the order in which they       *)
(* enter, which is what it takes to state "first in, first out" and "no    *)
(* item lost or duplicated".                                               *)
(***************************************************************************)
EXTENDS TaskQueue, FiniteSets

CONSTANTS
    Threads,
    MaxPushes                   \* bound: no call that pushes starts after this many items

ASSUME MPMCAssumption == IsFiniteSet(Threads) /\ MaxPushes \in Nat

VARIABLES
    call,                       \* the blocking call each thread is in
    pushes,                     \* items that entered the queue so far
    pops                        \* items that left it so far

vars == <<queueVars, call, pushes, pops>>

Init ==
    /\ QueueInit
    /\ call = [t \in Threads |-> "idle"]
    /\ pushes = 0
    /\ pops = 0

Begin(t, method) ==
    /\ call[t] = "idle"
    /\ call' = [call EXCEPT ![t] = method]
    /\ UNCHANGED <<queueVars, pushes, pops>>

CallPush(t) == pushes < MaxPushes /\ Begin(t, "push")

CallPop(t) == Begin(t, "pop")

Return(t) == call' = [call EXCEPT ![t] = "idle"]

PushStep(t) ==
    /\ call[t] = "push"
    /\ \/ PushSleeps(t) /\ UNCHANGED <<call, pushes, pops>>
       \/ PushRefused(t) /\ Return(t) /\ UNCHANGED <<pushes, pops>>
       \/ /\ PushEnqueues(t, pushes + 1)
          /\ Return(t)
          /\ pushes' = pushes + 1
          /\ UNCHANGED pops

PopStep(t) ==
    /\ call[t] = "pop"
    /\ \/ PopSleeps(t) /\ UNCHANGED <<call, pushes, pops>>
       \/ PopEnds(t) /\ Return(t) /\ UNCHANGED <<pushes, pops>>
       \/ /\ PopDequeues(t)
          /\ Return(t)
          /\ pops' = pops + 1
          /\ UNCHANGED pushes

TryPush(t) ==
    /\ call[t] = "idle" /\ pushes < MaxPushes
    /\ \/ TryPushRefused /\ UNCHANGED pushes
       \/ TryPushEnqueues(pushes + 1) /\ pushes' = pushes + 1
    /\ UNCHANGED <<call, pops>>

TryPop(t) ==
    /\ call[t] = "idle"
    /\ \/ TryPopEmpty /\ UNCHANGED pops
       \/ TryPopDequeues /\ pops' = pops + 1
    /\ UNCHANGED <<call, pushes>>

CallClose(t) ==
    /\ call[t] = "idle"
    /\ Close
    /\ UNCHANGED <<call, pushes, pops>>

Wake(t) == SpuriousWake(t) /\ UNCHANGED <<call, pushes, pops>>

Next ==
    \E t \in Threads :
        \/ CallPush(t) \/ PushStep(t) \/ TryPush(t)
        \/ CallPop(t) \/ PopStep(t) \/ TryPop(t)
        \/ CallClose(t) \/ Wake(t)

Spec == Init /\ [][Next]_vars

\* A thread inside push() or pop() that is not asleep gets the mutex in the
\* end.  Nobody is obliged to make a call, and nothing is assumed about which
\* sleeper notify_one picks.
Fairness == \A t \in Threads : WF_vars(PushStep(t)) /\ WF_vars(PopStep(t))

FairSpec == Spec /\ Fairness

-----------------------------------------------------------------------------
(* Types.  Sleepers are threads in the matching call; the queue never      *)
(* exceeds its capacity, whoever pushes (task_queue.hpp:18-22).            *)
TypeOK ==
    /\ queue_ \in Seq(Nat)
    /\ Len(queue_) <= Capacity
    /\ closed_ \in BOOLEAN
    /\ call \in [Threads -> {"idle", "push", "pop"}]
    /\ not_empty_ \subseteq {t \in Threads : call[t] = "pop"}
    /\ not_full_ \subseteq {t \in Threads : call[t] = "push"}
    /\ pushes \in Nat
    /\ pops \in Nat

\* First in, first out, nothing lost, nothing twice: the queue always holds
\* exactly the items that entered and have not left, oldest first
\* (push_back/pop_front under one mutex, whatever the interleaving).
Fifo ==
    /\ pops <= pushes
    /\ queue_ = [i \in 1 .. (pushes - pops) |-> pops + i]

AwakePoppers == {t \in Threads : call[t] = "pop" /\ t \notin not_empty_}
AwakePushers == {t \in Threads : call[t] = "push" /\ t \notin not_full_}

\* No lost wakeup: while a consumer sleeps in pop(), every queued item has a
\* consumer of its own that is awake and will look at it; while a producer
\* sleeps in push(), every free slot has such a producer; and after close()
\* nobody sleeps.  One notify_one per push and per pop is enough for this even
\* when try_push, try_pop and spurious wakeups interfere.
PopperNotStranded == not_empty_ # {} => Len(queue_) <= Cardinality(AwakePoppers)
PusherNotStranded == not_full_ # {} => Capacity - Len(queue_) <= Cardinality(AwakePushers)
ClosedWakesAll == closed_ => not_empty_ = {} /\ not_full_ = {}

NoLostWakeup == PopperNotStranded /\ PusherNotStranded /\ ClosedWakesAll

\* "close() unblocks all waiting consumers so threads can exit cleanly", and
\* the producers too: once closed, every blocking call returns.
CloseUnblocksEveryone ==
    \A t \in Threads : (closed_ /\ call[t] # "idle") ~> (call[t] = "idle")

-----------------------------------------------------------------------------
(* The mutex, the condition variables and their sleepers implement a queue *)
(* whose blocking calls simply wait until they can be carried out, and     *)
(* which serves some waiting caller whenever one can be served.            *)
Abstract == INSTANCE BoundedQueue WITH
    queue_ <- queue_, closed_ <- closed_, call <- call, pushes <- pushes, pops <- pops

ImplementsBoundedQueue == Abstract!FairSpec

=============================================================================
