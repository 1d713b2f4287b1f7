------------------------------ MODULE TaskQueue ------------------------------
(***************************************************************************)
(* cppws::core::TaskQueue<T> (include/core/task_queue.hpp): a bounded MPMC *)
(* queue, a mutex and two condition variables over a deque.                *)
(*                                                                         *)
(* This module is the object only: its fields and, for each method, the    *)
(* critical sections the method is made of.  Every section runs under      *)
(* mutex_, so it is one step.  A condition variable is the set of threads  *)
(* that sleep on it; a thread outside that set holds, or waits for, the    *)
(* mutex and evaluates the wait predicate when it gets it.  The modules    *)
(* that use the queue say which thread is in which call.                   *)
(***************************************************************************)
EXTENDS Naturals, Sequences

CONSTANT Capacity               \* capacity_; 0 is legal, and lets nothing in

ASSUME CapacityAssumption == Capacity \in Nat

VARIABLES
    queue_,                     \* the deque
    closed_,
    not_empty_,                 \* threads asleep in pop()
    not_full_                   \* threads asleep in push()

queueVars == <<queue_, closed_, not_empty_, not_full_>>

QueueInit ==
    /\ queue_ = <<>>
    /\ closed_ = FALSE
    /\ not_empty_ = {}
    /\ not_full_ = {}

\* notify_one: what may be left asleep on cv.  It wakes one sleeper, any one,
\* and is lost when nobody sleeps.
AfterNotifyOne(cv) == IF cv = {} THEN {{}} ELSE {cv \ {t} : t \in cv}

Full == Len(queue_) >= Capacity

\* Mutant: consumers are notified only when the queue was empty.
Enqueue_NotifiesIfEmpty(item) ==
    /\ queue_' = Append(queue_, item)
    /\ not_empty_' \in IF queue_ = <<>> THEN AfterNotifyOne(not_empty_) ELSE {not_empty_}
    /\ UNCHANGED <<closed_, not_full_>>

\* Mutant: push_front instead of push_back.
Enqueue_AtFront(item) ==
    /\ queue_' = <<item>> \o queue_
    /\ not_empty_' \in AfterNotifyOne(not_empty_)
    /\ UNCHANGED <<closed_, not_full_>>

\* queue_.push_back(item); not_empty_.notify_one()
Enqueue(item) ==
    /\ queue_' = Append(queue_, item)
    /\ not_empty_' \in AfterNotifyOne(not_empty_)
    /\ UNCHANGED <<closed_, not_full_>>

\* queue_.pop_front(); not_full_.notify_one().  The item is Head(queue_).
Dequeue ==
    /\ queue_' = Tail(queue_)
    /\ not_full_' \in AfterNotifyOne(not_full_)
    /\ UNCHANGED <<closed_, not_empty_>>

-----------------------------------------------------------------------------
(* push(item), called by thread t *)

PushSleeps(t) ==
    /\ t \notin not_full_
    /\ Full /\ ~closed_
    /\ not_full_' = not_full_ \cup {t}
    /\ UNCHANGED <<queue_, closed_, not_empty_>>

PushRefused(t) ==
    /\ t \notin not_full_
    /\ closed_
    /\ UNCHANGED queueVars

\* Mutant: the capacity is not looked at.
PushEnqueues_Unbounded(t, item) ==
    /\ t \notin not_full_
    /\ ~closed_
    /\ Enqueue(item)

PushEnqueues(t, item) ==
    /\ t \notin not_full_
    /\ ~Full /\ ~closed_
    /\ Enqueue(item)

(* try_push(item) *)

TryPushRefused ==
    /\ closed_ \/ Full
    /\ UNCHANGED queueVars

\* Mutant: try_push forgets closed_.
TryPushEnqueues_AfterClose(item) ==
    /\ ~Full
    /\ Enqueue(item)

\* Mutant: try_push notifies nobody.
TryPushEnqueues_Silent(item) ==
    /\ ~closed_ /\ ~Full
    /\ queue_' = Append(queue_, item)
    /\ UNCHANGED <<closed_, not_empty_, not_full_>>

TryPushEnqueues(item) ==
    /\ ~closed_ /\ ~Full
    /\ Enqueue(item)

-----------------------------------------------------------------------------
(* pop(), called by thread t *)

PopSleeps(t) ==
    /\ t \notin not_empty_
    /\ queue_ = <<>> /\ ~closed_
    /\ not_empty_' = not_empty_ \cup {t}
    /\ UNCHANGED <<queue_, closed_, not_full_>>

\* Mutant: pop() gives up as soon as the queue is closed.
PopEnds_Undrained(t) ==
    /\ t \notin not_empty_
    /\ closed_
    /\ UNCHANGED queueVars

\* nullopt: closed and drained
PopEnds(t) ==
    /\ t \notin not_empty_
    /\ queue_ = <<>> /\ closed_
    /\ UNCHANGED queueVars

PopDequeues(t) ==
    /\ t \notin not_empty_
    /\ queue_ # <<>>
    /\ Dequeue

(* try_pop() *)

TryPopEmpty ==
    /\ queue_ = <<>>
    /\ UNCHANGED queueVars

TryPopDequeues ==
    /\ queue_ # <<>>
    /\ Dequeue

-----------------------------------------------------------------------------
\* Mutant: close() notifies nobody.
Close_Silent ==
    /\ closed_' = TRUE
    /\ UNCHANGED <<queue_, not_empty_, not_full_>>

Close ==
    /\ closed_' = TRUE
    /\ not_empty_' = {}
    /\ not_full_' = {}
    /\ UNCHANGED queue_

\* A condition variable may wake a sleeper for no reason; wait() then
\* evaluates its predicate again.
SpuriousWake(t) ==
    /\ t \in not_empty_ \cup not_full_
    /\ not_empty_' = not_empty_ \ {t}
    /\ not_full_' = not_full_ \ {t}
    /\ UNCHANGED <<queue_, closed_>>

=============================================================================
