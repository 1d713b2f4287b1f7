---------------------------- MODULE BoundedQueue ----------------------------
(***************************************************************************)
(* What a TaskQueue promises its users, as the comments of                 *)
(* include/core/task_queue.hpp put it: a bounded FIFO queue; push() blocks *)
(* while the queue is full, pop() while it is empty, and close() unblocks  *)
(* both.  There are no locks and no sleepers here: a blocking call returns *)
(* in one step, at any moment its condition holds.                         *)
(***************************************************************************)
EXTENDS Naturals, Sequences

CONSTANTS Threads, Capacity, MaxPushes

VARIABLES queue_, closed_, call, pushes, pops

vars == <<queue_, closed_, call, pushes, pops>>

Init ==
    /\ queue_ = <<>>
    /\ closed_ = FALSE
    /\ call = [t \in Threads |-> "idle"]
    /\ pushes = 0
    /\ pops = 0

CallPush(t) ==
    /\ call[t] = "idle" /\ pushes < MaxPushes
    /\ call' = [call EXCEPT ![t] = "push"]
    /\ UNCHANGED <<queue_, closed_, pushes, pops>>

CallPop(t) ==
    /\ call[t] = "idle"
    /\ call' = [call EXCEPT ![t] = "pop"]
    /\ UNCHANGED <<queue_, closed_, pushes, pops>>

Add ==
    /\ ~closed_ /\ Len(queue_) < Capacity
    /\ queue_' = Append(queue_, pushes + 1)
    /\ pushes' = pushes + 1
    /\ UNCHANGED <<closed_, pops>>

Remove ==
    /\ queue_ # <<>>
    /\ queue_' = Tail(queue_)
    /\ pops' = pops + 1
    /\ UNCHANGED <<closed_, pushes>>

Unchanged == UNCHANGED <<queue_, closed_, pushes, pops>>

PushReturns(t) ==
    /\ call[t] = "push"
    /\ Add \/ (closed_ /\ Unchanged)
    /\ call' = [call EXCEPT ![t] = "idle"]

PopReturns(t) ==
    /\ call[t] = "pop"
    /\ Remove \/ (closed_ /\ queue_ = <<>> /\ Unchanged)
    /\ call' = [call EXCEPT ![t] = "idle"]

TryPush(t) == call[t] = "idle" /\ pushes < MaxPushes /\ Add /\ UNCHANGED call

TryPop(t) == call[t] = "idle" /\ Remove /\ UNCHANGED call

Close(t) ==
    /\ call[t] = "idle"
    /\ closed_' = TRUE
    /\ UNCHANGED <<queue_, call, pushes, pops>>

Next ==
    \E t \in Threads :
        \/ CallPush(t) \/ PushReturns(t) \/ TryPush(t)
        \/ CallPop(t) \/ PopReturns(t) \/ TryPop(t)
        \/ Close(t)

Spec == Init /\ [][Next]_vars

\* The queue serves somebody whenever somebody can be served; which of the
\* waiting threads it is, is up to the scheduler.
Fairness ==
    /\ WF_vars(\E t \in Threads : PushReturns(t))
    /\ WF_vars(\E t \in Threads : PopReturns(t))

FairSpec == Spec /\ Fairness

=============================================================================
