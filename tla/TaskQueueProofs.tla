-------------------------- MODULE TaskQueueProofs --------------------------
(***************************************************************************)
(* Theorems about TaskQueueMPMC, for every set of threads, every capacity  *)
(* and every bound on the pushes: the types, first-in-first-out, that no   *)
(* wakeup is lost, and that every step is a step of BoundedQueue.          *)
(***************************************************************************)
EXTENDS TaskQueueMPMC, FiniteSetTheorems, TLAPS

(* What notify_one leaves asleep: everybody but one, if anybody slept. *)
LEMMA NotifyOneWakesOne ==
    ASSUME NEW cv, NEW rest \in AfterNotifyOne(cv)
    PROVE  /\ rest \subseteq cv
           /\ cv # {} => \E t \in cv : rest = cv \ {t}
BY DEF AfterNotifyOne

(* The threads of a call that are awake are finitely many, and one thread   *)
(* more or less changes their number by one.                                *)
LEMMA AwakeFinite ==
    /\ IsFiniteSet(AwakePoppers) /\ Cardinality(AwakePoppers) \in Nat
    /\ IsFiniteSet(AwakePushers) /\ Cardinality(AwakePushers) \in Nat
<1>1. AwakePoppers \subseteq Threads /\ AwakePushers \subseteq Threads
  BY DEF AwakePoppers, AwakePushers
<1>2. IsFiniteSet(Threads)
  BY MPMCAssumption
<1>3. IsFiniteSet(AwakePoppers) /\ IsFiniteSet(AwakePushers)
  BY <1>1, <1>2, FS_Subset
<1> QED
  BY <1>3, FS_CardinalityType

LEMMA OneMoreOrLess ==
    ASSUME NEW S, IsFiniteSet(S), NEW x
    PROVE  /\ x \notin S => Cardinality(S \cup {x}) = Cardinality(S) + 1
           /\ x \in S => Cardinality(S \ {x}) = Cardinality(S) - 1
<1>1. CASE x \notin S
  BY <1>1, FS_AddElement
<1>2. CASE x \in S
  BY <1>2, FS_RemoveElement
<1> QED
  BY <1>1, <1>2

-----------------------------------------------------------------------------
(* TypeOK is inductive: the capacity test and the insertion are one          *)
(* critical section, and a thread leaves a call only while it is awake       *)
(* (task_queue.hpp:54-94).                                                   *)
LEMMA TypeInit == Init => TypeOK
<1> SUFFICES ASSUME Init PROVE TypeOK
  OBVIOUS
<1>1. queue_ \in Seq(Nat) /\ Len(queue_) <= Capacity
  BY CapacityAssumption DEF Init, QueueInit
<1>2. not_empty_ = {} /\ not_full_ = {} /\ closed_ = FALSE
  BY DEF Init, QueueInit
<1>3. call \in [Threads -> {"idle", "push", "pop"}] /\ pushes = 0 /\ pops = 0
  BY DEF Init
<1> QED
  BY <1>1, <1>2, <1>3 DEF TypeOK

LEMMA TypeStep == TypeOK /\ [Next]_vars => TypeOK'
<1> SUFFICES ASSUME TypeOK, [Next]_vars PROVE TypeOK'
  OBVIOUS
<1> USE CapacityAssumption, MPMCAssumption
<1>1. ASSUME NEW t \in Threads, CallPush(t) PROVE TypeOK'
  BY <1>1 DEF TypeOK, CallPush, Begin, queueVars
<1>2. ASSUME NEW t \in Threads, CallPop(t) PROVE TypeOK'
  BY <1>2 DEF TypeOK, CallPop, Begin, queueVars
<1>3. ASSUME NEW t \in Threads, PushStep(t) PROVE TypeOK'
  <2>1. CASE PushSleeps(t) /\ UNCHANGED <<call, pushes, pops>>
    BY <1>3, <2>1 DEF TypeOK, PushStep, PushSleeps
  <2>2. CASE PushRefused(t) /\ Return(t) /\ UNCHANGED <<pushes, pops>>
    BY <1>3, <2>2 DEF TypeOK, PushStep, PushRefused, Return, queueVars
  <2>3. CASE PushEnqueues(t, pushes + 1) /\ Return(t) /\ pushes' = pushes + 1
               /\ UNCHANGED pops
    <3>1. not_empty_' \subseteq not_empty_
      BY <2>3, NotifyOneWakesOne DEF PushEnqueues, Enqueue
    <3>2. queue_' \in Seq(Nat) /\ Len(queue_') <= Capacity
      BY <2>3 DEF TypeOK, PushEnqueues, Enqueue, Full
    <3> QED
      BY <1>3, <2>3, <3>1, <3>2
         DEF TypeOK, PushStep, PushEnqueues, Enqueue, Return
  <2> QED
    BY <1>3, <2>1, <2>2, <2>3 DEF PushStep
<1>4. ASSUME NEW t \in Threads, PopStep(t) PROVE TypeOK'
  <2>1. CASE PopSleeps(t) /\ UNCHANGED <<call, pushes, pops>>
    BY <1>4, <2>1 DEF TypeOK, PopStep, PopSleeps
  <2>2. CASE PopEnds(t) /\ Return(t) /\ UNCHANGED <<pushes, pops>>
    BY <1>4, <2>2 DEF TypeOK, PopStep, PopEnds, Return, queueVars
  <2>3. CASE PopDequeues(t) /\ Return(t) /\ pops' = pops + 1 /\ UNCHANGED pushes
    <3>1. not_full_' \subseteq not_full_
      BY <2>3, NotifyOneWakesOne DEF PopDequeues, Dequeue
    <3>2. queue_' \in Seq(Nat) /\ Len(queue_') <= Capacity
      BY <2>3 DEF TypeOK, PopDequeues, Dequeue
    <3> QED
      BY <1>4, <2>3, <3>1, <3>2
         DEF TypeOK, PopStep, PopDequeues, Dequeue, Return
  <2> QED
    BY <1>4, <2>1, <2>2, <2>3 DEF PopStep
<1>5. ASSUME NEW t \in Threads, TryPush(t) PROVE TypeOK'
  <2>1. CASE TryPushRefused /\ UNCHANGED pushes
    BY <1>5, <2>1 DEF TypeOK, TryPush, TryPushRefused, queueVars
  <2>2. CASE TryPushEnqueues(pushes + 1) /\ pushes' = pushes + 1
    <3>1. not_empty_' \subseteq not_empty_
      BY <2>2, NotifyOneWakesOne DEF TryPushEnqueues, Enqueue
    <3>2. queue_' \in Seq(Nat) /\ Len(queue_') <= Capacity
      BY <2>2 DEF TypeOK, TryPushEnqueues, Enqueue, Full
    <3> QED
      BY <1>5, <2>2, <3>1, <3>2 DEF TypeOK, TryPush, TryPushEnqueues, Enqueue
  <2> QED
    BY <1>5, <2>1, <2>2 DEF TryPush
<1>6. ASSUME NEW t \in Threads, TryPop(t) PROVE TypeOK'
  <2>1. CASE TryPopEmpty /\ UNCHANGED pops
    BY <1>6, <2>1 DEF TypeOK, TryPop, TryPopEmpty, queueVars
  <2>2. CASE TryPopDequeues /\ pops' = pops + 1
    <3>1. not_full_' \subseteq not_full_
      BY <2>2, NotifyOneWakesOne DEF TryPopDequeues, Dequeue
    <3>2. queue_' \in Seq(Nat) /\ Len(queue_') <= Capacity
      BY <2>2 DEF TypeOK, TryPopDequeues, Dequeue
    <3> QED
      BY <1>6, <2>2, <3>1, <3>2 DEF TypeOK, TryPop, TryPopDequeues, Dequeue
  <2> QED
    BY <1>6, <2>1, <2>2 DEF TryPop
<1>7. ASSUME NEW t \in Threads, CallClose(t) PROVE TypeOK'
  BY <1>7 DEF TypeOK, CallClose, Close
<1>8. ASSUME NEW t \in Threads, Wake(t) PROVE TypeOK'
  BY <1>8 DEF TypeOK, Wake, SpuriousWake
<1>9. CASE UNCHANGED vars
  BY <1>9 DEF TypeOK, vars, queueVars
<1> QED
  BY <1>1, <1>2, <1>3, <1>4, <1>5, <1>6, <1>7, <1>8, <1>9 DEF Next

(* Every state of every run is well typed; in particular the queue never     *)
(* holds more than its capacity ("bounded", task_queue.hpp:18-22).           *)
THEOREM TypeCorrect == Spec => []TypeOK
BY TypeInit, TypeStep, PTL DEF Spec

-----------------------------------------------------------------------------
(* Every step of the detailed specification is a step of BoundedQueue, or    *)
(* changes nothing that BoundedQueue sees: going to sleep, waking up and     *)
(* being refused are invisible.                                              *)
LEMMA StepSimulation == TypeOK /\ [Next]_vars => [Abstract!Next]_(Abstract!vars)
<1> SUFFICES ASSUME TypeOK, [Next]_vars
             PROVE  Abstract!Next \/ UNCHANGED Abstract!vars
  BY DEF Abstract!vars
<1> USE CapacityAssumption, MPMCAssumption
<1>1. ASSUME NEW t \in Threads, CallPush(t) PROVE Abstract!CallPush(t)
  BY <1>1 DEF CallPush, Begin, queueVars, Abstract!CallPush
<1>2. ASSUME NEW t \in Threads, CallPop(t) PROVE Abstract!CallPop(t)
  BY <1>2 DEF CallPop, Begin, queueVars, Abstract!CallPop
<1>3. ASSUME NEW t \in Threads, PushStep(t)
      PROVE  Abstract!PushReturns(t) \/ UNCHANGED Abstract!vars
  <2>1. CASE PushSleeps(t) /\ UNCHANGED <<call, pushes, pops>>
    BY <2>1 DEF PushSleeps, Abstract!vars
  <2>2. CASE PushRefused(t) /\ Return(t) /\ UNCHANGED <<pushes, pops>>
    BY <1>3, <2>2 DEF PushStep, PushRefused, Return, queueVars,
                      Abstract!PushReturns, Abstract!Unchanged
  <2>3. CASE PushEnqueues(t, pushes + 1) /\ Return(t) /\ pushes' = pushes + 1
               /\ UNCHANGED pops
    <3>1. Abstract!Add
      BY <2>3 DEF TypeOK, PushEnqueues, Enqueue, Full, Abstract!Add
    <3> QED
      BY <1>3, <2>3, <3>1 DEF PushStep, Return, Abstract!PushReturns
  <2> QED
    BY <1>3, <2>1, <2>2, <2>3 DEF PushStep
<1>4. ASSUME NEW t \in Threads, PopStep(t)
      PROVE  Abstract!PopReturns(t) \/ UNCHANGED Abstract!vars
  <2>1. CASE PopSleeps(t) /\ UNCHANGED <<call, pushes, pops>>
    BY <2>1 DEF PopSleeps, Abstract!vars
  <2>2. CASE PopEnds(t) /\ Return(t) /\ UNCHANGED <<pushes, pops>>
    BY <1>4, <2>2 DEF PopStep, PopEnds, Return, queueVars,
                      Abstract!PopReturns, Abstract!Unchanged
  <2>3. CASE PopDequeues(t) /\ Return(t) /\ pops' = pops + 1 /\ UNCHANGED pushes
    <3>1. Abstract!Remove
      BY <2>3 DEF PopDequeues, Dequeue, Abstract!Remove
    <3> QED
      BY <1>4, <2>3, <3>1 DEF PopStep, Return, Abstract!PopReturns
  <2> QED
    BY <1>4, <2>1, <2>2, <2>3 DEF PopStep
<1>5. ASSUME NEW t \in Threads, TryPush(t)
      PROVE  Abstract!TryPush(t) \/ UNCHANGED Abstract!vars
  <2>1. CASE TryPushRefused /\ UNCHANGED pushes
    BY <1>5, <2>1 DEF TryPush, TryPushRefused, queueVars, Abstract!vars
  <2>2. CASE TryPushEnqueues(pushes + 1) /\ pushes' = pushes + 1
    <3>1. Abstract!Add
      BY <1>5, <2>2
         DEF TypeOK, TryPush, TryPushEnqueues, Enqueue, Full, Abstract!Add
    <3> QED
      BY <1>5, <3>1 DEF TryPush, Abstract!TryPush
  <2> QED
    BY <1>5, <2>1, <2>2 DEF TryPush
<1>6. ASSUME NEW t \in Threads, TryPop(t)
      PROVE  Abstract!TryPop(t) \/ UNCHANGED Abstract!vars
  <2>1. CASE TryPopEmpty /\ UNCHANGED pops
    BY <1>6, <2>1 DEF TryPop, TryPopEmpty, queueVars, Abstract!vars
  <2>2. CASE TryPopDequeues /\ pops' = pops + 1
    BY <1>6, <2>2 DEF TryPop, TryPopDequeues, Dequeue,
                      Abstract!TryPop, Abstract!Remove
  <2> QED
    BY <1>6, <2>1, <2>2 DEF TryPop
<1>7. ASSUME NEW t \in Threads, CallClose(t) PROVE Abstract!Close(t)
  BY <1>7 DEF CallClose, Close, Abstract!Close
<1>8. ASSUME NEW t \in Threads, Wake(t) PROVE UNCHANGED Abstract!vars
  BY <1>8 DEF Wake, SpuriousWake, Abstract!vars
<1>9. CASE UNCHANGED vars
  BY <1>9 DEF vars, queueVars, Abstract!vars
<1> QED
  BY <1>1, <1>2, <1>3, <1>4, <1>5, <1>6, <1>7, <1>8, <1>9
     DEF Next, Abstract!Next

(* The queue implements the abstract bounded queue: whatever a client can    *)
(* see of task_queue.hpp, it could have seen of a queue whose push() and     *)
(* pop() block and return in one step.                                       *)
THEOREM SafetyRefinement == Spec => Abstract!Spec
<1>1. Init => Abstract!Init
  BY DEF Init, QueueInit, Abstract!Init
<1> QED
  BY <1>1, StepSimulation, TypeCorrect, PTL DEF Spec, Abstract!Spec

-----------------------------------------------------------------------------
(* First in, first out.  Proved of the abstract steps, so that the detailed  *)
(* queue inherits it.                                                        *)
LEMMA FifoStep ==
    ASSUME TypeOK, Fifo, [Abstract!Next]_(Abstract!vars)
    PROVE  Fifo'
<1>1. ASSUME Abstract!Add PROVE Fifo'
  <2>1. pushes \in Nat /\ pops \in Nat /\ pops <= pushes
    BY DEF TypeOK, Fifo
  <2>2. /\ queue_ = [i \in 1 .. (pushes - pops) |-> pops + i]
        /\ Len(queue_) = pushes - pops
    BY <2>1 DEF Fifo
  <2>3. queue_' = [i \in 1 .. (pushes' - pops') |-> pops' + i]
    BY <1>1, <2>1, <2>2 DEF Abstract!Add
  <2> QED
    BY <1>1, <2>1, <2>3 DEF Fifo, Abstract!Add
<1>2. ASSUME Abstract!Remove PROVE Fifo'
  <2>1. pushes \in Nat /\ pops \in Nat /\ pops <= pushes
    BY DEF TypeOK, Fifo
  <2>2. /\ queue_ = [i \in 1 .. (pushes - pops) |-> pops + i]
        /\ Len(queue_) = pushes - pops
    BY <2>1 DEF Fifo
  <2>3. queue_' = [i \in 1 .. (pushes' - pops') |-> pops' + i] /\ pops' <= pushes'
    BY <1>2, <2>1, <2>2 DEF Abstract!Remove
  <2> QED
    BY <2>3 DEF Fifo
<1>3. ASSUME UNCHANGED <<queue_, pushes, pops>> PROVE Fifo'
  BY <1>3 DEF Fifo
<1> QED
  BY <1>1, <1>2, <1>3
     DEF Abstract!Next, Abstract!vars, Abstract!CallPush, Abstract!CallPop,
         Abstract!PushReturns, Abstract!PopReturns, Abstract!TryPush,
         Abstract!TryPop, Abstract!Close, Abstract!Unchanged

(* At any moment the queue holds exactly the items that entered and have not *)
(* left, in the order in which they entered: no interleaving of push, pop,   *)
(* try_push, try_pop and close loses, repeats or reorders one.               *)
THEOREM FirstInFirstOut == Spec => []Fifo
<1>1. Init => Fifo
  BY DEF Init, QueueInit, Fifo
<1>2. TypeOK /\ Fifo /\ [Next]_vars => Fifo'
  BY StepSimulation, FifoStep
<1> QED
  BY <1>1, <1>2, TypeCorrect, PTL DEF Spec

-----------------------------------------------------------------------------
(* What an insertion and a removal do to the threads that are awake.  The    *)
(* notified sleeper joins them; the caller, if it was one of them, leaves.   *)
LEMMA EnqueueKeepsPoppers ==
    ASSUME TypeOK, PopperNotStranded, NEW item, Enqueue(item),
           \A u \in Threads : (call'[u] = "pop") <=> (call[u] = "pop")
    PROVE  PopperNotStranded'
<1> SUFFICES ASSUME not_empty_' # {}
             PROVE  Len(queue_') <= Cardinality(AwakePoppers')
  BY DEF PopperNotStranded
<1>1. not_empty_' \in AfterNotifyOne(not_empty_) /\ queue_' = Append(queue_, item)
  BY DEF Enqueue
<1>2. not_empty_' \subseteq not_empty_
  BY <1>1, NotifyOneWakesOne
<1>3. PICK u \in not_empty_ : not_empty_' = not_empty_ \ {u}
  BY <1>1, <1>2, NotifyOneWakesOne
<1>4. u \in Threads /\ call[u] = "pop"
  BY DEF TypeOK
<1>5. AwakePoppers' = AwakePoppers \cup {u} /\ u \notin AwakePoppers
  BY <1>3, <1>4 DEF AwakePoppers
<1>6. Cardinality(AwakePoppers') = Cardinality(AwakePoppers) + 1
  BY <1>5, AwakeFinite, OneMoreOrLess
<1>7. Len(queue_) <= Cardinality(AwakePoppers)
  BY <1>2 DEF PopperNotStranded
<1>8. Len(queue_') = Len(queue_) + 1 /\ Len(queue_) \in Nat
  BY <1>1 DEF TypeOK
<1> QED
  BY <1>6, <1>7, <1>8, AwakeFinite

LEMMA DequeueKeepsPushers ==
    ASSUME TypeOK, PusherNotStranded, queue_ # <<>>, Dequeue,
           \A u \in Threads : (call'[u] = "push") <=> (call[u] = "push")
    PROVE  PusherNotStranded'
<1> SUFFICES ASSUME not_full_' # {}
             PROVE  Capacity - Len(queue_') <= Cardinality(AwakePushers')
  BY DEF PusherNotStranded
<1>1. not_full_' \in AfterNotifyOne(not_full_) /\ queue_' = Tail(queue_)
  BY DEF Dequeue
<1>2. not_full_' \subseteq not_full_
  BY <1>1, NotifyOneWakesOne
<1>3. PICK u \in not_full_ : not_full_' = not_full_ \ {u}
  BY <1>1, <1>2, NotifyOneWakesOne
<1>4. u \in Threads /\ call[u] = "push"
  BY DEF TypeOK
<1>5. AwakePushers' = AwakePushers \cup {u} /\ u \notin AwakePushers
  BY <1>3, <1>4 DEF AwakePushers
<1>6. Cardinality(AwakePushers') = Cardinality(AwakePushers) + 1
  BY <1>5, AwakeFinite, OneMoreOrLess
<1>7. Capacity - Len(queue_) <= Cardinality(AwakePushers)
  BY <1>2 DEF PusherNotStranded
<1>8. Len(queue_') = Len(queue_) - 1 /\ Len(queue_) \in Nat
  BY <1>1 DEF TypeOK
<1> QED
  BY <1>6, <1>7, <1>8, AwakeFinite, CapacityAssumption

(* Sleepers stay as they are, the awake threads of the call are the same or  *)
(* more, and there is nothing more to be served: nobody becomes stranded.    *)
LEMMA PoppersUndisturbed ==
    ASSUME TypeOK, TypeOK', PopperNotStranded, not_empty_' \subseteq not_empty_,
           AwakePoppers \subseteq AwakePoppers', Len(queue_') <= Len(queue_)
    PROVE  PopperNotStranded'
<1>1. IsFiniteSet(AwakePoppers')
  <2>1. AwakePoppers' \subseteq Threads
    BY DEF AwakePoppers
  <2> QED
    BY <2>1, MPMCAssumption, FS_Subset
<1>2. Cardinality(AwakePoppers) <= Cardinality(AwakePoppers')
  BY <1>1, FS_Subset
<1>3. Cardinality(AwakePoppers') \in Nat /\ Cardinality(AwakePoppers) \in Nat
  BY <1>1, AwakeFinite, FS_CardinalityType
<1> QED
  BY <1>2, <1>3 DEF PopperNotStranded, TypeOK

LEMMA PushersUndisturbed ==
    ASSUME TypeOK, TypeOK', PusherNotStranded, not_full_' \subseteq not_full_,
           AwakePushers \subseteq AwakePushers', Len(queue_) <= Len(queue_')
    PROVE  PusherNotStranded'
<1>1. IsFiniteSet(AwakePushers')
  <2>1. AwakePushers' \subseteq Threads
    BY DEF AwakePushers
  <2> QED
    BY <2>1, MPMCAssumption, FS_Subset
<1>2. Cardinality(AwakePushers) <= Cardinality(AwakePushers')
  BY <1>1, FS_Subset
<1>3. Cardinality(AwakePushers') \in Nat /\ Cardinality(AwakePushers) \in Nat
  BY <1>1, AwakeFinite, FS_CardinalityType
<1> QED
  BY <1>2, <1>3, CapacityAssumption DEF PusherNotStranded, TypeOK

(* The caller of a successful pop() takes one item and one awake consumer    *)
(* away; the caller of a successful push() one free slot and one producer.   *)
LEMMA PopKeepsPoppers ==
    ASSUME TypeOK, PopperNotStranded, NEW t \in Threads, call[t] = "pop",
           PopDequeues(t), Return(t)
    PROVE  PopperNotStranded'
<1>1. queue_ # <<>> /\ queue_' = Tail(queue_) /\ not_empty_' = not_empty_
      /\ t \notin not_empty_ /\ call' = [call EXCEPT ![t] = "idle"]
  BY DEF PopDequeues, Dequeue, Return
<1>2. AwakePoppers' = AwakePoppers \ {t} /\ t \in AwakePoppers
  BY <1>1 DEF AwakePoppers, TypeOK
<1>3. Cardinality(AwakePoppers') = Cardinality(AwakePoppers) - 1
  BY <1>2, AwakeFinite, OneMoreOrLess
<1>4. Len(queue_') = Len(queue_) - 1 /\ Len(queue_) \in Nat
  BY <1>1 DEF TypeOK
<1> QED
  BY <1>1, <1>3, <1>4, AwakeFinite DEF PopperNotStranded

LEMMA PushKeepsPushers ==
    ASSUME TypeOK, PusherNotStranded, NEW t \in Threads, call[t] = "push",
           NEW item, PushEnqueues(t, item), Return(t)
    PROVE  PusherNotStranded'
<1>1. queue_' = Append(queue_, item) /\ not_full_' = not_full_
      /\ t \notin not_full_ /\ call' = [call EXCEPT ![t] = "idle"]
  BY DEF PushEnqueues, Enqueue, Return
<1>2. AwakePushers' = AwakePushers \ {t} /\ t \in AwakePushers
  BY <1>1 DEF AwakePushers, TypeOK
<1>3. Cardinality(AwakePushers') = Cardinality(AwakePushers) - 1
  BY <1>2, AwakeFinite, OneMoreOrLess
<1>4. Len(queue_') = Len(queue_) + 1 /\ Len(queue_) \in Nat
  BY <1>1 DEF TypeOK
<1> QED
  BY <1>1, <1>3, <1>4, AwakeFinite, CapacityAssumption DEF PusherNotStranded

-----------------------------------------------------------------------------
(* NoLostWakeup is inductive given the types.  The interesting steps are the *)
(* insertions and removals; a thread goes to sleep only when there is        *)
(* nothing for it, and close() wakes all (task_queue.hpp:54-105).            *)
LEMMA WakeupStep == TypeOK /\ TypeOK' /\ NoLostWakeup /\ [Next]_vars => NoLostWakeup'
<1> SUFFICES ASSUME TypeOK, TypeOK', NoLostWakeup, [Next]_vars
             PROVE  NoLostWakeup'
  OBVIOUS
<1>0. PopperNotStranded /\ PusherNotStranded /\ ClosedWakesAll
  BY DEF NoLostWakeup
<1>1. ASSUME NEW t \in Threads, CallPush(t) \/ CallPop(t) PROVE NoLostWakeup'
  <2>1. UNCHANGED queueVars /\ call[t] = "idle"
        /\ \A u \in Threads : u # t => call'[u] = call[u]
    BY <1>1 DEF CallPush, CallPop, Begin, TypeOK
  <2>2. AwakePoppers \subseteq AwakePoppers' /\ AwakePushers \subseteq AwakePushers'
    BY <2>1 DEF AwakePoppers, AwakePushers, queueVars
  <2>3. UNCHANGED <<queue_, closed_, not_empty_, not_full_>> /\ Len(queue_) \in Nat
    BY <2>1 DEF queueVars, TypeOK
  <2>4. PopperNotStranded' /\ PusherNotStranded'
    BY <1>0, <2>2, <2>3, PoppersUndisturbed, PushersUndisturbed
  <2> QED
    BY <1>0, <2>3, <2>4 DEF NoLostWakeup, ClosedWakesAll
<1>2. ASSUME NEW t \in Threads, PushStep(t) PROVE NoLostWakeup'
  <2>0. call[t] = "push"
    BY <1>2 DEF PushStep
  <2>1. CASE PushSleeps(t) /\ UNCHANGED <<call, pushes, pops>>
    <3>1. UNCHANGED <<queue_, closed_, not_empty_, call>> /\ ~closed_
          /\ Len(queue_) = Capacity
      BY <2>1, CapacityAssumption DEF PushSleeps, Full, TypeOK
    <3>2. AwakePoppers' = AwakePoppers
      BY <3>1 DEF AwakePoppers
    <3>3. PusherNotStranded'
      <4>1. AwakePushers' \subseteq Threads
        BY DEF AwakePushers
      <4>2. Cardinality(AwakePushers') \in Nat
        BY <4>1, MPMCAssumption, FS_Subset, FS_CardinalityType
      <4> QED
        BY <3>1, <4>2, CapacityAssumption DEF PusherNotStranded
    <3> QED
      BY <1>0, <3>1, <3>2, <3>3
         DEF NoLostWakeup, PopperNotStranded, ClosedWakesAll
  <2>2. CASE PushRefused(t) /\ Return(t) /\ UNCHANGED <<pushes, pops>>
    BY <1>0, <2>2
       DEF PushRefused, queueVars, NoLostWakeup, ClosedWakesAll,
           PopperNotStranded, PusherNotStranded
  <2>3. CASE PushEnqueues(t, pushes + 1) /\ Return(t) /\ pushes' = pushes + 1
               /\ UNCHANGED pops
    <3>1. PusherNotStranded'
      BY <1>0, <2>0, <2>3, PushKeepsPushers
    <3>2. \A u \in Threads : (call'[u] = "pop") <=> (call[u] = "pop")
      BY <2>0, <2>3 DEF Return, TypeOK
    <3>3. Enqueue(pushes + 1) /\ ~closed_
      BY <2>3 DEF PushEnqueues
    <3>4. PopperNotStranded'
      BY <1>0, <3>2, <3>3, EnqueueKeepsPoppers
    <3> QED
      BY <3>1, <3>3, <3>4 DEF NoLostWakeup, ClosedWakesAll, Enqueue
  <2> QED
    BY <1>2, <2>1, <2>2, <2>3 DEF PushStep
<1>3. ASSUME NEW t \in Threads, PopStep(t) PROVE NoLostWakeup'
  <2>0. call[t] = "pop"
    BY <1>3 DEF PopStep
  <2>1. CASE PopSleeps(t) /\ UNCHANGED <<call, pushes, pops>>
    <3>1. UNCHANGED <<queue_, closed_, not_full_, call>> /\ ~closed_
          /\ Len(queue_) = 0
      BY <2>1 DEF PopSleeps
    <3>2. AwakePushers' = AwakePushers
      BY <3>1 DEF AwakePushers
    <3>3. PopperNotStranded'
      <4>1. AwakePoppers' \subseteq Threads
        BY DEF AwakePoppers
      <4>2. Cardinality(AwakePoppers') \in Nat
        BY <4>1, MPMCAssumption, FS_Subset, FS_CardinalityType
      <4> QED
        BY <3>1, <4>2 DEF PopperNotStranded
    <3> QED
      BY <1>0, <3>1, <3>2, <3>3
         DEF NoLostWakeup, PusherNotStranded, ClosedWakesAll
  <2>2. CASE PopEnds(t) /\ Return(t) /\ UNCHANGED <<pushes, pops>>
    BY <1>0, <2>2
       DEF PopEnds, queueVars, NoLostWakeup, ClosedWakesAll,
           PopperNotStranded, PusherNotStranded
  <2>3. CASE PopDequeues(t) /\ Return(t) /\ pops' = pops + 1 /\ UNCHANGED pushes
    <3>1. PopperNotStranded'
      BY <1>0, <2>0, <2>3, PopKeepsPoppers
    <3>2. \A u \in Threads : (call'[u] = "push") <=> (call[u] = "push")
      BY <2>0, <2>3 DEF Return, TypeOK
    <3>3. Dequeue /\ queue_ # <<>>
      BY <2>3 DEF PopDequeues
    <3>4. PusherNotStranded'
      BY <1>0, <3>2, <3>3, DequeueKeepsPushers
    <3>5. ClosedWakesAll'
      BY <1>0, <3>3, NotifyOneWakesOne DEF Dequeue, ClosedWakesAll
    <3> QED
      BY <3>1, <3>4, <3>5 DEF NoLostWakeup
  <2> QED
    BY <1>3, <2>1, <2>2, <2>3 DEF PopStep
<1>4. ASSUME NEW t \in Threads, TryPush(t) PROVE NoLostWakeup'
  <2>1. CASE TryPushRefused
    BY <1>0, <1>4, <2>1
       DEF TryPush, TryPushRefused, queueVars, NoLostWakeup, ClosedWakesAll,
           PopperNotStranded, PusherNotStranded, AwakePoppers, AwakePushers
  <2>2. CASE TryPushEnqueues(pushes + 1)
    <3>1. Enqueue(pushes + 1) /\ ~closed_ /\ call' = call
      BY <1>4, <2>2 DEF TryPush, TryPushEnqueues
    <3>2. PopperNotStranded'
      BY <1>0, <3>1, EnqueueKeepsPoppers
    <3>3. AwakePushers' = AwakePushers /\ not_full_' = not_full_
          /\ Len(queue_) <= Len(queue_')
      BY <3>1 DEF Enqueue, AwakePushers, TypeOK
    <3>4. PusherNotStranded'
      BY <1>0, <3>3, PushersUndisturbed
    <3> QED
      BY <3>1, <3>2, <3>4 DEF NoLostWakeup, ClosedWakesAll, Enqueue
  <2> QED
    BY <1>4, <2>1, <2>2 DEF TryPush
<1>5. ASSUME NEW t \in Threads, TryPop(t) PROVE NoLostWakeup'
  <2>1. CASE TryPopEmpty
    BY <1>0, <1>5, <2>1
       DEF TryPop, TryPopEmpty, queueVars, NoLostWakeup, ClosedWakesAll,
           PopperNotStranded, PusherNotStranded, AwakePoppers, AwakePushers
  <2>2. CASE TryPopDequeues
    <3>1. Dequeue /\ queue_ # <<>> /\ call' = call
      BY <1>5, <2>2 DEF TryPop, TryPopDequeues
    <3>2. PusherNotStranded'
      BY <1>0, <3>1, DequeueKeepsPushers
    <3>3. AwakePoppers' = AwakePoppers /\ not_empty_' = not_empty_
          /\ Len(queue_') <= Len(queue_)
      BY <3>1 DEF Dequeue, AwakePoppers, TypeOK
    <3>4. PopperNotStranded'
      BY <1>0, <3>3, PoppersUndisturbed
    <3>5. ClosedWakesAll'
      BY <1>0, <3>1, NotifyOneWakesOne DEF Dequeue, ClosedWakesAll
    <3> QED
      BY <3>2, <3>4, <3>5 DEF NoLostWakeup
  <2> QED
    BY <1>5, <2>1, <2>2 DEF TryPop
<1>6. ASSUME NEW t \in Threads, CallClose(t) PROVE NoLostWakeup'
  BY <1>6 DEF CallClose, Close, NoLostWakeup, ClosedWakesAll,
              PopperNotStranded, PusherNotStranded
<1>7. ASSUME NEW t \in Threads, Wake(t) PROVE NoLostWakeup'
  <2>1. /\ UNCHANGED <<queue_, closed_, call>> /\ Len(queue_) \in Nat
        /\ not_empty_' \subseteq not_empty_ /\ not_full_' \subseteq not_full_
    BY <1>7 DEF Wake, SpuriousWake, TypeOK
  <2>2. AwakePoppers \subseteq AwakePoppers' /\ AwakePushers \subseteq AwakePushers'
    BY <2>1 DEF AwakePoppers, AwakePushers
  <2>3. PopperNotStranded' /\ PusherNotStranded'
    BY <1>0, <2>1, <2>2, PoppersUndisturbed, PushersUndisturbed
  <2> QED
    BY <1>0, <2>1, <2>3 DEF NoLostWakeup, ClosedWakesAll
<1>8. CASE UNCHANGED vars
  BY <1>0, <1>8
     DEF vars, queueVars, NoLostWakeup, ClosedWakesAll, PopperNotStranded,
         PusherNotStranded, AwakePoppers, AwakePushers
<1> QED
  BY <1>1, <1>2, <1>3, <1>4, <1>5, <1>6, <1>7, <1>8 DEF Next

(* No wakeup is ever lost, for any number of threads and any capacity: an    *)
(* item never waits in the queue with all its possible consumers asleep, nor *)
(* a free slot with all its producers asleep.                                *)
THEOREM WakeupsNotLost == Spec => []NoLostWakeup
<1>1. Init => NoLostWakeup
  BY DEF Init, QueueInit, NoLostWakeup, PopperNotStranded, PusherNotStranded,
         ClosedWakesAll
<1> QED
  BY <1>1, WakeupStep, TypeCorrect, PTL DEF Spec

=============================================================================
