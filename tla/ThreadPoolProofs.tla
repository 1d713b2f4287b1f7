-------------------------- MODULE ThreadPoolProofs --------------------------
(***************************************************************************)
(* Theorems about ThreadPool, for every number of workers, every set of    *)
(* clients, every capacity and every bound on the submissions; and that    *)
(* the pool with its log is still that pool, so that they hold of          *)
(* LoggedPool too.                                                         *)
(***************************************************************************)
EXTENDS LoggedPool, FiniteSetTheorems, TLAPS

LEMMA NotifyOneWakesOnly ==
    ASSUME NEW cv, NEW rest \in AfterNotifyOne(cv)
    PROVE  rest \subseteq cv
BY DEF AfterNotifyOne

-----------------------------------------------------------------------------
(* TypeOK is inductive: a task enters the queue only where there is room,    *)
(* and a thread leaves pop() or push() only while it is awake                *)
(* (thread_pool.cpp:27-71 over task_queue.hpp:54-105).                       *)
LEMMA PoolTypeInit == Init => TypeOK
<1> SUFFICES ASSUME Init PROVE TypeOK
  OBVIOUS
<1>1. queue_ \in Seq(Nat) /\ Len(queue_) <= Capacity
  BY CapacityAssumption DEF Init, QueueInit
<1>2. not_empty_ = {} /\ not_full_ = {} /\ closed_ = FALSE
  BY DEF Init, QueueInit
<1>3. /\ worker \in [Workers -> {"pop", "run", "exited"}]
      /\ task \in [Workers -> Nat]
      /\ client \in [Clients -> {"idle", "submit"}]
  BY DEF Init
<1>4. /\ accepted \in Nat /\ taken \in Nat /\ finished \subseteq Nat
      /\ joined \in 0 .. NWorkers
  BY PoolAssumption DEF Init
<1>5. shutdown_called_ \in BOOLEAN /\ (closed_ => shutdown_called_)
  BY <1>2 DEF Init
<1> QED
  BY <1>1, <1>2, <1>3, <1>4, <1>5 DEF TypeOK

LEMMA PoolTypeStep == TypeOK /\ [Next]_vars => TypeOK'
<1> SUFFICES ASSUME TypeOK, [Next]_vars PROVE TypeOK'
  OBVIOUS
<1> USE CapacityAssumption, PoolAssumption
<1>1. ASSUME NEW c \in Clients, Submit(c) PROVE TypeOK'
  BY <1>1 DEF TypeOK, Submit, queueVars
<1>2. ASSUME NEW c \in Clients, SubmitStep(c) PROVE TypeOK'
  <2>1. CASE PushSleeps(c) /\ UNCHANGED <<client, accepted>>
    BY <1>2, <2>1 DEF TypeOK, SubmitStep, PushSleeps
  <2>2. CASE /\ PushRefused(c) /\ UNCHANGED accepted
             /\ client' = [client EXCEPT ![c] = "idle"]
    BY <1>2, <2>2 DEF TypeOK, SubmitStep, PushRefused, queueVars
  <2>3. CASE /\ PushEnqueues(c, accepted + 1) /\ Accepts
             /\ client' = [client EXCEPT ![c] = "idle"]
    <3>1. not_empty_' \subseteq not_empty_
      BY <2>3, NotifyOneWakesOnly DEF PushEnqueues, Enqueue
    <3>2. queue_' \in Seq(Nat) /\ Len(queue_') <= Capacity
      BY <2>3 DEF TypeOK, PushEnqueues, Enqueue, Full
    <3> QED
      BY <1>2, <2>3, <3>1, <3>2
         DEF TypeOK, SubmitStep, PushEnqueues, Enqueue, Accepts
  <2> QED
    BY <1>2, <2>1, <2>2, <2>3 DEF SubmitStep
<1>3. ASSUME NEW c \in Clients, TrySubmit(c) PROVE TypeOK'
  <2>1. CASE TryPushRefused /\ UNCHANGED accepted
    BY <1>3, <2>1 DEF TypeOK, TrySubmit, TryPushRefused, queueVars
  <2>2. CASE TryPushEnqueues(accepted + 1) /\ Accepts
    <3>1. not_empty_' \subseteq not_empty_
      BY <2>2, NotifyOneWakesOnly DEF TryPushEnqueues, Enqueue
    <3>2. queue_' \in Seq(Nat) /\ Len(queue_') <= Capacity
      BY <2>2 DEF TypeOK, TryPushEnqueues, Enqueue, Full
    <3> QED
      BY <1>3, <2>2, <3>1, <3>2
         DEF TypeOK, TrySubmit, TryPushEnqueues, Enqueue, Accepts
  <2> QED
    BY <1>3, <2>1, <2>2 DEF TrySubmit
<1>4. ASSUME NEW w \in Workers, WorkerPop(w) PROVE TypeOK'
  <2>1. CASE PopSleeps(w) /\ UNCHANGED <<worker, task, taken>>
    BY <1>4, <2>1 DEF TypeOK, WorkerPop, PopSleeps
  <2>2. CASE /\ PopEnds(w) /\ UNCHANGED <<task, taken>>
             /\ worker' = [worker EXCEPT ![w] = "exited"]
    BY <1>4, <2>2 DEF TypeOK, WorkerPop, PopEnds, queueVars
  <2>3. CASE /\ PopDequeues(w)
             /\ worker' = [worker EXCEPT ![w] = "run"]
             /\ task' = [task EXCEPT ![w] = Head(queue_)]
             /\ taken' = taken + 1
    <3>1. not_full_' \subseteq not_full_
      BY <2>3, NotifyOneWakesOnly DEF PopDequeues, Dequeue
    <3>2. queue_' \in Seq(Nat) /\ Len(queue_') <= Capacity /\ Head(queue_) \in Nat
      BY <2>3 DEF TypeOK, PopDequeues, Dequeue
    <3> QED
      BY <1>4, <2>3, <3>1, <3>2 DEF TypeOK, WorkerPop, PopDequeues, Dequeue
  <2> QED
    BY <1>4, <2>1, <2>2, <2>3 DEF WorkerPop
<1>5. ASSUME NEW w \in Workers, TaskEnds(w) PROVE TypeOK'
  BY <1>5 DEF TypeOK, TaskEnds, queueVars
<1>6. CASE Shutdown \/ CloseQueue
  BY <1>6 DEF TypeOK, Shutdown, CloseQueue, Close, poolVars, queueVars
<1>7. CASE Join
  BY <1>7 DEF TypeOK, Join, queueVars
<1>8. ASSUME NEW t \in Workers \cup Clients, Wake(t) PROVE TypeOK'
  BY <1>8 DEF TypeOK, Wake, SpuriousWake, poolVars
<1>9. CASE UNCHANGED vars
  BY <1>9 DEF TypeOK, vars, queueVars, poolVars
<1> QED
  BY <1>1, <1>2, <1>3, <1>4, <1>5, <1>6, <1>7, <1>8, <1>9 DEF Next, Terminated

(* Every state of the pool is well typed: its queue never exceeds its        *)
(* capacity, only threads inside pop() and submit() sleep, and nothing but   *)
(* shutdown() has closed the queue (thread_pool.cpp:35-43).                  *)
THEOREM PoolTypeCorrect == Spec => []TypeOK
BY PoolTypeInit, PoolTypeStep, PTL DEF Spec

-----------------------------------------------------------------------------
(* Seen from the tasks a step of the pool is one of five: a client's task is *)
(* accepted, a worker takes the oldest, leaves, or ends its task, and all    *)
(* others leave tasks and workers alone.                                     *)
Accept ==
    /\ ~closed_
    /\ queue_' = Append(queue_, accepted + 1) /\ accepted' = accepted + 1
    /\ UNCHANGED <<worker, task, taken, finished, closed_, joined>>

Take(w) ==
    /\ worker[w] = "pop" /\ queue_ # <<>>
    /\ queue_' = Tail(queue_)
    /\ worker' = [worker EXCEPT ![w] = "run"]
    /\ task' = [task EXCEPT ![w] = Head(queue_)]
    /\ taken' = taken + 1
    /\ UNCHANGED <<accepted, finished, closed_, joined>>

Exit(w) ==
    /\ worker[w] = "pop" /\ queue_ = <<>> /\ closed_
    /\ worker' = [worker EXCEPT ![w] = "exited"]
    /\ UNCHANGED <<queue_, task, accepted, taken, finished, closed_, joined>>

JoinsNext == joined' = joined + 1 /\ joined < NWorkers /\ worker[joined + 1] = "exited"

Quiet ==
    /\ UNCHANGED <<queue_, worker, task, accepted, taken, finished>>
    /\ closed_ => closed_'
    /\ joined' = joined \/ JoinsNext

LEMMA PoolSteps ==
    ASSUME [Next]_vars
    PROVE  Accept \/ Quiet \/ \E w \in Workers : Take(w) \/ Exit(w) \/ TaskEnds(w)
<1>1. ASSUME NEW c \in Clients, Submit(c) PROVE Quiet
  BY <1>1 DEF Submit, Quiet, queueVars
<1>2. ASSUME NEW c \in Clients, SubmitStep(c) PROVE Accept \/ Quiet
  <2>1. CASE PushSleeps(c) /\ UNCHANGED <<client, accepted>>
    BY <1>2, <2>1 DEF SubmitStep, PushSleeps, Quiet
  <2>2. CASE PushRefused(c) /\ UNCHANGED accepted
    BY <1>2, <2>2 DEF SubmitStep, PushRefused, Quiet, queueVars
  <2>3. CASE PushEnqueues(c, accepted + 1) /\ Accepts
    BY <1>2, <2>3 DEF SubmitStep, PushEnqueues, Enqueue, Accepts, Accept
  <2> QED
    BY <1>2, <2>1, <2>2, <2>3 DEF SubmitStep
<1>3. ASSUME NEW c \in Clients, TrySubmit(c) PROVE Accept \/ Quiet
  <2>1. CASE TryPushRefused /\ UNCHANGED accepted
    BY <1>3, <2>1 DEF TrySubmit, TryPushRefused, Quiet, queueVars
  <2>2. CASE TryPushEnqueues(accepted + 1) /\ Accepts
    BY <1>3, <2>2 DEF TrySubmit, TryPushEnqueues, Enqueue, Accepts, Accept
  <2> QED
    BY <1>3, <2>1, <2>2 DEF TrySubmit
<1>4. ASSUME NEW w \in Workers, WorkerPop(w) PROVE Take(w) \/ Exit(w) \/ Quiet
  <2>1. CASE PopSleeps(w) /\ UNCHANGED <<worker, task, taken>>
    BY <1>4, <2>1 DEF WorkerPop, PopSleeps, Quiet
  <2>2. CASE /\ PopEnds(w) /\ UNCHANGED <<task, taken>>
             /\ worker' = [worker EXCEPT ![w] = "exited"]
    BY <1>4, <2>2 DEF WorkerPop, PopEnds, Exit, queueVars
  <2>3. CASE /\ PopDequeues(w)
             /\ worker' = [worker EXCEPT ![w] = "run"]
             /\ task' = [task EXCEPT ![w] = Head(queue_)]
             /\ taken' = taken + 1
    BY <1>4, <2>3 DEF WorkerPop, PopDequeues, Dequeue, Take
  <2> QED
    BY <1>4, <2>1, <2>2, <2>3 DEF WorkerPop
<1>5. CASE Shutdown \/ CloseQueue
  BY <1>5 DEF Shutdown, CloseQueue, Close, Quiet, poolVars, queueVars
<1>6. CASE Join
  BY <1>6 DEF Join, Quiet, JoinsNext, queueVars
<1>7. ASSUME NEW t \in Workers \cup Clients, Wake(t) PROVE Quiet
  BY <1>7 DEF Wake, SpuriousWake, Quiet, poolVars
<1>8. CASE UNCHANGED vars
  BY <1>8 DEF Quiet, vars, queueVars, poolVars
<1> QED
  BY <1>1, <1>2, <1>3, <1>4, <1>5, <1>6, <1>7, <1>8 DEF Next, Terminated

-----------------------------------------------------------------------------
(* TaskInOnePlace needs no strengthening but the types.                      *)
LEMMA PlaceStep == TypeOK /\ TaskInOnePlace /\ [Next]_vars => TaskInOnePlace'
<1> SUFFICES ASSUME TypeOK, TaskInOnePlace, [Next]_vars PROVE TaskInOnePlace'
  OBVIOUS
<1>1. /\ accepted \in Nat /\ taken \in Nat /\ taken <= accepted
      /\ queue_ = [i \in 1 .. (accepted - taken) |-> taken + i]
      /\ Len(queue_) = accepted - taken
  BY DEF TypeOK, TaskInOnePlace
<1>2. /\ worker \in [Workers -> {"pop", "run", "exited"}]
      /\ task \in [Workers -> Nat]
  BY DEF TypeOK
<1>3. /\ finished \cup {task[w] : w \in Running} = 1 .. taken
      /\ \A w \in Running : task[w] \notin finished
      /\ \A v, w \in Running : task[v] = task[w] => v = w
  BY DEF TaskInOnePlace
<1>4. CASE Accept
  <2>1. taken' <= accepted' /\ queue_' = [i \in 1 .. (accepted' - taken') |-> taken' + i]
    BY <1>1, <1>4 DEF Accept
  <2>2. UNCHANGED <<Running, task, taken, finished>>
    BY <1>4 DEF Accept, Running
  <2> QED
    BY <1>3, <2>1, <2>2 DEF TaskInOnePlace
<1>5. ASSUME NEW w \in Workers, Take(w) PROVE TaskInOnePlace'
  <2>1. /\ taken' <= accepted'
        /\ queue_' = [i \in 1 .. (accepted' - taken') |-> taken' + i]
        /\ Head(queue_) = taken + 1
    BY <1>1, <1>5 DEF Take
  <2>2. Running' = Running \cup {w} /\ w \notin Running
    BY <1>2, <1>5 DEF Take, Running
  <2>3. task'[w] = taken + 1 /\ \A v \in Running : task'[v] = task[v]
    BY <1>2, <1>5, <2>1, <2>2 DEF Take
  <2>4. UNCHANGED finished /\ taken' = taken + 1
    BY <1>5 DEF Take
  <2>5. \A v \in Running : task[v] \in 1 .. taken
    BY <1>3
  <2>6. {task'[v] : v \in Running'} = {task[v] : v \in Running} \cup {taken + 1}
    BY <2>2, <2>3
  <2>7. finished' \cup {task'[v] : v \in Running'} = 1 .. taken'
    <3>1. 1 .. taken' = (1 .. taken) \cup {taken + 1}
      BY <1>1, <2>4
    <3> QED
      BY <1>3, <2>4, <2>6, <3>1
  <2>8. \A v \in Running' : task'[v] \notin finished'
    <3>1. taken + 1 \notin finished
      BY <1>1, <1>3
    <3> QED
      BY <1>3, <2>2, <2>3, <2>4, <3>1
  <2>9. \A u, v \in Running' : task'[u] = task'[v] => u = v
    BY <1>1, <1>3, <2>2, <2>3, <2>5
  <2> QED
    BY <2>1, <2>7, <2>8, <2>9 DEF TaskInOnePlace
<1>6. ASSUME NEW w \in Workers, Exit(w) PROVE TaskInOnePlace'
  <2>1. Running' = Running
    BY <1>2, <1>6 DEF Exit, Running
  <2> QED
    BY <1>1, <1>3, <1>6, <2>1 DEF Exit, TaskInOnePlace
<1>7. ASSUME NEW w \in Workers, TaskEnds(w) PROVE TaskInOnePlace'
  <2>1. Running' = Running \ {w} /\ w \in Running
    BY <1>2, <1>7 DEF TaskEnds, Running
  <2>2. /\ finished' = finished \cup {task[w]}
        /\ UNCHANGED <<queue_, task, accepted, taken>>
    BY <1>7 DEF TaskEnds, queueVars
  <2>3. finished' \cup {task'[v] : v \in Running'} = 1 .. taken'
    BY <1>3, <2>1, <2>2
  <2>4. \A v \in Running' : task'[v] \notin finished'
    BY <1>3, <2>1, <2>2
  <2> QED
    BY <1>1, <1>3, <2>1, <2>2, <2>3, <2>4 DEF TaskInOnePlace
<1>8. CASE Quiet
  <2>1. UNCHANGED Running
    BY <1>8 DEF Quiet, Running
  <2> QED
    BY <1>1, <1>3, <1>8, <2>1 DEF Quiet, TaskInOnePlace
<1> QED
  BY <1>4, <1>5, <1>6, <1>7, <1>8, PoolSteps

(* Every accepted task is queued, in the hands of one worker, or finished,   *)
(* and they are handed out in order, whatever throws and whenever the pool   *)
(* is shut down (thread_pool.cpp:27-71).                                     *)
THEOREM TasksInOnePlace == Spec => []TaskInOnePlace
<1>1. Init => TaskInOnePlace
  <2> SUFFICES ASSUME Init PROVE TaskInOnePlace
    OBVIOUS
  <2>1. Running = {}
    BY DEF Init, Running
  <2>2. queue_ = <<>> /\ accepted = 0 /\ taken = 0 /\ finished = {}
    BY DEF Init, QueueInit
  <2> QED
    BY <2>1, <2>2 DEF TaskInOnePlace
<1> QED
  BY <1>1, PlaceStep, PoolTypeCorrect, PTL DEF Spec

-----------------------------------------------------------------------------
(* What shutdown() has joined has exited: it joins in order, and an exited   *)
(* worker stays so.  TaskInOnePlace then says where the tasks are.           *)
JoinedHaveExited ==
    /\ \A i \in 1 .. joined : worker[i] = "exited"
    /\ (\E w \in Workers : worker[w] = "exited") => closed_ /\ queue_ = <<>>

LEMMA JoinedStep == TypeOK /\ JoinedHaveExited /\ [Next]_vars => JoinedHaveExited'
<1> SUFFICES ASSUME TypeOK, JoinedHaveExited, [Next]_vars PROVE JoinedHaveExited'
  OBVIOUS
<1>1. /\ worker \in [Workers -> {"pop", "run", "exited"}]
      /\ joined \in Nat /\ joined <= NWorkers /\ 1 .. joined \subseteq Workers
      /\ joined < NWorkers => joined + 1 \in Workers
  BY PoolAssumption DEF TypeOK, Workers
<1>2. CASE Accept
  <2>1. \A w \in Workers : worker[w] # "exited"
    BY <1>2 DEF Accept, JoinedHaveExited
  <2> QED
    BY <1>1, <1>2, <2>1 DEF Accept, JoinedHaveExited
<1>3. ASSUME NEW w \in Workers, Take(w) PROVE JoinedHaveExited'
  <2>1. \A v \in Workers : worker[v] # "exited"
    BY <1>3 DEF Take, JoinedHaveExited
  <2>2. \A v \in Workers : worker'[v] # "exited"
    BY <1>1, <1>3, <2>1 DEF Take
  <2>3. 1 .. joined = {}
    BY <1>1, <2>1 DEF JoinedHaveExited
  <2> QED
    BY <1>3, <2>2, <2>3 DEF Take, JoinedHaveExited
<1>4. ASSUME NEW w \in Workers, Exit(w) PROVE JoinedHaveExited'
  BY <1>1, <1>4 DEF Exit, JoinedHaveExited
<1>5. ASSUME NEW w \in Workers, TaskEnds(w) PROVE JoinedHaveExited'
  <2>1. \A v \in Workers : worker'[v] = "exited" <=> worker[v] = "exited"
    BY <1>1, <1>5 DEF TaskEnds
  <2> QED
    BY <1>1, <1>5, <2>1 DEF TaskEnds, JoinedHaveExited, queueVars
<1>6. CASE Quiet
  <2>1. \A i \in 1 .. joined' : worker[i] = "exited"
    BY <1>1, <1>6 DEF Quiet, JoinsNext, JoinedHaveExited
  <2> QED
    BY <1>6, <2>1 DEF Quiet, JoinedHaveExited
<1> QED
  BY <1>2, <1>3, <1>4, <1>5, <1>6, PoolSteps

LEMMA NothingLeftOver == TypeOK /\ TaskInOnePlace /\ JoinedHaveExited => ShutdownDrains
<1> SUFFICES ASSUME TypeOK, TaskInOnePlace, JoinedHaveExited, ShutdownReturned
             PROVE  finished = 1 .. accepted /\ Running = {}
  BY DEF ShutdownDrains, JoinedHaveExited
<1>1. \A w \in Workers : worker[w] = "exited"
  BY DEF ShutdownReturned, JoinedHaveExited, Workers
<1>2. Running = {}
  BY <1>1 DEF Running
<1>3. 1 \in Workers
  BY PoolAssumption DEF Workers
<1>4. queue_ = <<>>
  BY <1>1, <1>3 DEF JoinedHaveExited
<1>5. accepted = taken
  <2>1. Len(queue_) = accepted - taken
    BY DEF TypeOK, TaskInOnePlace
  <2> QED
    BY <1>4, <2>1 DEF TypeOK
<1> QED
  BY <1>2, <1>5 DEF TaskInOnePlace

(* When shutdown() has returned, every task that was ever accepted has       *)
(* finished and no worker runs: "close the queue, workers drain remaining    *)
(* tasks, exit" (thread_pool.hpp:9, thread_pool.cpp:35-52).                  *)
THEOREM ShutdownLeavesNothing == Spec => []ShutdownDrains
<1>1. Init => JoinedHaveExited
  BY DEF Init, JoinedHaveExited
<1> QED
  BY <1>1, JoinedStep, NothingLeftOver, PoolTypeCorrect, TasksInOnePlace, PTL DEF Spec

-----------------------------------------------------------------------------
(* The pool that logs is the pool: waiting for room in the log delays its    *)
(* steps and adds none (thread_pool.cpp:39-70).                              *)
LEMMA LoggedStep == [LoggedNext]_allVars => [Next]_vars
<1> SUFFICES ASSUME [LoggedNext]_allVars PROVE Next \/ UNCHANGED vars
  OBVIOUS
<1>1. CASE Silent
  BY <1>1 DEF Silent, Next
<1>2. CASE BeginShutdown \/ ShutdownCloses
  BY <1>2 DEF BeginShutdown, ShutdownCloses, Next
<1>3. CASE \/ LogStarted \/ LogDraining \/ EndShutdown \/ LogFarewell \/ MainEnds
           \/ Writer \/ AllDone
  BY <1>3 DEF LogStarted, LogDraining, EndShutdown, LogFarewell, MainEnds, Writer,
              AllDone, allVars
<1>4. ASSUME NEW w \in Workers, WorkerTakesOrLeaves(w) PROVE Next
  BY <1>4 DEF WorkerTakesOrLeaves, Next
<1>5. ASSUME NEW w \in Workers, TaskReturns(w) \/ LogError(w) PROVE Next
  BY <1>5 DEF TaskReturns, LogError, Next
<1>6. ASSUME NEW w \in Workers, TaskThrows(w) PROVE UNCHANGED vars
  BY <1>6 DEF TaskThrows
<1>7. CASE UNCHANGED allVars
  BY <1>7 DEF allVars
<1> QED
  BY <1>1, <1>2, <1>3, <1>4, <1>5, <1>6, <1>7 DEF LoggedNext, OwnerGoesOn

(* Every run of the logging pool is one of the pool: what is proved of the   *)
(* pool (thread_pool.cpp:27-71) holds with the log too.                      *)
THEOREM LoggedPoolIsPool == LoggedSpec => Spec
<1>1. LoggedInit => Init
  BY DEF LoggedInit
<1> QED
  BY <1>1, LoggedStep, PTL DEF LoggedSpec, Spec

(* In particular no task is lost, repeated or left over by a pool whose      *)
(* workers stop to log (thread_pool.cpp:61-70).                              *)
THEOREM LoggedPoolDrains == LoggedSpec => [](TaskInOnePlace /\ ShutdownDrains)
BY LoggedPoolIsPool, TasksInOnePlace, ShutdownLeavesNothing, PTL

-----------------------------------------------------------------------------
(* The log.  A record is somewhere between the thread that logs it and the   *)
(* sinks, and the writer only moves it: `Logged' is all of them in order.    *)
Logged == written \o records

CountIn(s, record) == Cardinality({k \in DOMAIN s : s[k] = record})

ErrorOf(t) == <<"err", t>>

Record == ({"err"} \X Nat) \cup {Started, Draining, Stopped} \cup Farewells

\* What must have been reported: tasks that threw and are over
Reported == caught \cap finished

LogTyped ==
    /\ logger \in {"on", "closing", "off"}
    /\ records \in Seq(Record) /\ written \in Seq(Record)
    /\ main \in {"starting", "serving", "called", "closing", "joining", "joined",
                "leaving", "ending"}
    /\ caught \subseteq 1 .. taken

\* Nobody has a task for a pool that is starting, nobody is left to log when
\* the logger shuts down, and the logger is off only with an empty queue.
PhasesAgree ==
    /\ main = "starting" => accepted = 0
    /\ main \in {"joined", "leaving", "ending"} => closed_ /\ joined = NWorkers
    /\ logger # "on" => main = "ending"
    /\ logger = "off" => records = <<>>

\* How many records the owner has logged
OwnRecords ==
    IF main = "starting" THEN 0
    ELSE IF main \in {"serving", "called"} THEN 1
    ELSE IF main \in {"closing", "joining"} THEN 2
    ELSE IF main = "joined" THEN 3 ELSE 4

\* What has been logged is what has happened.
RecordsMatch ==
    /\ \A t \in Nat :
           CountIn(Logged, ErrorOf(t)) = IF t \in Reported THEN 1 ELSE 0
    /\ CountIn(Logged, Draining) =
           IF main \in {"starting", "serving", "called"} THEN 0 ELSE 1
    /\ Len(Logged) = Cardinality(Reported) + OwnRecords
    /\ main # "starting" => Logged[1] = Started
    /\ main = "joined" => Logged[Len(Logged)] = Stopped
    /\ main \in {"leaving", "ending"} =>
           Logged[Len(Logged) - 1] = Stopped /\ Logged[Len(Logged)] \in Farewells

LogInv == LogTyped /\ PhasesAgree /\ RecordsMatch

LEMMA CountFinite ==
    ASSUME NEW S, NEW s \in Seq(S), NEW x
    PROVE  IsFiniteSet({k \in DOMAIN s : s[k] = x}) /\ CountIn(s, x) \in Nat
<1>1. IsFiniteSet(1 .. Len(s)) /\ {k \in DOMAIN s : s[k] = x} \in SUBSET (1 .. Len(s))
  BY FS_Interval
<1> QED
  BY <1>1, FS_Subset, FS_CardinalityType DEF CountIn

LEMMA CountAppend ==
    ASSUME NEW S, NEW s \in Seq(S), NEW e \in S, NEW x
    PROVE  CountIn(Append(s, e), x) = CountIn(s, x) + IF e = x THEN 1 ELSE 0
<1> DEFINE at == {k \in DOMAIN s : s[k] = x}
           all == {k \in DOMAIN Append(s, e) : Append(s, e)[k] = x}
<1>1. IsFiniteSet(at) /\ CountIn(s, x) = Cardinality(at) /\ Cardinality(at) \in Nat
  BY CountFinite DEF CountIn
<1>2. /\ DOMAIN s = 1 .. Len(s) /\ Len(s) \in Nat
      /\ DOMAIN Append(s, e) = 1 .. (Len(s) + 1)
      /\ \A k \in 1 .. Len(s) : Append(s, e)[k] = s[k]
      /\ Append(s, e)[Len(s) + 1] = e
  OBVIOUS
<1>3. all = IF e = x THEN at \cup {Len(s) + 1} ELSE at
  BY <1>2
<1>4. Len(s) + 1 \notin at
  BY <1>2
<1> HIDE DEF at, all
<1>5. Cardinality(at \cup {Len(s) + 1}) = Cardinality(at) + 1
  BY <1>1, <1>4, FS_AddElement
<1>6. Cardinality(all) = Cardinality(at) + IF e = x THEN 1 ELSE 0
  BY <1>1, <1>3, <1>5
<1> QED
  BY <1>1, <1>6 DEF CountIn, all

-----------------------------------------------------------------------------
(* A call of the logger appends its record to those logged, and the writer   *)
(* and shutdown() leave them as they are (logger.cpp:55-66, :96-103).        *)
LEMMA LogAppends ==
    ASSUME LogLevel = "info", LogTyped, NEW level, NEW text, Log(level, text),
           level \in {"info", "err", "critical"}, <<level, text>> \in Record
    PROVE  /\ Logged' = Append(Logged, <<level, text>>)
           /\ logger = "on" /\ logger' = "on"
           /\ records' \in Seq(Record) /\ written' \in Seq(Record)
<1>1. records' = Append(records, <<level, text>>)
  BY DEF Log, Severity
<1>2. logger = "on" /\ UNCHANGED <<logger, written>>
  BY DEF Log
<1> DEFINE r == <<level, text>>
<1>3. r \in Record /\ records' = Append(records, r)
  BY <1>1
<1> HIDE DEF r
<1>4. /\ written \o Append(records, r) = Append(written \o records, r)
      /\ Append(records, r) \in Seq(Record)
  BY <1>3 DEF LogTyped
<1>5. Logged' = Append(Logged, r)
  BY <1>2, <1>3, <1>4 DEF Logged
<1> QED
  BY <1>2, <1>3, <1>4, <1>5 DEF r, LogTyped

LEMMA DebugDiscarded ==
    ASSUME LogLevel = "info", NEW text, Log("debug", text)
    PROVE  UNCHANGED loggerVars
BY DEF Log, Severity, loggerVars

LEMMA WriteMoves ==
    ASSUME LogTyped, Write
    PROVE  /\ UNCHANGED <<Logged, logger>>
           /\ records' \in Seq(Record) /\ written' \in Seq(Record) /\ records # <<>>
<1>1. /\ Append(written, Head(records)) \o Tail(records) = written \o records
      /\ Tail(records) \in Seq(Record) /\ Append(written, Head(records)) \in Seq(Record)
  BY DEF LogTyped, Write
<1> QED
  BY <1>1 DEF Write, Logged

\* The steps that log nothing and end no task that threw
Unlogged ==
    /\ UNCHANGED <<Logged, main>>
    /\ Reported' = Reported
    /\ closed_ => closed_'
    /\ main = "starting" => accepted' = accepted
    /\ joined = NWorkers => joined' = NWorkers
    /\ caught' \subseteq 1 .. taken'
    /\ records' \in Seq(Record) /\ written' \in Seq(Record)
    /\ logger' \in {"on", "closing", "off"}
    /\ logger' # "on" => logger # "on"
    /\ logger' = "off" => records' = <<>>

LEMMA UnloggedKeeps == LogInv /\ Unlogged => LogInv'
<1> SUFFICES ASSUME LogInv, Unlogged PROVE LogInv'
  OBVIOUS
<1>1. LogTyped'
  BY DEF LogInv, LogTyped, Unlogged
<1>2. PhasesAgree'
  BY DEF LogInv, PhasesAgree, Unlogged
<1>3. RecordsMatch'
  BY DEF LogInv, RecordsMatch, OwnRecords, Unlogged
<1> QED
  BY <1>1, <1>2, <1>3 DEF LogInv

LEMMA SilentPool ==
    ASSUME TypeOK
    PROVE  /\ Silent => /\ UNCHANGED <<finished, taken>>
                        /\ joined = NWorkers => joined' = NWorkers
                        /\ closed_ => closed_'
                        /\ main = "starting" => accepted' = accepted
           /\ \A w \in Workers :
                  WorkerPop(w) => /\ UNCHANGED <<finished, joined, closed_, accepted>>
                                  /\ 1 .. taken \subseteq 1 .. taken'
<1>1. ASSUME Silent
      PROVE  /\ UNCHANGED <<finished, taken>>
             /\ joined = NWorkers => joined' = NWorkers
             /\ closed_ => closed_'
             /\ main = "starting" => accepted' = accepted
  <2>1. ASSUME NEW c \in Clients, Submit(c) \/ SubmitStep(c) \/ TrySubmit(c)
        PROVE  UNCHANGED <<finished, taken, joined, closed_>>
    BY <2>1 DEF Submit, SubmitStep, TrySubmit, PushSleeps, PushRefused, PushEnqueues,
                Enqueue, TryPushRefused, TryPushEnqueues, queueVars
  <2>2. ASSUME NEW t \in Workers \cup Clients, Wake(t)
        PROVE  UNCHANGED <<finished, taken, joined, closed_, accepted>>
    BY <2>2 DEF Wake, SpuriousWake, poolVars
  <2>3. CASE Join
    BY <2>3, PoolAssumption DEF Join, queueVars
  <2> QED
    BY <1>1, <2>1, <2>2, <2>3 DEF Silent
<1>2. ASSUME NEW w \in Workers, WorkerPop(w)
      PROVE  /\ UNCHANGED <<finished, joined, closed_, accepted>>
             /\ 1 .. taken \subseteq 1 .. taken'
  <2>1. UNCHANGED <<finished, joined, closed_, accepted>>
    BY <1>2 DEF WorkerPop, PopSleeps, PopEnds, PopDequeues, Dequeue, queueVars
  <2>2. taken' = taken \/ taken' = taken + 1
    BY <1>2 DEF WorkerPop
  <2>3. taken \in Nat
    BY DEF TypeOK
  <2> QED
    BY <2>1, <2>2, <2>3
<1> QED
  BY <1>1, <1>2

LEMMA MostStepsUnlogged ==
    ASSUME LogLevel = "info", TypeOK, TaskInOnePlace, LogInv,
           \/ Silent \/ Writer \/ AllDone
           \/ \E w \in Workers : WorkerTakesOrLeaves(w) \/ TaskReturns(w) \/ TaskThrows(w)
    PROVE  Unlogged
<1>0. /\ LogTyped /\ PhasesAgree
      /\ caught \subseteq 1 .. taken
  BY DEF LogInv, LogTyped
<1>1. ASSUME UNCHANGED loggerVars
      PROVE  /\ UNCHANGED Logged
             /\ records' \in Seq(Record) /\ written' \in Seq(Record)
             /\ logger' \in {"on", "closing", "off"}
             /\ logger' # "on" => logger # "on"
             /\ logger' = "off" => records' = <<>>
  BY <1>0, <1>1 DEF loggerVars, LogTyped, PhasesAgree, Logged
<1>2. CASE Silent
  <2>1. UNCHANGED loggerVars /\ UNCHANGED <<caught, main>>
    BY <1>2 DEF Silent, Silently
  <2>2. /\ UNCHANGED <<finished, taken>>
        /\ joined = NWorkers => joined' = NWorkers
        /\ closed_ => closed_'
        /\ main = "starting" => accepted' = accepted
    BY <1>2, SilentPool
  <2>3. UNCHANGED Reported
    BY <2>1, <2>2 DEF Reported
  <2> QED
    BY <1>0, <1>1, <2>1, <2>2, <2>3 DEF Unlogged
<1>3. ASSUME NEW w \in Workers, WorkerTakesOrLeaves(w) PROVE Unlogged
  <2>1. UNCHANGED loggerVars /\ UNCHANGED <<caught, main>> /\ WorkerPop(w)
    BY <1>3, DebugDiscarded DEF WorkerTakesOrLeaves
  <2>2. /\ UNCHANGED <<finished, joined, closed_, accepted>>
        /\ 1 .. taken \subseteq 1 .. taken'
    BY <2>1, SilentPool
  <2>3. UNCHANGED Reported
    BY <2>1, <2>2 DEF Reported
  <2> QED
    BY <1>0, <1>1, <2>1, <2>2, <2>3 DEF Unlogged
<1>4. ASSUME NEW w \in Workers, TaskReturns(w) PROVE Unlogged
  <2>1. UNCHANGED loggerVars /\ UNCHANGED <<caught, main>>
    BY <1>4 DEF TaskReturns, Silently
  <2>2. /\ finished' = finished \cup {task[w]} /\ task[w] \notin caught
        /\ UNCHANGED <<accepted, closed_, taken, joined>>
    BY <1>4 DEF TaskReturns, TaskEnds, queueVars
  <2>3. UNCHANGED Reported
    BY <2>1, <2>2 DEF Reported
  <2> QED
    BY <1>0, <1>1, <2>1, <2>2, <2>3 DEF Unlogged
<1>5. ASSUME NEW w \in Workers, TaskThrows(w) PROVE Unlogged
  <2>1. /\ UNCHANGED loggerVars /\ UNCHANGED main
        /\ UNCHANGED <<finished, accepted, closed_, taken, joined>>
        /\ caught' = caught \cup {task[w]}
    BY <1>5 DEF TaskThrows, vars, queueVars, poolVars
  <2>2. task[w] \in 1 .. taken /\ task[w] \notin finished
    <3>1. w \in Running
      BY <1>5 DEF TaskThrows, Running
    <3> QED
      BY <3>1 DEF TaskInOnePlace
  <2>3. UNCHANGED Reported
    BY <2>1, <2>2 DEF Reported
  <2> QED
    BY <1>0, <1>1, <2>1, <2>2, <2>3 DEF Unlogged
<1>6. CASE Writer
  <2>1. UNCHANGED <<finished, accepted, closed_, taken, joined, caught, main>>
    BY <1>6 DEF Writer, vars, queueVars, poolVars
  <2>2. UNCHANGED Reported
    BY <2>1 DEF Reported
  <2>3. CASE Write
    BY <1>0, <2>1, <2>2, <2>3, WriteMoves DEF Unlogged, LogTyped, PhasesAgree
  <2>4. CASE WriterJoined
    <3>1. UNCHANGED Logged /\ UNCHANGED <<records, written>> /\ records = <<>>
      BY <2>4 DEF WriterJoined, Logged
    <3>2. logger' = "off" /\ logger # "on"
      BY <2>4 DEF WriterJoined
    <3> QED
      BY <1>0, <2>1, <2>2, <3>1, <3>2 DEF Unlogged, LogTyped
  <2> QED
    BY <1>6, <2>3, <2>4 DEF Writer
<1>7. CASE AllDone
  <2>1. UNCHANGED <<finished, accepted, closed_, taken, joined, caught, main>>
    BY <1>7 DEF AllDone, allVars, vars, queueVars, poolVars
  <2>2. UNCHANGED loggerVars /\ UNCHANGED Reported
    BY <1>7, <2>1 DEF AllDone, allVars, Reported
  <2> QED
    BY <1>0, <1>1, <2>1, <2>2 DEF Unlogged
<1> QED
  BY <1>2, <1>3, <1>4, <1>5, <1>6, <1>7

LEMMA LoggedIsSeq == LogTyped => Logged \in Seq(Record)
BY DEF LogTyped, Logged

LEMMA ReportedFinite ==
    ASSUME TypeOK, LogTyped
    PROVE  IsFiniteSet(Reported) /\ Cardinality(Reported) \in Nat
<1>1. taken \in Nat /\ Reported \in SUBSET (1 .. taken)
  BY DEF TypeOK, LogTyped, Reported
<1>2. IsFiniteSet(1 .. taken)
  BY <1>1, FS_Interval
<1> QED
  BY <1>1, <1>2, FS_Subset, FS_CardinalityType

(* A worker logs a task's exception and then the task is over: the record    *)
(* and the report come together, and not after the pool is joined.           *)
LEMMA LogErrorKeeps ==
    ASSUME LogLevel = "info", TypeOK, TaskInOnePlace, JoinedHaveExited, LogInv,
           NEW w \in Workers, LogError(w)
    PROVE  LogInv'
<1> DEFINE t == task[w]
           e == <<"err", t>>
<1>1. /\ t \in Nat /\ t \in 1 .. taken /\ t \notin finished /\ t \in caught
      /\ worker[w] = "run"
  <2>1. w \in Running /\ task[w] \in caught /\ worker[w] = "run"
    BY DEF LogError, Running
  <2> QED
    BY <2>1 DEF TaskInOnePlace, TypeOK
<1>2. /\ LogTyped /\ PhasesAgree /\ RecordsMatch
      /\ taken \in Nat
  BY DEF LogInv, TypeOK
<1>3. e \in Record
  BY <1>1 DEF Record
<1>4. Log("err", t)
  BY DEF LogError
<1>5. /\ UNCHANGED <<caught, main>> /\ finished' = finished \cup {t}
      /\ UNCHANGED <<taken, joined, closed_, accepted>>
  BY DEF LogError, TaskEnds, queueVars
<1> HIDE DEF t
<1>6. /\ Logged' = Append(Logged, e)
      /\ logger = "on" /\ logger' = "on"
      /\ records' \in Seq(Record) /\ written' \in Seq(Record)
  BY <1>2, <1>3, <1>4, LogAppends
<1>distinct. /\ \A s \in Nat : e = ErrorOf(s) <=> s = t
             /\ e # Draining
  BY DEF ErrorOf, Draining
<1> HIDE DEF e
<1>7. main \in {"serving", "called", "closing", "joining"}
  <2>1. joined # NWorkers
    BY <1>1 DEF JoinedHaveExited, Workers
  <2>2. accepted # 0
    BY <1>1, <1>2 DEF TaskInOnePlace, TypeOK
  <2> QED
    BY <1>2, <2>1, <2>2 DEF LogTyped, PhasesAgree
<1>8. Reported' = Reported \cup {t} /\ t \notin Reported
  BY <1>1, <1>5 DEF Reported
<1>9. Cardinality(Reported') = Cardinality(Reported) + 1 /\ Cardinality(Reported) \in Nat
  BY <1>2, <1>8, ReportedFinite, FS_AddElement
<1>10. LogTyped' /\ PhasesAgree'
  BY <1>2, <1>5, <1>6, <1>7 DEF LogTyped, PhasesAgree
<1>11. Logged \in Seq(Record) /\ Len(Append(Logged, e)) = Len(Logged) + 1
  BY <1>2, <1>3, LoggedIsSeq
<1>12. \A x : CountIn(Logged', x) = CountIn(Logged, x) + IF e = x THEN 1 ELSE 0
  BY <1>3, <1>6, <1>11, CountAppend
<1>13. \A s \in Nat : CountIn(Logged', ErrorOf(s)) = IF s \in Reported' THEN 1 ELSE 0
  <2> SUFFICES ASSUME NEW s \in Nat
               PROVE  CountIn(Logged', ErrorOf(s)) = IF s \in Reported' THEN 1 ELSE 0
    OBVIOUS
  <2>1. e = ErrorOf(s) <=> s = t
    BY <1>distinct
  <2>2. CountIn(Logged, ErrorOf(s)) = IF s \in Reported THEN 1 ELSE 0
    BY <1>2 DEF RecordsMatch
  <2> QED
    BY <1>8, <1>12, <2>1, <2>2
<1>14. CountIn(Logged', Draining) = CountIn(Logged, Draining)
  <2>1. CountIn(Logged, Draining) \in Nat
    BY <1>11, CountFinite
  <2> QED
    BY <1>12, <1>distinct, <2>1
<1>15. Len(Logged') = Cardinality(Reported') + OwnRecords'
  <2>1. Len(Logged) = Cardinality(Reported) + OwnRecords /\ OwnRecords \in Nat
    BY <1>2 DEF RecordsMatch, OwnRecords
  <2>2. OwnRecords' = OwnRecords
    BY <1>5 DEF OwnRecords
  <2>3. Len(Logged') = Len(Logged) + 1
    BY <1>6, <1>11
  <2> QED
    BY <1>9, <2>1, <2>2, <2>3
<1>16. Logged'[1] = Started
  <2>1. Logged[1] = Started /\ Len(Logged) >= 1
    BY <1>2, <1>7, <1>9, <1>11 DEF RecordsMatch, OwnRecords
  <2> QED
    BY <1>3, <1>6, <1>11, <2>1
<1>17. RecordsMatch'
  BY <1>2, <1>5, <1>7, <1>13, <1>14, <1>15, <1>16 DEF RecordsMatch
<1> QED
  BY <1>10, <1>17 DEF LogInv

(* A record of the owner is one more, and none of a task.                    *)
OwnersRecord == {Started, Draining, Stopped} \cup Farewells

LEMMA OwnerLogs ==
    ASSUME LogLevel = "info", TypeOK, LogInv, NEW e \in OwnersRecord, Says(e),
           UNCHANGED vars, UNCHANGED caught
    PROVE  /\ logger = "on" /\ logger' = "on"
           /\ records' \in Seq(Record) /\ written' \in Seq(Record)
           /\ UNCHANGED Reported /\ Cardinality(Reported) \in Nat
           /\ Len(Logged) \in Nat /\ Len(Logged') = Len(Logged) + 1
           /\ \A k \in 1 .. Len(Logged) : Logged'[k] = Logged[k]
           /\ Logged'[Len(Logged')] = e
           /\ \A t \in Nat :
                  CountIn(Logged', ErrorOf(t)) = IF t \in Reported' THEN 1 ELSE 0
           /\ CountIn(Logged', Draining) =
                  CountIn(Logged, Draining) + IF e = Draining THEN 1 ELSE 0
           /\ UNCHANGED <<taken, accepted, closed_, joined, finished>>
<1>1. LogTyped /\ PhasesAgree /\ RecordsMatch /\ e \in Record
  BY DEF LogInv, OwnersRecord, Record
<1>2. UNCHANGED <<taken, accepted, closed_, joined, finished>>
  BY DEF vars, queueVars, poolVars
<1>said. \E level \in {"info", "critical"} : \E text : e = <<level, text>>
  BY DEF OwnersRecord, Started, Draining, Stopped, Farewells
<1>level. PICK level \in {"info", "critical"} : \E text : e = <<level, text>>
  BY <1>said
<1>text. PICK text : e = <<level, text>>
  BY <1>level
<1>logs. Log(level, text) /\ <<level, text>> \in Record
  <2>1. e[1] = level /\ e[2] = text
    BY <1>text
  <2> QED
    BY <1>1, <1>text, <2>1 DEF Says
<1>3. /\ Logged' = Append(Logged, e)
      /\ logger = "on" /\ logger' = "on"
      /\ records' \in Seq(Record) /\ written' \in Seq(Record)
  BY <1>1, <1>text, <1>logs, LogAppends
<1>4. \A t \in Nat : e # ErrorOf(t)
  BY <1>text DEF ErrorOf
<1>5. /\ Logged \in Seq(Record)
      /\ Len(Logged) \in Nat /\ Len(Logged') = Len(Logged) + 1
      /\ \A k \in 1 .. Len(Logged) : Logged'[k] = Logged[k]
      /\ Logged'[Len(Logged')] = e
  BY <1>1, <1>3, LoggedIsSeq
<1>6. UNCHANGED Reported /\ Cardinality(Reported) \in Nat
  BY <1>1, <1>2, ReportedFinite DEF Reported
<1>7. \A x : CountIn(Logged', x) = CountIn(Logged, x) + IF e = x THEN 1 ELSE 0
  BY <1>1, <1>3, <1>5, CountAppend
<1>8. ASSUME NEW t \in Nat
      PROVE  CountIn(Logged', ErrorOf(t)) = IF t \in Reported' THEN 1 ELSE 0
  <2>1. CountIn(Logged, ErrorOf(t)) = IF t \in Reported THEN 1 ELSE 0
    BY <1>1 DEF RecordsMatch
  <2> QED
    BY <1>4, <1>6, <1>7, <2>1
<1> QED
  BY <1>2, <1>3, <1>5, <1>6, <1>7, <1>8

(* The pool's three records (thread_pool.cpp:20, :39, :51) and main()'s last *)
(* (main.cpp:144, :149).                                                     *)
LEMMA OwnerLogsKeep ==
    ASSUME LogLevel = "info", TypeOK, TaskInOnePlace, LogInv,
           LogStarted \/ LogDraining \/ EndShutdown \/ LogFarewell
    PROVE  LogInv'
<1>1. LogTyped /\ PhasesAgree /\ RecordsMatch
  BY DEF LogInv
<1>2. UNCHANGED vars /\ UNCHANGED caught
  BY DEF LogStarted, LogDraining, EndShutdown, LogFarewell, Advance
<1>3. /\ {Started, Draining, Stopped} \cup Farewells \subseteq OwnersRecord
      /\ Started # Draining /\ Stopped # Draining /\ Draining \notin Farewells
  BY DEF OwnersRecord, Started, Draining, Stopped, Farewells
<1>4. CountIn(Logged, Draining) \in Nat
  BY <1>1, LoggedIsSeq, CountFinite
<1>matched. /\ Len(Logged) = Cardinality(Reported) + OwnRecords
            /\ main # "starting" => Logged[1] = Started
  BY <1>1 DEF RecordsMatch
<1>5. CASE LogStarted
  <2>1. main = "starting" /\ main' = "serving" /\ Says(Started)
    BY <1>5 DEF LogStarted, Advance
  <2>2. OwnRecords = 0 /\ OwnRecords' = 1 /\ CountIn(Logged, Draining) = 0
    BY <1>1, <2>1 DEF RecordsMatch, OwnRecords
  <2>3. Reported = {}
    <3>1. taken \in Nat /\ accepted \in Nat /\ taken <= accepted
      BY DEF TaskInOnePlace, TypeOK
    <3>2. accepted = 0
      BY <1>1, <2>1 DEF PhasesAgree
    <3>3. 1 .. taken = {}
      BY <3>1, <3>2
    <3> QED
      BY <1>1, <3>3 DEF LogTyped, Reported
  <2>4. Len(Logged) = 0
    BY <1>matched, <2>2, <2>3, FS_EmptySet
  <2>5. LogTyped' /\ PhasesAgree'
    BY <1>1, <1>2, <1>3, <2>1, OwnerLogs DEF LogTyped, PhasesAgree
  <2>6. RecordsMatch'
    BY <1>2, <1>3, <1>matched, <2>1, <2>2, <2>4, OwnerLogs DEF RecordsMatch
  <2> QED
    BY <2>5, <2>6 DEF LogInv
<1>6. CASE LogDraining
  <2>1. main = "called" /\ main' = "closing" /\ Says(Draining)
    BY <1>6 DEF LogDraining, Advance
  <2>2. OwnRecords = 1 /\ OwnRecords' = 2 /\ CountIn(Logged, Draining) = 0
    BY <1>1, <2>1 DEF RecordsMatch, OwnRecords
  <2>3. LogTyped' /\ PhasesAgree'
    BY <1>1, <1>2, <1>3, <2>1, OwnerLogs DEF LogTyped, PhasesAgree
  <2>4. 1 \in 1 .. Len(Logged)
    BY <1>2, <1>3, <1>matched, <2>1, <2>2, OwnerLogs
  <2>5. RecordsMatch'
    BY <1>2, <1>3, <1>matched, <2>1, <2>2, <2>4, OwnerLogs DEF RecordsMatch
  <2> QED
    BY <2>3, <2>5 DEF LogInv
<1>7. CASE EndShutdown
  <2>1. main = "joining" /\ main' = "joined" /\ Says(Stopped) /\ ShutdownReturned
    BY <1>7 DEF EndShutdown, Advance
  <2>2. OwnRecords = 2 /\ OwnRecords' = 3 /\ CountIn(Logged, Draining) = 1
    BY <1>1, <2>1 DEF RecordsMatch, OwnRecords
  <2>3. LogTyped' /\ PhasesAgree'
    BY <1>1, <1>2, <1>3, <2>1, OwnerLogs DEF LogTyped, PhasesAgree, ShutdownReturned
  <2>4. 1 \in 1 .. Len(Logged)
    BY <1>2, <1>3, <1>matched, <2>1, <2>2, OwnerLogs
  <2>5. RecordsMatch'
    BY <1>2, <1>3, <1>matched, <2>1, <2>2, <2>4, OwnerLogs DEF RecordsMatch
  <2> QED
    BY <2>3, <2>5 DEF LogInv
<1>8. CASE LogFarewell
  <2>1. PICK farewell \in Farewells : Says(farewell)
    BY <1>8 DEF LogFarewell
  <2>2. main = "joined" /\ main' = "leaving" /\ farewell # Draining
    BY <1>3, <1>8 DEF LogFarewell, Advance
  <2>3. /\ OwnRecords = 3 /\ OwnRecords' = 4 /\ CountIn(Logged, Draining) = 1
        /\ Logged[Len(Logged)] = Stopped
    BY <1>1, <2>2 DEF RecordsMatch, OwnRecords
  <2>4. LogTyped' /\ PhasesAgree'
    BY <1>1, <1>2, <1>3, <2>1, <2>2, OwnerLogs DEF LogTyped, PhasesAgree
  <2>5. 1 \in 1 .. Len(Logged) /\ Len(Logged) \in 1 .. Len(Logged)
    BY <1>2, <1>3, <1>matched, <2>1, <2>2, <2>3, OwnerLogs
  <2>6. RecordsMatch'
    BY <1>2, <1>3, <1>matched, <2>1, <2>2, <2>3, <2>5, OwnerLogs DEF RecordsMatch
  <2> QED
    BY <2>4, <2>6 DEF LogInv
<1> QED
  BY <1>5, <1>6, <1>7, <1>8

LEMMA OwnerSilentKeeps ==
    ASSUME LogInv, BeginShutdown \/ ShutdownCloses \/ MainEnds
    PROVE  LogInv'
<1>1. LogTyped /\ PhasesAgree /\ RecordsMatch
  BY DEF LogInv
<1>2. /\ UNCHANGED <<caught, finished, taken, joined, accepted, records, written>>
      /\ closed_ => closed_'
  BY DEF BeginShutdown, ShutdownCloses, MainEnds, Advance, Shutdown, CloseQueue, Close,
         ShutdownLogger, vars, queueVars, poolVars, loggerVars
<1>3. \/ main = "serving" /\ main' = "called" /\ logger' = logger
      \/ main = "closing" /\ main' = "joining" /\ logger' = logger
      \/ main = "leaving" /\ main' = "ending" /\ logger' = "closing"
  BY DEF BeginShutdown, ShutdownCloses, MainEnds, Advance, ShutdownLogger, loggerVars
<1>4. UNCHANGED Logged /\ UNCHANGED Reported
  BY <1>2 DEF Logged, Reported
<1>5. UNCHANGED OwnRecords
  BY <1>3 DEF OwnRecords
<1>6. LogTyped' /\ PhasesAgree'
  BY <1>1, <1>2, <1>3 DEF LogTyped, PhasesAgree
<1>7. RecordsMatch'
  BY <1>1, <1>3, <1>4, <1>5 DEF RecordsMatch
<1> QED
  BY <1>6, <1>7 DEF LogInv

-----------------------------------------------------------------------------
LEMMA LogInit == LoggedInit => LogInv
<1> SUFFICES ASSUME LoggedInit PROVE LogInv
  OBVIOUS
<1>1. /\ logger = "on" /\ records = <<>> /\ written = <<>>
      /\ caught = {} /\ main = "starting" /\ accepted = 0
  BY DEF LoggedInit, LoggerInit, Init
<1>2. Logged = <<>> /\ Reported = {} /\ OwnRecords = 0
  BY <1>1 DEF Logged, Reported, OwnRecords
<1>3. \A x : CountIn(Logged, x) = 0
  <2>1. \A x : {k \in DOMAIN <<>> : <<>>[k] = x} = {}
    OBVIOUS
  <2> QED
    BY <1>2, <2>1, FS_EmptySet DEF CountIn
<1>4. LogTyped /\ PhasesAgree
  BY <1>1 DEF LogTyped, PhasesAgree
<1>5. RecordsMatch
  BY <1>1, <1>2, <1>3, FS_EmptySet DEF RecordsMatch
<1> QED
  BY <1>4, <1>5 DEF LogInv

LEMMA LogStep ==
    ASSUME LogLevel = "info", TypeOK, TaskInOnePlace, JoinedHaveExited, LogInv,
           [LoggedNext]_allVars
    PROVE  LogInv'
<1>1. CASE UNCHANGED allVars
  <2>1. UNCHANGED <<finished, accepted, closed_, taken, joined, caught, main,
                    logger, records, written>>
    BY <1>1 DEF allVars, vars, queueVars, poolVars, loggerVars
  <2>2. UNCHANGED Logged /\ UNCHANGED Reported
    BY <2>1 DEF Logged, Reported
  <2>3. Unlogged
    BY <2>1, <2>2 DEF LogInv, LogTyped, PhasesAgree, Unlogged
  <2> QED
    BY <2>3, UnloggedKeeps
<1>2. CASE LoggedNext
  <2>1. CASE \/ Silent \/ Writer \/ AllDone
             \/ \E w \in Workers :
                    WorkerTakesOrLeaves(w) \/ TaskReturns(w) \/ TaskThrows(w)
    BY <1>2, <2>1, MostStepsUnlogged, UnloggedKeeps
  <2>2. ASSUME NEW w \in Workers, LogError(w) PROVE LogInv'
    BY <2>2, LogErrorKeeps
  <2>3. CASE LogStarted \/ LogDraining \/ EndShutdown \/ LogFarewell
    BY <2>3, OwnerLogsKeep
  <2>4. CASE BeginShutdown \/ ShutdownCloses \/ MainEnds
    BY <2>4, OwnerSilentKeeps
  <2> QED
    BY <1>2, <2>1, <2>2, <2>3, <2>4 DEF LoggedNext, OwnerGoesOn
<1> QED
  BY <1>1, <1>2

LEMMA LogInvSuffices ==
    TypeOK /\ TaskInOnePlace /\ ShutdownDrains /\ LogInv => RecordsWritten
<1> SUFFICES ASSUME TypeOK, TaskInOnePlace, ShutdownDrains, LogInv PROVE RecordsWritten
  OBVIOUS
<1>1. LogTyped /\ PhasesAgree /\ RecordsMatch
  BY DEF LogInv
<1>2. ASSUME logger # "on"
      PROVE  main = "ending" /\ finished = 1 .. accepted /\ Running = {}
  <2>1. main = "ending" /\ closed_ /\ joined = NWorkers
    BY <1>1, <1>2 DEF PhasesAgree
  <2> QED
    BY <2>1 DEF ShutdownReturned, ShutdownDrains
<1>3. ASSUME logger = "off"
      PROVE  /\ \A t \in caught : Occurs(<<"err", t>>) = 1
             /\ Len(written) = Cardinality(caught) + 4
             /\ Head(written) = Started
             /\ Occurs(Draining) = 1
             /\ written[Len(written) - 1] = Stopped
             /\ Last(written) \in Farewells
  <2>1. main = "ending" /\ finished = 1 .. accepted
    BY <1>2, <1>3
  <2>2. Logged = written
    BY <1>1, <1>3 DEF PhasesAgree, LogTyped, Logged
  <2>3. taken \in Nat /\ accepted \in Nat /\ taken <= accepted /\ caught \subseteq 1 .. taken
    BY <1>1 DEF TypeOK, TaskInOnePlace, LogTyped
  <2>4. Reported = caught /\ caught \subseteq Nat
    <3>1. \A i \in 1 .. taken : i \in 1 .. accepted /\ i \in Nat
      BY <2>3
    <3> QED
      BY <2>1, <2>3, <3>1 DEF Reported
  <2>5. \A x : Occurs(x) = CountIn(Logged, x)
    BY <2>2 DEF Occurs, CountIn
  <2>6. ASSUME NEW t \in caught PROVE Occurs(<<"err", t>>) = 1
    <3>1. CountIn(Logged, ErrorOf(t)) = 1
      BY <1>1, <2>4 DEF RecordsMatch
    <3>2. ErrorOf(t) = <<"err", t>>
      BY DEF ErrorOf
    <3> QED
      BY <2>5, <3>1, <3>2
  <2>7. \A t \in caught : Occurs(<<"err", t>>) = 1
    BY <2>6, Zenon
  <2>8. /\ Len(written) = Cardinality(caught) + 4
        /\ written[1] = Started
        /\ written[Len(written) - 1] = Stopped
        /\ Last(written) \in Farewells
    BY <1>1, <2>1, <2>2, <2>4 DEF RecordsMatch, OwnRecords, Last
  <2>9. Head(written) = Started
    BY <1>1, <2>8 DEF LogTyped
  <2>10. Occurs(Draining) = 1
    BY <1>1, <2>1, <2>5 DEF RecordsMatch
  <2> QED
    BY <2>7, <2>8, <2>9, <2>10
<1> QED
  BY <1>2, <1>3 DEF RecordsWritten

(* When main() has ended every exception a worker caught has been written    *)
(* once, the pool's three records and main()'s last too, none doubled, the   *)
(* pool's start before the others, its end after all errors and main()'s     *)
(* record at the very end; nobody logs to a logger that is shutting down.    *)
(* The level is the one main.cpp gives (main.cpp:71, :140-151;               *)
(* thread_pool.cpp:20-71).                                                   *)
THEOREM NoRecordLost ==
    ASSUME LogLevel = "info"
    PROVE  LoggedSpec => []RecordsWritten
<1>1. /\ TypeOK /\ TaskInOnePlace /\ JoinedHaveExited /\ LogInv /\ [LoggedNext]_allVars
      => LogInv'
  BY LogStep
<1>2. Init => JoinedHaveExited
  BY DEF Init, JoinedHaveExited
<1>3. LoggedSpec => [](TypeOK /\ TaskInOnePlace /\ JoinedHaveExited /\ ShutdownDrains)
  BY <1>2, JoinedStep, NothingLeftOver, LoggedPoolIsPool, PoolTypeCorrect,
     TasksInOnePlace, ShutdownLeavesNothing, PTL DEF Spec
<1> QED
  BY <1>1, <1>3, LogInit, LogInvSuffices, PTL DEF LoggedSpec

=============================================================================
