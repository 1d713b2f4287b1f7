----------------------------- MODULE ThreadPool -----------------------------
(***************************************************************************)
(* cppws::core::ThreadPool (src/core/thread_pool.cpp): NWorkers threads    *)
(* that drain one TaskQueue, client threads that submit to it, and the     *)
(* thread that owns the pool and shuts it down.  shutdown_called_ has no   *)
(* lock, so only the owner calls shutdown(); the clients may be submitting *)
(* while it does.                                                          *)
(*                                                                         *)
(* A task is the number of its place in the order of acceptance.  It may   *)
(* return or throw, and it ends: nothing here can make it do so.           *)
(***************************************************************************)
EXTENDS TaskQueue, FiniteSets

CONSTANTS
    NWorkers,                   \* n_threads, after the fallbacks of the constructor
    Clients,
    MaxTasks                    \* bound: no submission starts after this many tasks

Workers == 1 .. NWorkers        \* workers_, in the order shutdown() joins them

ASSUME PoolAssumption ==
    /\ NWorkers \in Nat \ {0}
    /\ Clients \cap Workers = {}
    /\ MaxTasks \in Nat

VARIABLES
    worker,                     \* where worker_loop() is: "pop", "run" or "exited"
    task,                       \* the task a running worker executes
    client,                     \* "idle", or blocked inside submit()
    accepted,                   \* tasks the queue took
    taken,                      \* tasks a worker took
    finished,                   \* tasks that returned or threw
    shutdown_called_,
    joined                      \* workers joined by shutdown() so far

poolVars == <<worker, task, client, accepted, taken, finished, shutdown_called_, joined>>
vars == <<queueVars, poolVars>>

Init ==
    /\ QueueInit
    /\ worker = [w \in Workers |-> "pop"]
    /\ task = [w \in Workers |-> 0]
    /\ client = [c \in Clients |-> "idle"]
    /\ accepted = 0 /\ taken = 0 /\ finished = {}
    /\ shutdown_called_ = FALSE
    /\ joined = 0

-----------------------------------------------------------------------------
(* submit(): push() and ignore its result; try_submit() *)

Accepts == accepted' = accepted + 1

Submit(c) ==
    /\ client[c] = "idle" /\ accepted < MaxTasks
    /\ client' = [client EXCEPT ![c] = "submit"]
    /\ UNCHANGED <<queueVars, worker, task, accepted, taken, finished,
                   shutdown_called_, joined>>

SubmitStep(c) ==
    /\ client[c] = "submit"
    /\ \/ PushSleeps(c) /\ UNCHANGED <<client, accepted>>
       \/ /\ \/ PushRefused(c) /\ UNCHANGED accepted
             \/ PushEnqueues(c, accepted + 1) /\ Accepts
          /\ client' = [client EXCEPT ![c] = "idle"]
    /\ UNCHANGED <<worker, task, taken, finished, shutdown_called_, joined>>

TrySubmit(c) ==
    /\ client[c] = "idle" /\ accepted < MaxTasks
    /\ \/ TryPushRefused /\ UNCHANGED accepted
       \/ TryPushEnqueues(accepted + 1) /\ Accepts
    /\ UNCHANGED <<worker, task, client, taken, finished, shutdown_called_, joined>>

-----------------------------------------------------------------------------
(* worker_loop() *)

WorkerPop(w) ==
    /\ worker[w] = "pop"
    /\ \/ PopSleeps(w) /\ UNCHANGED <<worker, task, taken>>
       \/ /\ PopEnds(w)
          /\ worker' = [worker EXCEPT ![w] = "exited"]
          /\ UNCHANGED <<task, taken>>
       \/ /\ PopDequeues(w)
          /\ worker' = [worker EXCEPT ![w] = "run"]
          /\ task' = [task EXCEPT ![w] = Head(queue_)]
          /\ taken' = taken + 1
    /\ UNCHANGED <<client, accepted, finished, shutdown_called_, joined>>

\* The task returns, or throws and is caught; either way the loop goes on.
TaskEnds(w) ==
    /\ worker[w] = "run"
    /\ worker' = [worker EXCEPT ![w] = "pop"]
    /\ finished' = finished \cup {task[w]}
    /\ UNCHANGED <<queueVars, task, client, accepted, taken, shutdown_called_, joined>>

-----------------------------------------------------------------------------
(* shutdown(): set the flag, close the queue, then join the workers one     *)
(* after the other.  A second call (the destructor's) returns at once.      *)

Shutdown ==
    /\ ~shutdown_called_
    /\ shutdown_called_' = TRUE
    /\ UNCHANGED <<queueVars, worker, task, client, accepted, taken, finished, joined>>

\* The pool writes a record between the two (LoggedPool), so clients and
\* workers go on with a flag that is set and a queue that is open.
CloseQueue ==
    /\ shutdown_called_ /\ ~closed_
    /\ Close
    /\ UNCHANGED poolVars

\* shutdown() is past close().
Join ==
    /\ closed_ /\ joined < NWorkers
    /\ worker[joined + 1] = "exited"
    /\ joined' = joined + 1
    /\ UNCHANGED <<queueVars, worker, task, client, accepted, taken, finished,
                   shutdown_called_>>

Wake(t) == SpuriousWake(t) /\ UNCHANGED poolVars

ShutdownReturned == closed_ /\ joined = NWorkers

\* The pool is down and its clients are done: nothing has to happen any more.
Terminated ==
    /\ ShutdownReturned /\ \A c \in Clients : client[c] = "idle"
    /\ UNCHANGED vars

Next ==
    \/ \E c \in Clients : Submit(c) \/ SubmitStep(c) \/ TrySubmit(c)
    \/ \E w \in Workers : WorkerPop(w) \/ TaskEnds(w)
    \/ Shutdown \/ CloseQueue \/ Join
    \/ \E t \in Workers \cup Clients : Wake(t)
    \/ Terminated

Spec == Init /\ [][Next]_vars

\* Threads that can run do run, tasks end, and a started shutdown() goes on;
\* nobody is obliged to submit or to shut down.
Fairness ==
    /\ \A c \in Clients : WF_vars(SubmitStep(c))
    /\ \A w \in Workers : WF_vars(WorkerPop(w)) /\ WF_vars(TaskEnds(w))
    /\ WF_vars(CloseQueue) /\ WF_vars(Join)

FairSpec == Spec /\ Fairness

-----------------------------------------------------------------------------
Running == {w \in Workers : worker[w] = "run"}

(* Types.  Only threads inside pop() and push() sleep, and only shutdown()  *)
(* has closed the queue.                                                    *)
TypeOK ==
    /\ queue_ \in Seq(Nat)
    /\ Len(queue_) <= Capacity
    /\ closed_ \in BOOLEAN
    /\ worker \in [Workers -> {"pop", "run", "exited"}]
    /\ task \in [Workers -> Nat]
    /\ client \in [Clients -> {"idle", "submit"}]
    /\ accepted \in Nat /\ taken \in Nat /\ finished \subseteq Nat
    /\ shutdown_called_ \in BOOLEAN /\ (closed_ => shutdown_called_)
    /\ joined \in 0 .. NWorkers
    /\ not_empty_ \subseteq {w \in Workers : worker[w] = "pop"}
    /\ not_full_ \subseteq {c \in Clients : client[c] = "submit"}

\* Every accepted task is in exactly one place: in the queue, in the hands of
\* one worker, or finished; and they are handed out in the order of their
\* acceptance.  No task is lost or run twice, whoever throws and whenever the
\* pool is shut down (thread_pool.cpp:27-71).
TaskInOnePlace ==
    /\ taken <= accepted
    /\ queue_ = [i \in 1 .. (accepted - taken) |-> taken + i]
    /\ finished \cup {task[w] : w \in Running} = 1 .. taken
    /\ \A w \in Running : task[w] \notin finished
    /\ \A v, w \in Running : task[v] = task[w] => v = w

\* "Graceful shutdown: close the queue, workers drain remaining tasks, exit"
\* (thread_pool.hpp:9).  No worker leaves while a task is queued, so when
\* shutdown() has returned every accepted task has finished and nothing runs.
ShutdownDrains ==
    /\ (\E w \in Workers : worker[w] = "exited") => closed_ /\ queue_ = <<>>
    /\ ShutdownReturned => finished = 1 .. accepted /\ Running = {}

\* An accepted task is run to its end even if no shutdown ever comes and no
\* further task arrives to wake a worker (notify_one of push/try_push).
AcceptedTaskFinishes ==
    \A i \in 1 .. (MaxTasks + Cardinality(Clients)) :
        (accepted >= i) ~> (i \in finished)

=============================================================================
