----------------------------- MODULE LoggedPool -----------------------------
(***************************************************************************)
(* The thread pool with the log it writes, from its constructor to the end *)
(* of main(): the workers report tasks that throw; the owner of the pool   *)
(* (the event loop's thread) reports that it has started, the beginning    *)
(* and the end of shutdown(), and the end of main(), and then shuts the    *)
(* logger down (src/core/thread_pool.cpp, src/main.cpp).                   *)
(*                                                                         *)
(* Every step is a step of ThreadPool, of the logger, or of both: whoever  *)
(* logs waits while the log's queue is full, and what waits for him too.   *)
(* What main() logs before there is a pool, and what the event loop and    *)
(* the handlers log while it runs, is left out.                            *)
(***************************************************************************)
EXTENDS ThreadPool, Logger, SequencesExt

VARIABLES
    caught,                     \* tasks whose exception a worker has caught
    main                        \* how far the pool's owner is

allVars == <<vars, loggerVars, caught, main>>

LoggedInit == Init /\ LoggerInit /\ caught = {} /\ main = "starting"

\* The owner's records: three of the pool, and the last of main(), which
\* depends on how the event loop ended.
Started == <<"info", "ThreadPool started">>
Draining == <<"info", "ThreadPool shutting down">>
Stopped == <<"info", "ThreadPool stopped">>
Farewells == {<<"info", "cppws stopped">>, <<"critical", "Fatal">>}

\* A worker's last record is LOG_DEBUG.
WorkerTakesOrLeaves(w) ==
    /\ WorkerPop(w)
    /\ IF worker'[w] = "exited" THEN Log("debug", w) ELSE UNCHANGED loggerVars
    /\ UNCHANGED <<caught, main>>

\* What the pool does without a word.
Silently == UNCHANGED <<loggerVars, caught, main>>

\* Nobody has the pool before its constructor returns.
Silent ==
    /\ \/ main # "starting" /\ \E c \in Clients : Submit(c) \/ SubmitStep(c) \/ TrySubmit(c)
       \/ \E t \in Workers \cup Clients : Wake(t)
       \/ Join
    /\ Silently

TaskReturns(w) ==
    /\ worker[w] = "run" /\ task[w] \notin caught
    /\ TaskEnds(w)
    /\ Silently

TaskThrows(w) ==
    /\ worker[w] = "run" /\ task[w] \notin caught
    /\ caught' = caught \cup {task[w]}
    /\ UNCHANGED <<vars, loggerVars, main>>

\* The catch clause logs, and worker_loop() goes on.
LogError(w) ==
    /\ worker[w] = "run" /\ task[w] \in caught
    /\ Log("err", task[w])
    /\ TaskEnds(w)
    /\ UNCHANGED <<caught, main>>

Advance(from, to) == main = from /\ main' = to /\ UNCHANGED caught

Says(record) == Log(record[1], record[2])

\* The constructor has made the threads and logs.
LogStarted == Advance("starting", "serving") /\ Says(Started) /\ UNCHANGED vars

\* shutdown() sets its flag, logs, and only then closes the queue ...
BeginShutdown == Advance("serving", "called") /\ Shutdown /\ UNCHANGED loggerVars

LogDraining == Advance("called", "closing") /\ Says(Draining) /\ UNCHANGED vars

ShutdownCloses == Advance("closing", "joining") /\ CloseQueue /\ UNCHANGED loggerVars

\* ... joins the workers, and logs again.
EndShutdown ==
    /\ Advance("joining", "joined") /\ ShutdownReturned
    /\ Says(Stopped)
    /\ UNCHANGED vars

\* The loop and its pool are gone; main() logs how it ends ...
LogFarewell ==
    /\ Advance("joined", "leaving")
    /\ \E farewell \in Farewells : Says(farewell)
    /\ UNCHANGED vars

\* ... and shuts the logger down.
MainEnds == Advance("leaving", "ending") /\ ShutdownLogger /\ UNCHANGED vars

Writer == (Write \/ WriterJoined) /\ UNCHANGED <<vars, caught, main>>

AllDone == logger = "off" /\ Terminated /\ UNCHANGED allVars

\* What the owner does without being asked.
OwnerGoesOn ==
    LogStarted \/ LogDraining \/ ShutdownCloses \/ EndShutdown \/ LogFarewell \/ MainEnds

LoggedNext ==
    \/ Silent \/ BeginShutdown \/ OwnerGoesOn \/ Writer \/ AllDone
    \/ \E w \in Workers :
           WorkerTakesOrLeaves(w) \/ TaskReturns(w) \/ TaskThrows(w) \/ LogError(w)

\* As in ThreadPool; a task ends by returning or by throwing, the log's writer
\* writes, and a started shutdown() goes on.
LoggedFairness ==
    /\ \A c \in Clients : WF_allVars(SubmitStep(c) /\ Silently)
    /\ \A w \in Workers :
           /\ WF_allVars(WorkerTakesOrLeaves(w))
           /\ WF_allVars(TaskReturns(w) \/ TaskThrows(w) \/ LogError(w))
    /\ WF_allVars(Join /\ Silently)
    /\ WF_allVars(OwnerGoesOn)
    /\ WF_allVars(Writer)

LoggedSpec == LoggedInit /\ [][LoggedNext]_allVars /\ LoggedFairness

-----------------------------------------------------------------------------
\* "Flush all pending log records and shut down the async thread pool"
\* (logger.hpp:72).  Of the records of the pool and the last of main(), none is
\* missing, doubled or out of its place when main() has ended: every exception a
\* worker caught has been reported once, although workers log until the pool is
\* joined; the pool's start comes before all others, its end and then main()'s
\* last after them.  And nobody logs to a logger that is shutting down
\* (thread_pool.cpp:20-71, main.cpp:140-151).
Occurs(record) == Cardinality({k \in DOMAIN written : written[k] = record})

RecordsWritten ==
    /\ logger # "on" => Running = {}
    /\ logger = "off" =>
           /\ \A t \in caught : Occurs(<<"err", t>>) = 1
           /\ Len(written) = Cardinality(caught) + 4
           /\ Head(written) = Started
           /\ Occurs(Draining) = 1
           /\ written[Len(written) - 1] = Stopped
           /\ Last(written) \in Farewells

\* A shutdown() that was called returns and main() ends, although its threads
\* wait for room in the log, at thread_pool.cpp:39 before the queue is even
\* closed; and a client blocked in submit() is let go.
ShutdownReturns ==
    /\ shutdown_called_ ~> (logger = "off")
    /\ \A c \in Clients :
           (shutdown_called_ /\ client[c] = "submit") ~> (client[c] = "idle")

=============================================================================
