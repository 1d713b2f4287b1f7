# cppws: a verification project

TLA+ models, model-checking runs and machine-checked proofs for the cppws web
server: an edge-triggered epoll reactor on one thread, a pool of worker threads
that run the HTTP handlers, and two bounded queues between them.

Source paths below are relative to the repository (`src/core/...` are the
sources, `include/core/...` the headers). `PROJECT.json` holds the same
information for tools: components, runs, the map from every definition to the
lines it models, mutants, hazards, findings and theorems.

## 1. The system

```
 clients --TCP--> listening socket, sockets, epoll (ET) ---> EventLoop::run()   (one thread)
                                                            |  accept, on_readable, parser
                                    thread_pool_.submit()   v
                              TaskQueue<Task>  ------------>  worker_loop()     (N threads)
                                                            |  router, handlers
                        pending_writes_.push() + eventfd    v
                              TaskQueue<PendingWrite> ----> drain_pending_writes(), flush_write
 signal_handler --- running_ = false --->  EventLoop::run()
```

| component | state | operations | talks to |
|---|---|---|---|
| `TaskQueue` (`core/task_queue.hpp`) | deque, `closed_`, mutex, two condition variables | `push`, `try_push`, `pop`, `try_pop`, `close` | any number of threads |
| `ThreadPool` (`core/thread_pool.cpp`) | workers, a `TaskQueue`, `shutdown_called_` | `submit`, `try_submit`, `shutdown`, `worker_loop` | its queue; runs arbitrary tasks |
| `EventLoop` (`core/event_loop.cpp`) | `connections_`, `pending_writes_`, `thread_pool_`, `running_`, eventfd | the constructor, `run`, `stop`, `post_response`, accept, drain, dispatch of an event | everything below, workers, signals |
| `Connection` (`net/connection.cpp`) | socket, `state_`, read and write buffers, a sendfile in progress, `keep_alive_` | `on_readable`, `on_closed`, `enqueue_write`, `begin_sendfile`, `flush_write` | kernel; its callbacks |
| `Epoll`, `Socket` (`net/`) | descriptors, registrations | creation; `add`, `modify`, `remove`, `wait`; options, `bind`, `listen`, `accept`, `close` | kernel |
| callbacks and tasks (`main.cpp`) | a parser per connection | read callback, the submitted task, `signal_handler` | parser, router, loop |
| `HttpParser` (`http/parser.cpp`) | parse state, partial line, remaining body | `feed`, `take_result`, `reset` | read callback |
| `Buffer` (`net/buffer.cpp`) | array, read and write index | `commit_write`, `consume`, `compact`, `reserve` | `Connection` |
| `Router`, `StaticFileHandler`, MIME table (`http/`) | constant after start-up | `dispatch`, `serve_file`, `resolve`, `mime_type` | handlers, file system |
| `HttpRequest`, `HttpResponse` (`http/`) | headers, body, a file descriptor | `content_length`, `wants_keep_alive`, `serialize`, `take_sendfile_fd` | parser, tasks |
| `Logger` (`util/logger.cpp`) | a bounded queue of records and the thread that writes them | `init`, `LOG_...`, `shutdown` | every thread; spdlog |

### What is hard here, and what must be true

- **TaskQueue.** Wakeups: one `notify_one` per push and pop, several sleepers,
  `try_*` callers and spurious wakeups that overtake them, and a `close()` at any
  moment. Must be: FIFO, bounded, nobody asleep while there is work for him,
  everybody out after `close()`.
- **ThreadPool.** Throwing tasks, shutdown during submission. Must be: every
  accepted task runs once, in order; shutdown drains and returns.
- **EventLoop and Connection.** Edge triggering (an edge missed is never
  repeated), the eventfd protocol, connections dying between any two steps,
  descriptors whose numbers are reused, partial writes, a file descriptor that
  changes hands four times, and two threads blocking on each other's queues.
  Must be: the table and epoll agree, no input, output or posted response is
  forgotten, files are closed exactly once while the loop lives, clients receive what they asked
  for, `stop()` ends the server.
- **HttpParser, Buffer.** Input cut anywhere; indices at the ends of an array.
- **Start-up and end.** A dozen system calls, each of which can fail when other
  parts already run; clients that connect between `listen()` and the listening
  socket's registration; a signal before `run()`. Must be: whatever fails,
  workers are joined and the process ends; no early client is overlooked.
- **Logger.** Its queue blocks when it is full, also a worker in its catch clause
  and the thread inside `shutdown()`. Must be: the pool still ends, and no
  record is lost at the end of `main()`.
- **Router, MIME, static files.** Pure look-ups with boundary cases; a file
  system that changes between two calls.

`PROJECT.json` lists each hazard at its line with the properties that cover it.

## 2. The modules

| module | what it is |
|---|---|
| `TaskQueue` | the queue as an object: its fields and one operator per critical section of each method. A condition variable is the set of threads asleep on it; `notify_one` removes any one of them; `Close` empties both sets |
| `TaskQueueMPMC` | a queue and threads that may call any method at any time; items are numbered as they enter |
| `BoundedQueue` | the abstract queue: no mutex, no sleepers; a blocking call returns in one step when it can |
| `TaskQueueProofs` | the theorems about `TaskQueueMPMC` |
| `ThreadPool` | workers, clients and the owner of a pool on a detailed `TaskQueue` |
| `Logger` | the logger as an object: level, queue, writer, `shutdown()` |
| `LoggedPool` | `ThreadPool` and `Logger` together, up to the end of `main()` |
| `ThreadPoolProofs` | the theorems about `ThreadPool` and `LoggedPool` |
| `Connection` | the write side of a connection as operators from connection to connection; `FlushWrite` is `flush_write` |
| `HttpService` | the abstract server: clients ask and receive the answers in order until somebody stops it |
| `EventLoop` | the whole server: start-up, loop thread, callbacks of `main.cpp`, workers, connections, clients, sockets, epoll, eventfd, signal; shown to implement `HttpService` |
| `EventLoopTableProofs` | no posted response goes unnoticed; the types; table, sockets and epoll agree; no edge and no waiting connection is forgotten |
| `EventLoopRequestProofs` | one place for each request, one owner for each file, the units of a response in order |
| `EventLoopServiceProofs` | the server implements the safety part of `HttpService` |
| `HttpParser` | the incremental parser, fed by the read callback with a client's messages in pieces; and what a message means as a whole, as the reference |
| `HttpParserProofs` | the types; no request beyond the limits reaches a handler, and none without its body |
| `Buffer` | the byte buffer's methods as operators from buffer to buffer, under any sequence of legal calls, and the loop of `enqueue_write` |
| `BufferProofs` | the theorems about `Buffer` |
| `Router` | the router's routes and its two passes, as operators |
| `Mime` | the binary search of `mime_type()`, one turn of `std::lower_bound` per step |
| `RequestTask` | the task a worker runs for a request: `Router`, the static file handler call by call, `Mime`, in a file system that others change |
| `RequestTaskProofs` | the types, no descriptor is lost, the router's choice, the right answer, and what the search of the table depends on |
| `MCEventLoop`, `MCHttpParser`, `MCMime`, `MCRequestTask` | for TLC: the clients' scripts, messages of each kind, the table of `mime.cpp`, a small tree with routes and requests |

**TaskQueue.** Each method runs under `mutex_`, so a critical section is one
step. A `push()` on a full queue is `PushSleeps` (predicate false: `wait`
releases the mutex and sleeps); after a wakeup it evaluates the predicate again,
which is `PushSleeps`, `PushRefused` or `PushEnqueues`. `pop()` is the same.
`SpuriousWake` wakes any sleeper at any time. The code notifies while it holds
the mutex, so push-and-notify is one step.

**ThreadPool.** `worker_loop` alternates `WorkerPop` and `TaskEnds`; a task that
throws is caught and ends like any other. `Shutdown` sets the flag, `CloseQueue`
closes the queue (the code logs in between, and may have to wait for that), `Join`
joins the workers one by one. `shutdown_called_` is not protected
by anything, so only one thread, the owner, calls `shutdown()`. `MaxTasks` bounds
the number of submissions.

**Logger, LoggedPool.** `init()` sets a bounded queue with
`async_overflow_policy::block`, so `Log` is a step that waits for room, or
nothing if the record is below the level. `LoggedPool` joins each record to the
step of the pool that writes it (`LogError` to the end of a task that threw) or
makes it a step of its own where the code does nothing else there, so a thread
that waits for the log holds up the pool:

| code | actions |
|---|---|
| the end of the pool's constructor | `LogStarted` |
| `shutdown()` | `BeginShutdown` (the flag), `LogDraining`, `ShutdownCloses`, `Join`, `EndShutdown` |
| the end of `main()`, either way | `LogFarewell` ("cppws stopped" or "Fatal"), `MainEnds` (`Logger::shutdown()`) |

What is left out are the records of the event loop and the handlers, and the one
with which `main()` starts. `RecordsWritten` is about the others.

**EventLoop.** The loop thread is a program counter `pc`. An action ends where
somebody else can get in between: a blocking push (`Submit`, `PostError`), and
between two system calls. So `on_readable` is one action per `recv`
(`ReadRequest`, `ReadAgain`, `ReadEnds`), `drain_pending_writes` is one action
for the eventfd's read (`HandleWakeup`) and one per response (`DrainWrite`,
`DrainDead`), with `epoll_ctl(MOD)` apart (`Arm`). A whole `flush_write` is one
action: what could happen between its sends also happens between two calls.

| code | actions |
|---|---|
| the constructor and its members | `MakeTcp`, `CreateEpoll`, `StartPool`, `SetOptions`, `Bind`, `Listen`, `AddListen`, `AddWakeup` |
| `main()` up to `run()` | `InstallHandlers`, `BuildRouter`, `Run` |
| a call of these that fails | `StartFails`, then `Joined` if workers run |
| `run()` | `Run`, `Poll`, `Reap`, `Leave`, `Joined` |
| `handle_event` | `HandleListen`, `HandleWakeup`, `HandleClosed`, `HandleIo`, `Write`, `Disarm` |
| `accept_new_connections`, `Socket::accept` | `AcceptOne`, `AcceptNothing`, `AcceptThrows` |
| `on_readable` and the read callback | `ReadRequest`, `ReadAgain`, `ReadEnds`, `Submit`, `PostError` |
| `drain_pending_writes` | `DrainWrite`, `DrainDead`, `DrainEnds`, `Arm` |
| `worker_loop`, the task, `post_response` | `WorkerTake`, `WorkerExit`, `HandlerReturns`, `HandlerThrows`, `WorkerPost`, `WorkerNotify` |
| `stop()` from the signal handler | `Signal` |
| an exception that leaves `run()` | `Throw`, then `Joined` |
| clients (external) | `Connect`, `SendRequest`, `ReadResponse`, `Fin`, `Rst` |

Data is abstracted as follows. A request is its kind: answered from memory, with
`Connection: close`, with a file, with a file that has shrunk since `fstat`, with an
empty file, by an exception, or malformed. A response is a unit for the headers (and a
body in memory) followed by the units of the file; a socket takes `SockRoom` units
before `EAGAIN`. The kernel keeps a registration per descriptor and a ready list. The
two task queues are plain bounded sequences in this module, as `TaskQueueMPMC`
implements `BoundedQueue`; a blocked call is a step that is not enabled. A recv returns
any number of the requests that have arrived, and what follows the first complete one is
dropped, as `consume_all()` does; `lost` remembers which those were, for
`RequestInOnePlace`, and also which responses were destroyed with the loop. `Joined` is
the end of the loop after the workers have exited: `connections_.clear()` or the
destructor closes every socket and destroys every write buffer and transfer, and
`pending_writes_` goes with all that is in it (`Unsent`); a `SendfileOp` closes its
file, a `PendingWrite` does not. `AcceptThrows` needs no client that waits: `accept4`
takes a descriptor before it looks at the backlog. `Poll` takes at most `MaxEvents`
reports, any of those there are, and leaves the others on the ready list. `Mishaps` says
what an instance lets happen besides: clients that half-close or reset, calls of the
start-up that fail.

Left out of `EventLoop`: the bytes of the read buffer and the parser's states
(one request arrives whole; that a parser which has refused a request is left in
that state, and answers what comes next accordingly, is in `HttpParser` only),
`EINTR` (every loop in the code retries, and
`epoll_wait` returns empty-handed as it does after its timeout), the descriptors
that open files take from the same table as sockets, the loop's own log records,
and a second signal.

**HttpParser.** A message is a sequence of tokens (words, spaces, colons, CR, LF)
and a piece may end after any of them. `feed()`'s loop is one action per turn:
`FeedLine` (`consume_line` and the parser of the state), `FeedTooLong` (its error
path) and `FeedBody`. `Returns` is the end of `feed()` with what `main.cpp` does
next: after Complete it takes the result with its method and keep-alive decision and
resets, after Error it does not. The
limits are constants counted in tokens; `std::size_t` has a largest value,
`MaxSize`, beyond which `from_chars` fails. `Lines`, `Headers`, `IsMalformed`,
`Request` give the meaning of a message from its whole text; only the helpers on
single lines (`Trim`, `Number`, `Find`) are shared with the parser. `lawful` and
`aligned` are history variables that the properties use; no action reads them.

**Buffer.** The array is a function on `0 .. capacity - 1`, the bytes put in are
numbered, and 0 is a byte nobody has written, so that a byte out of its place
shows. `compact()` moves the unread bytes and leaves the old ones behind them, as
`memmove` does. The calls are legal ones: no more is committed or consumed than
there is (the assertions of `buffer.cpp`). `EnqueueTurn` is a turn of the loop in
`enqueue_write`, of which the buffer's owner sees the end only. `need` is a
history variable: the most the buffer had to hold or was asked to reserve.

**Router, Mime, RequestTask.** A path is the sequence of its components, and
`starts_with` for a prefix that ends with a slash compares components. The file system
maps paths to nodes; a node is a file, a directory, a locked directory (which cannot be
searched), something else, or nothing, and its id stands for its size, so a wrong size
shows. `Change` replaces a node between any two calls of the handler. A look-up (`Kind`)
goes as far as the first component that is no directory it can search (`Obstacle`).
`lexically_normal`, `weakly_canonical` and `root_dir_ / rel` do what the library does
with such paths; there are no symbolic links. `weakly_canonical` looks at the path once
for each of its components; here it is one step (`CallResolve`), so a change in the
middle of that one call is left out. Upper case is left out too: mime.cpp:18 says
"callers must lowercase before lookup", `serve_file()` (static_handler.cpp:67) looks the
extension up as it stands, so `A.PNG` is served as application/octet-stream.
`StableAnswer` cannot show that, since `RightAnswer` takes the extension of a path as
the handler does (`ExtensionOf`). `seen` collects the file systems there were during a
task, so that a property can say "if nothing changed" and "at some moment".
`RightAnswer` says in one expression what a request should be answered, for a table of
routes and a file system; it shares with the handler the meaning of paths (`Candidate`,
`Kind`), and none of its sequence of checks.

| code | actions |
|---|---|
| `build_router()` | `RegisterRoute`, `Serve` |
| the task's call of `dispatch` | `Dispatch` |
| `resolve` | `CallResolve` |
| `serve_file` | `Exists`, `IsDirectory`, `ExistsIndex`, `IsRegularFile`, `Open`, `Fstat`, `MimeTurn`, `SetSendfile` |
| the end of the task | `Post`, or an exception that `worker_loop` catches |
| other processes (external) | `Change` |

## 3. Runs

| run | instance | what it shows |
|---|---|---|
| `task_queue` | 5 threads, capacity 2, at most 4 pushes plus those already begun | types and bound, FIFO, no lost wakeup, `close()` frees everyone, refinement of `BoundedQueue` with its fairness |
| `thread_pool` | `LoggedPool`: 3 workers, 2 clients, capacity 2, 2 tasks plus those already begun, a log with room for 1 record | exactly-once execution in order, drain at shutdown, liveness of tasks, of `shutdown()` and of the end of `main()` though threads wait for the log, every record of the pool and `main()`'s last written |
| `faults` | a start-up that may fail at each call, 2 clients that pipeline, half-close and reset, 2 descriptors, 2 workers, 2 events per wait, send buffer of 2 for responses of 3, a file that shrinks, a malformed request, `EMFILE` | file descriptors with one owner while the loop lives, table = epoll = sockets, posted responses and waiting connections noticed, edge-triggered input and output never stall, each request in one place until it is answered or dropped for one of five named reasons, no unit twice or out of order within a response |
| `sessions` | 2 clients, 4 requests (a file, an empty file, a handler that throws, `Connection: close`), 2 workers, queues of 2, 3 descriptors, fairness | refinement of `HttpService`: each stream is exactly the answers in order, and every request is answered; `stop()` ends `run()` |
| `parser` | 13 kinds of messages in any sequence on one connection, cut at every token; limits of 7 tokens per line, 2 headers, 2 tokens of body | types; a message cut at line ends or in its body is understood as a whole, with its keep-alive decision; limits and whole bodies under any cut |
| `buffer` | capacity 2, lengths and reservations up to 5, 9 bytes | indices in the array, bytes in order, growth only when needed, `enqueue_write` ends |
| `request_task` | 2 of 3 routes in either order, 10 requests, 3 nodes below the root, 2 changes to any of 5 kinds | types; the right answer when nothing changes; a file sent was the answer at some moment, with its own size and type; no descriptor lost; listed extensions found |

Five threads are the least with two sleepers on one condition variable, two awake
callers that race for the item, and one that closes; a queue of two has the states
empty, part full and full. In `thread_pool` two clients suffice, because it asks about
tasks and not about sleepers: with a queue of two and two tasks beyond those begun, a
client can be inside `submit()` when the pool shuts down while every worker is busy; a
log of one record makes workers and the owner wait for it. Two descriptors for two
clients: the second client takes the last, so that the `accept4` which should only find
the backlog empty fails with `EMFILE` and ends the server; and the number of a client
that has gone is used again for the other, within a batch too. `modify`, `malformed` and
`backpressure` have two as well. `sessions` has three, so that its server does not end
like this. A send buffer smaller than a response forces partial writes; two workers let
responses overtake each other; two events per wait leave a third (listening socket,
eventfd and client are three) on the ready list. Data of five bytes makes a buffer of
two double twice, and nine bytes in all let it compact and grow again afterwards. Two
changes are enough to swap a node and swap it back between the four look-ups of one
path; a path has an exact and a prefix route, or two prefixes of different length, in
both orders. The bounds are constants or the length of the scripts; nothing else is
capped.

Runs that reach a violation, each of one sentence of a comment:

| run | property | what happens |
|---|---|---|
| `backpressure` | `SubmitReturns` | loop blocked in `submit()`, workers blocked in `post_response()`, for good |
| `modify` | `ModifiesOnlyRegistered` | send fails, `flush_write` closes and returns 0, `modify` throws, `run()` is left |
| `malformed` | `MalformedIsClosed` | `Closing` is never acted upon |
| `cut` | `CutIsUnderstood` | a piece that ends inside a line is parsed as a whole line |
| `mime` | `ListedIsFound` | `.jpg` stands before `.jpeg` in the table: the search passes `.jpeg` by |

The passing properties are stated where these do not happen: `sessions` has
queues with room for everything in flight and clients that wait for each answer.
The `faults` run goes through `modify`'s exception and checks what still holds.
`parser` cuts everywhere; only `AlignedIsUnderstood` is about pieces that end with
a line. `request_task` has a sorted table. `FileWasTheAnswer` leaves out
paths that ask for a directory, which are those with a slash or a dot at the end
("/d/", "/d/."): such a path is resolved to "/d" while there is a directory, and if
a file takes its place, the file is sent for a path that never named one.

Three more things the code does are in the model without a run of their own.
README.md:21 promises "Graceful shutdown with connection draining", and
event_loop.hpp:88 says "The event loop takes ownership of file_fd". At the end of
`run()` the workers finish what was submitted and post it, but nobody drains
`pending_writes_` after that: `connections_.clear()` and the destructor close the
sockets and destroy those responses, and what was still in a write buffer, unsent
(event_loop.cpp:63-66); the files of the former stay open, as `PendingWrite` closes
nothing (pending_write.hpp:24-29). An exception that leaves `run()` ends in the same
way. `Joined` does this, `RequestInOnePlace` names it as the last of its five reasons,
and `FileOwnedOnce` says that the files which are still open then are those of the
responses destroyed, and no others. The process ends right after.
A socket accepted under the number of a connection that died in the same batch
finds its entry taken: `emplace` refuses, the new `Connection` is destroyed, and
its client sees the connection close. And with pipelining a response can begin
inside the file of the one before, because `flush_write` sends the write buffer
first. `TableMatchesEpoll` and `UnitsInOrder` hold nevertheless; the refinement of
`HttpService` is stated for clients that do not pipeline.

That refinement is `AnswersInOrder`, every step of the server is a step of
`HttpService` or none, and `AnswersArrive`, every question that is owed an answer
gets it. The first is also proved, for every value of the constants (section 4).
`Owed` leaves out the handlers that throw, since the code posts nothing for them
(their clients wait for ever), and files that shrink during the transfer. The
liveness half of `HttpService` is stated as what it promises, a leads-to, and not
as fairness of its actions: `ENABLED` under a refinement mapping would have to be
evaluated on the mapped variables.

Of the logger, two things are visible in `LoggedPool` that the text around it says
otherwise. docs/DESIGN.md:69 says "Log I/O must never block the event loop", but
`logger.cpp:61` asks for the overflow policy `block`: a full queue makes every
thread that logs wait, and `shutdown()` runs on the loop's thread. And
`Logger::init` gives the sinks the level it gives the logger, so that a later
`set_level` to a lower one would show nothing more; the program never calls it.
No run is made of either.

Each property of a passing run has a mutant: a plausible slip in one definition
(a missing notify, a skipped wakeup, a file not closed, EPOLLOUT disarmed too
early...) with which TLC finds it violated. The mutants stand next to the
definitions they vary and are used nowhere else.

### Fairness

- A thread inside a blocking call that is awake gets the mutex in the end (weak
  fairness per thread). Nothing is assumed about which sleeper `notify_one`
  picks. `BoundedQueue` has weaker fairness: some waiting caller is served.
- The pool's workers run and tasks end. A handler here is a lookup and a file
  open; nothing in the pool could enforce it, which is why it is an assumption.
- The log's writer writes, and a `shutdown()` that waits for the log goes on when
  there is room (`LoggedFairness`).
- The loop thread and each worker take the steps they can (`EventLoop!Fairness`);
  taking from and posting to a queue is fair to the group, as in `BoundedQueue`.
- A client that has been sent something reads it in the end. Nobody is obliged to
  connect, ask, leave or stop the server.

## 4. Proofs

`TaskQueueProofs` proves, for every finite set of threads, every capacity (0
included) and every bound on pushes, from `CapacityAssumption` and
`MPMCAssumption` only:

| theorem | statement |
|---|---|
| `TypeCorrect` | `Spec => []TypeOK` |
| `FirstInFirstOut` | `Spec => []Fifo` |
| `WakeupsNotLost` | `Spec => []NoLostWakeup` |
| `SafetyRefinement` | `Spec => Abstract!Spec` |

`TypeOK` is inductive. `Fifo` is inductive relative to it: `queue_` is exactly the
interval of items between `pops` and `pushes`, and each step moves one end.

`NoLostWakeup` is the interesting one. "If somebody sleeps in `pop()` the queue is
empty" is false: between a push and the moment the woken consumer takes the
mutex, items are queued while others sleep. What is inductive is a count: while
somebody sleeps on `not_empty_`, there are at most as many items as awake
consumers inside `pop()` (and likewise free slots and producers). A push adds an
item and, if anybody sleeps, wakes one (`NotifyOneWakesOne`,
`EnqueueKeepsPoppers`); a pop removes an item and at most one awake consumer
(`PopKeepsPoppers`); a consumer goes to sleep only when the queue is empty; a
spurious wakeup only adds awake consumers. The lemmas on cardinalities
(`AwakeFinite`, `OneMoreOrLess`) carry this, and `WakeupStep` puts it together,
action by action.

`SafetyRefinement` shows that going to sleep and waking are stuttering steps of
`BoundedQueue` and every other step is the abstract step of the same name
(`StepSimulation`).

`BufferProofs`, for every initial capacity and all bounds, from
`BufferAssumption`:

| theorem | statement |
|---|---|
| `IndicesInRange` | `Spec => []TypeOK` |
| `NoByteLost` | `Spec => []BytesInOrder` |
| `GrowsOnlyIfNeeded` | `Spec => []CapacityIsNeeded` |

One lemma per method says what it does to a buffer whose indices are in order:
`compact` and `reserve` keep the unread bytes, `commit_write` appends to them.
`BytesInOrder` alone is not inductive, since it does not say how many bytes are
unread; with `Accounted` (unread = put in - taken out) and `TypeOK` it is.
`CapacityIsNeeded` needs the loop's reason for doubling: while a call is in
progress, the unread bytes and its data together are at most `need`, so a capacity
with too little room after compacting is smaller than `need` (`NeedInv`).

`ThreadPoolProofs`, for every number of workers, every finite set of clients, every
capacity and number of tasks, from the assumptions of `TaskQueue`, `ThreadPool` and
`Logger`:

| theorem | statement |
|---|---|
| `PoolTypeCorrect` | `Spec => []TypeOK` |
| `TasksInOnePlace` | `Spec => []TaskInOnePlace` |
| `ShutdownLeavesNothing` | `Spec => []ShutdownDrains` |
| `LoggedPoolIsPool` | `LoggedSpec => Spec` |
| `LoggedPoolDrains` | `LoggedSpec => [](TaskInOnePlace /\ ShutdownDrains)` |
| `NoRecordLost` | `LogLevel = "info"` implies `LoggedSpec => []RecordsWritten` |

A step of the pool does one of five things to a task (`PoolSteps`): it is accepted,
taken, finished, a worker exits, or nothing moves; `TaskInOnePlace` is shown for
each. `ShutdownDrains` is not inductive: that a joined worker has left nothing
behind needs `JoinedHaveExited` (a worker is joined only after it has exited, and it
exits only when the queue is closed and empty). With the log every step is one
of the pool or leaves the pool alone (`LoggedStep`), so all of this carries over.

`NoRecordLost` follows the records from the threads to the sinks. The writer moves them
from the log's queue to `written` one by one, so what is counted is `Logged == written
\o records`, which only grows at its end (`WriteMoves`, `LogAppends`); what has been
logged is exactly what has happened (`RecordsMatch`: one error record for each task that
was caught, and the owner's four: the pool's start as the first of all, the beginning
and the end of `shutdown()` and the end of `main()`, each as far as he has come, the
last two at the end), and the phases of the owner, the pool and the logger go together
(`PhasesAgree`: no task for a pool that is starting, nobody left to log when the logger
shuts down). The level is a hypothesis: it is the one `main.cpp:71` gives, and at a
lower one the workers' own records (DEBUG) come in between.

`EventLoopTableProofs`, for any clients and scripts, any number of workers and all
capacities, from `EventLoopAssumption`:

| theorem | statement |
|---|---|
| `NoWakeupLost` | `Spec => []PendingIsAnnounced` |
| `TypeCorrect` | `Spec => []TypeOK` |
| `TableAndEpollAgree` | `Spec => []TableMatchesEpoll` |
| `InputNeverStuck` | `Spec => []InputIsAnnounced` |
| `OutputNeverStuck` | `Spec => []OutputIsAnnounced` |
| `BacklogNeverStuck` | `Spec => []BacklogIsAnnounced` |

`PendingIsAnnounced` comes first. By itself it is not inductive. It needs that nobody
takes the eventfd off the ready list by accident: no connection has the eventfd's number
and it is not in the table (`Apart`, which in turn needs that `accept` returns only free
numbers, `LowestIsFree`, and that `flush_write` keeps or closes its socket,
`FlushShape`); and that `epoll_wait` is called with the last batch handled, and nothing
is posted before `run()` (`Phases`). Then the announcement is handed on: from the worker
that has pushed, to the eventfd and the ready list, to the batch, to the draining loop,
which leaves only when the queue is empty. All other steps keep it where it is
(`StillAnnounced`).

`TypeOK` and `TableMatchesEpoll` come out of one inductive invariant, `TableInv`, since
neither is inductive without the other: that a look-up in `connections_` succeeds
depends on what the batch holds, and the batch on what epoll had registered when
`epoll_wait` returned. Its parts are the types (`ClientsTyped`, `LoopTyped`,
`PoolTyped`, `EpollTyped`); what the loop thread holds at each point (`Control`: the
event it handles is in the table, no batch outlives its turn, before `run()` there is
nothing to do); the table (`Table`: an open socket is in it under its own number and
registered, no two entries hold the same connection, and after `reap_closed()` every
entry is open); the batch (`Batch`: an event in it names an entry, no number twice); the
life of a connection (`Lives`); and that a request in hands is of a client that has been
accepted (`Known`). `Sealed` is the least obvious part: while an event for it is still
to be handled, a connection that is already `Closed` was closed by a failed
`flush_write()`, which leaves `write_buf_` behind; a second `flush_write()` then finds
something to send and fails again, whereas with an empty buffer it would set the dead
connection back to `Reading`. `Edges` then says, for each connection, that input and
output are announced at each point of its handling, and the backlog is treated alike.
`EndInv` is about the two ends: nothing is there before the workers run, and once the
loop is gone no socket is open, `pending_writes_` is empty, no worker runs (the conjunct
of `TypeOK` about a start-up that fails) and nothing moves any more
(`NothingAfterTheEnd`).

`EventLoopRequestProofs`:

| theorem | statement |
|---|---|
| `RequestNeverTwice` | `Spec => []RequestInOnePlace` |
| `FileNeverLeaked` | `Spec => []FileOwnedOnce` |
| `UnitsNeverTwice` | `Spec => []UnitsInOrder` |

The invariant is `RequestInv`, on top of `TableInv`. `RequestInOnePlace` adds up the
places where a request can be (inbox, loop, queue, workers, `pending_writes_`, buffer,
client). A socket that is closed and the buffer of a dead connection are no places, but
they keep what was in them; the invariant counts these copies too (`Copies`), for a sum
that does not jump when a connection dies. The lemmas `Count*` say what appending,
taking the head and splitting do to a count, `HolderMoves` what a worker's step does,
and each step is shown to move the request from one term to the next (`PlaceStays`) or
to drop it for one of the permitted reasons (`PlaceLeft`). `Placed` sharpens the
property: a request that has not been asked is nowhere. `Ends` (the pool is closed only
on the way out, with the queue empty at the end) keeps the sum the same in all phases.
The last step, `Joined`, is the one that breaks a sum: what was in `pending_writes_` or
in a write buffer goes to `lost` (`JoinedEnds`), and the owner of an open file, `Owned`,
gives way to `Abandoned`: nobody owns a file, and what is open belongs to a response in
`lost`. `AnswersBad` says that the loop answers only malformed requests itself.
`Streams` is about bytes: `write_buf_` holds headers of the client's own requests, what
has been received has every file unit after its headers and its predecessor, and a
transfer continues exactly where the received units end; what `flush_write()` sends
keeps this, however little the socket takes (`FlushUnits`, `FlushKeepsStreams`), and so
does a response that replaces a transfer (`PreparedUnits`). There is one lemma `...Kept`
per group of steps.

`EventLoopServiceProofs`:

| theorem | statement |
|---|---|
| `ServesInOrder` | `~Pipelining => (Spec => AnswersInOrder)`, where `AnswersInOrder` is `Service!Spec` |

The hypothesis says which clients it is about: those that wait for an answer
before they ask again, as in the `sessions` run. Everything else is general: the
start-up may fail, clients may reset or half-close, files may shrink, queues may be
too small, handlers may throw and the server may be stopped. The invariant is
`Sessions`, on top of `TableInv` and `RequestInv`: what a client has received is
all of its answers but the last one and the first m units of that (`InAnswer`), and
what its connection has in hand, the write buffer and the rest of a transfer,
continues at unit m (`Answering`). The interesting step is the draining of a
response. `DrainedIsNext` shows that it answers the client's last question and that
nothing of another one is under way: `RequestInOnePlace` puts the headers of each
question in one place, the client has those of all the earlier ones, and so the
response in `pending_writes_` can only be the last. Then `flush_write()` sends some
number of the units that are due, one `Deliver` of the service or a stutter
(`FlushAnswers`, `DrainWriteSession`); a question is an `Ask` (`AskSession`), and
all other steps leave clients and their connections alone or only close the
latter (the lemmas `...Still`). What is due to a client is the concatenation of
its answers, `FlattenSeq`, a recursive function of the community modules. The little
the proof needs of it (it exists, and one more answer is appended at its end:
`FlatExists`, `FlatUnique`, `FlattenGrows`) follows by induction over sets of numbers
(`AllNumbers`, from the well-foundedness of `<`).

`RequestTaskProofs`, for every file system, every set of routes and any changes,
from `TaskAssumption` (the routes are what the registration makes, paths are
sequences of names and not empty, the nodes of the initial file system have a kind and
a number, `index.html` has the extension `.html`) and `MimeAssumption`:

| theorem | statement |
|---|---|
| `NothingLeftOpen` | `Spec => []NoDescriptorLost` |
| `TaskTypeCorrect` | `Spec => []TypeOK` |
| `SearchableIsFound` | `SearchSpec => [](Searchable(extension) => ListedIsFound)` |
| `SortedIsFound` | `SearchSpec => []ListedIsFound`, for every table that is `Sorted` |
| `DispatchIsRight` | `DispatchedRoute(routes, req) = RightRoute(routes, req)`, for every table of routes |
| `AnswersAreRight` | `TableServes` implies `Spec => []StableAnswer` |
| `FilesWereRight` | `TableServes` implies `Spec => []FileWasTheAnswer` |

`DescriptorInv` says whose the open descriptor is at each point of `serve_file()`.
The types need, besides, that only a node that exists is opened (`OpenedIsNode`)
and that a search stays inside the table, halving after halving.

The invariant of the search is the usual one: what is before `first` is less than
the key, what is behind `first + len` is not. It needs less than a sorted table:
only that no entry less than the key stands behind one that is not, and that the key
is not behind one that is greater (`Searchable`), and so a table with two entries out
of order still serves the others. `TableServes` asks this for the extension of every
file there is, as far as the table lists it. The hypothesis is needed: the `mime`
run shows an extension for which the answer is wrong. For the source's table,
where only these two entries have changed places, it says that no file is called
`*.jpg` or `*.jpeg`. The instance of `request_task` satisfies the hypothesis: TLC
evaluates it (`TableIsServed`).

`dispatch()` and `lexically_normal()` are loops, written as functions on `0 .. n`. That
such a function exists, and what its last value is, is shown by induction over sets of
numbers (`AllNumbers`), as in `EventLoopServiceProofs`. For the router, what the loop
has after each turn is the best of the prefixes so far (`IsBest`, `BestGoesOn`), and
only one route can be best (`BestIsOne`), so that the `CHOOSE` of `RightRoute` is that
one. For paths, what remains of a path after each name has no empty name in it, so
a normal path can only end in one (`NormalIs`, `CandidateIsNormal`), and taking the slash
off a directory changes neither its kind nor whether it is below the root (`CanonicalIs`).

`AnswersAreRight` then needs what `serve_file()` would answer from each of its calls on
if nothing changed any more: `AtExists`, `AtDirectory`, `AtIndex`, `AtRegular`,
`Served`, one for each call. `ChecksAreRight` is the lemma that resolving and the checks
come to `RightFile`; the invariant `RestIsRight` says that the rest of the task does, at
every point, as long as the only file system seen is the present one. The interesting
fact is about the index of a directory: its look-up meets what the look-up of the
directory meets, and then the directory (`ObstacleOfIndex`), so a directory that cannot
be searched shows itself there and nowhere else (`KindOfIndex`).

`FilesWereRight` is about a file system that does change, where the checks prove nothing
about the file that is opened. `FileIsOpen` holds two things on to the end: only the path
itself or its index is ever looked up, below the root (`LooksBelow`); and if what
`open()` returned was a file, then at that very moment the path was a way to it, so it
was the right answer (`FileIsRight`), whatever the earlier checks saw. A path that
asks for a directory escapes this argument at its first step.

`HttpParserProofs`, for all limits, every set of messages and every cut:

| theorem | statement |
|---|---|
| `ParserTypeCorrect` | `Spec => []TypeOK` |
| `LimitsAreKept` | `Spec => []LimitsKept` |
| `BodiesAreWhole` | `Spec => []BodyIsWhole` |

The limit is checked when the body is announced
and not while it is read, so the invariant counts both: what of the body has been
read and what is still to come are together within `MaxBodySize`, in every
state of the parser that a client can leave behind, also after an error
(`ParserInLimits`). The same sum, as long as no error has come, is what the headers
announce, and when the state is `Complete` nothing is still to come
(`BodyAccounted`). What `from_chars` computes is a fold, and its value is out of the
prover's reach; that it is a natural number follows from the test of its range.

`TypeOK` says more than types: the parser is in the state `Body` exactly while there
is a body to come, and is `Complete` between two calls of `feed()` only after an
error (`ParserRests`).

Only model-checked:

- all liveness (it rests on fairness and `ENABLED`), and with it the fairness part of
  the queue's refinement;
- in particular `AnswersArrive`, the other half of the refinement of `HttpService`;
- `AlignedIsUnderstood` of `HttpParser`, whose reference is recursive in the data.

## 5. Plan

1. Core (done): `TaskQueue`, its abstraction and proofs; `ThreadPool`;
   `Connection` and `EventLoop` with their runs.
2. `HttpParser` (done): `feed` over tokens, every fragmentation against the
   meaning of the whole message, limits, body, `reset`, and what follows an error.
3. `Buffer` and its proofs (done).
4. `Router`, the MIME search and its proof, the static file handler in a file
   system that changes (done).
5. The abstract service, start-up, the logger, and the proofs about the pool, the
   eventfd, the limits of the parser and the descriptors of a task (done).
6. The event loop's invariants: types, table and epoll, edges, backlog, requests,
   files and units; the safety part of the refinement of `HttpService`; the records of
   the log; the types of the parser and of the task (done).
7. The router's choice of a route, what a normal path is, and the answers of a task with
   them (done).
8. Left to model: `EventLoop` on `ThreadPool`'s interface instead of a plain queue,
   and the log under the event loop as well as under the pool. Both multiply
   state spaces that are near what one run can cover.

Not modelled:

- idle timeouts (`touch`, `is_timed_out`): the code records the time and nothing
  reads it;
- `on_writable`, `set_level`, the synchronous mode of the logger, and the socket
  options that the program never sets: no caller;
- `EINTR`, which every loop of the code retries;
- the moves of `Socket`, `Epoll` and `Connection`, which hand one descriptor over;
- the text of header lines, dates and log records, and the rotation of log files:
  formatting without state;
- addresses, and the bytes on the wire below a token or a unit.
