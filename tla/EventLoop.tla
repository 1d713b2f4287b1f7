------------------------------ MODULE EventLoop ------------------------------
(***************************************************************************)
(* The running server: cppws::core::EventLoop (src/core/event_loop.cpp)    *)
(* with the callbacks main.cpp installs, its worker threads, its           *)
(* connections, and what surrounds it: TCP clients, sockets, the           *)
(* edge-triggered epoll instance, the eventfd and the signal handler.      *)
(*                                                                         *)
(* The loop thread is a program counter, pc, and one action per piece of   *)
(* the loop between two points where another thread, a client or the       *)
(* kernel can get in between.  The two TaskQueues are their sequences: a   *)
(* blocking push or pop is a step that is enabled when the call can        *)
(* return, which is what TaskQueueMPMC is shown to implement.              *)
(*                                                                         *)
(* A connection is named by its client: each client connects once.  A      *)
(* request is <<client, i>>, the i-th of the client's script, and a        *)
(* response has the name of its request.                                   *)
(***************************************************************************)
EXTENDS Connection, FiniteSets, SequencesExt

CONSTANTS
    Clients,
    Script,                     \* Script[c]: the kinds of the requests c sends, in order
    Pipelining,                 \* may a client send a request before the last answer?
    Mishaps,                    \* what else happens: clients half-close ("fin") or
                                \* reset ("rst"), a call of the start-up fails ("start")
    NWorkers,
    TaskCapacity,               \* capacity of thread_pool_.queue_
    PendingCapacity,            \* capacity of pending_writes_
    MaxFds,                     \* descriptors left for client sockets (RLIMIT_NOFILE)
    MaxEvents,                  \* MAX_EVENTS: what one epoll_wait reports at most
    SockRoom,                   \* units a socket's send buffer holds
    FileSize                    \* units of a served file

\* "ok": answered from the buffer; "close": the same, with Connection: close;
\* "file": answered with sendfile; "empty": the same, of an empty file; "short":
\* the same, of a file that has lost its last unit since fstat; "throw": the
\* handler throws; "bad": malformed.
Kinds == {"ok", "close", "file", "empty", "short", "throw", "bad"}

ASSUME EventLoopAssumption ==
    /\ IsFiniteSet(Clients)
    /\ Script \in [Clients -> Seq(Kinds)]
    /\ Pipelining \in BOOLEAN
    /\ Mishaps \subseteq {"fin", "rst", "start"}
    /\ {NWorkers, TaskCapacity, PendingCapacity, MaxFds, MaxEvents, SockRoom, FileSize}
           \subseteq Nat \ {0}

Workers == 1 .. NWorkers

\* File descriptors: the listening socket, the eventfd, the clients' sockets.
ListenFd == 1
WakeupFd == 2
ClientFds == 3 .. (2 + MaxFds)
Fds == {ListenFd, WakeupFd} \cup ClientFds

Requests == UNION {{<<c, i>> : i \in 1 .. Len(Script[c])} : c \in Clients}
Kind(req) == Script[req[1]][req[2]]
IsFile(req) == Kind(req) \in {"file", "empty", "short"}
Size(req) == IF Kind(req) \in {"file", "short"} THEN FileSize ELSE 0   \* at fstat
Length(req) == IF Kind(req) = "short" THEN FileSize - 1 ELSE Size(req)

VARIABLES
    pc,                         \* where the loop thread is
    batch,                      \* events of the last epoll_wait still to be handled
    event,                      \* the event being handled
    request,                    \* the request or response in the loop's hands
    running_,
    connections_,               \* fd -> connection, a partial function
    conn,                       \* the Connection object of each client
    queue_, closed_,            \* of thread_pool_
    worker,                     \* worker threads
    pending_writes_,
    openFiles,                  \* responses whose file is open
    interest, ready, wakeup,    \* epoll: registrations and ready list; the eventfd
    backlog,                    \* connections waiting in the listening socket
    peer,                       \* the client's end of each connection
    stop,                       \* has stop() been called, and before run()?
    lost                        \* requests dropped by consume_all(), or with the loop
                                \* before their response was sent (history)

loopVars == <<pc, batch, event, request, running_, connections_>>
poolVars == <<queue_, closed_, worker>>
epollVars == <<interest, ready, wakeup>>
vars == <<loopVars, conn, poolVars, pending_writes_, openFiles, epollVars,
          backlog, peer, stop, lost>>

NoEvent == [fd |-> 0, in |-> FALSE, out |-> FALSE, closed |-> FALSE]
NoRequest == <<>>

Init ==
    /\ pc = "socket" /\ batch = {} /\ event = NoEvent /\ request = NoRequest
    /\ running_ = FALSE
    /\ connections_ = <<>>
    /\ conn = [c \in Clients |-> [NewConnection(NoFd) EXCEPT !.state = "None"]]
    /\ queue_ = <<>> /\ closed_ = FALSE
    /\ worker = [w \in Workers |-> [pc |-> "unborn", req |-> NoRequest]]
    /\ pending_writes_ = <<>>
    /\ openFiles = {}
    /\ interest = [fd \in Fds |-> "none"]
    /\ ready = {} /\ wakeup = FALSE
    /\ backlog = {}
    /\ peer = [c \in Clients |-> [connected |-> FALSE, asked |-> 0, inbox |-> <<>>,
                                  room |-> SockRoom, got |-> <<>>,
                                  fin |-> FALSE, rst |-> FALSE]]
    /\ stop = "no" /\ lost = {}

-----------------------------------------------------------------------------
(* The kernel.  A descriptor enters the ready list when something happens   *)
(* on it that it is registered for, or when it is added or modified while   *)
(* something is there; epoll_wait takes it out (EPOLLET).                   *)

Readable(c) == peer[c].inbox # <<>> \/ peer[c].fin \/ peer[c].rst
Broken(c) == peer[c].rst \/ conn[c].fd = NoFd

FreeFds == ClientFds \ {conn[c].fd : c \in Clients}
LowestFree == CHOOSE fd \in FreeFds : \A other \in FreeFds : fd <= other

SocketOf(fd) == CHOOSE c \in Clients : conn[c].fd = fd

Report(fd) ==
    LET c == SocketOf(fd)
    IN  [fd |-> fd, in |-> Readable(c), closed |-> peer[c].fin \/ peer[c].rst,
         out |-> interest[fd] = "inout" /\ (peer[c].room > 0 \/ peer[c].rst)]

Reports ==
    {r \in {Report(fd) : fd \in ready \cap ClientFds} : r.in \/ r.out}
    \cup {[NoEvent EXCEPT !.fd = ListenFd, !.in = TRUE] : fd \in
              {x \in ready : x = ListenFd /\ backlog # {}}}
    \cup {[NoEvent EXCEPT !.fd = WakeupFd, !.in = TRUE] : fd \in
              {x \in ready : x = WakeupFd /\ wakeup}}

\* EPOLL_CTL_ADD and EPOLL_CTL_MOD
Register(fd, c, mask) ==
    /\ interest' = [interest EXCEPT ![fd] = mask]
    /\ ready' = IF Readable(c) \/ (mask = "inout" /\ peer[c].room > 0)
                THEN ready \cup {fd} ELSE ready

\* An edge on c's socket, if the server still has it and waits for it.
Edge(c, masks) ==
    ready' = IF conn[c].fd # NoFd /\ interest[conn[c].fd] \in masks
             THEN ready \cup {conn[c].fd} ELSE ready

\* Mutant: the loop is not told.
WakeLoop_Not == UNCHANGED <<ready, wakeup>>

\* A write to the eventfd, which epoll watches.
WakeLoop == wakeup' = TRUE /\ ready' = ready \cup {WakeupFd}

-----------------------------------------------------------------------------
(* Clients and the signal handler. *)

Goto(label) == pc' = label

ServerUntouched ==
    UNCHANGED <<loopVars, conn, poolVars, pending_writes_, openFiles, interest, wakeup,
              stop, lost>>

Constructing == pc \in {"socket", "epoll", "pool", "options", "bind", "listen"}
StartingUp == Constructing \/ pc \in {"watch", "eventfd", "signals", "router", "init"}
Ended == pc \in {"done", "dead"}

Linked(c) == peer[c].connected /\ ~peer[c].rst /\ (c \in backlog \/ conn[c].fd # NoFd)

\* What the client of req is told to expect: headers and, for a file, the
\* units its Content-Length announces.
Response(req) ==
    [k \in 1 .. (Size(req) + 1) |-> <<req[2], k - 1>>]

\* The whole answer to the first n requests of c, as c expects it.
Stream(c, n) == FlattenSeq([i \in 1 .. n |-> Response(<<c, i>>)])

Connect(c) ==
    /\ ~peer[c].connected /\ ~Constructing /\ ~Ended
    /\ peer' = [peer EXCEPT ![c].connected = TRUE]
    /\ backlog' = backlog \cup {c}
    /\ ready' = IF interest[ListenFd] = "none" THEN ready ELSE ready \cup {ListenFd}
    /\ ServerUntouched

SendRequest(c) ==
    /\ Linked(c) /\ ~peer[c].fin
    /\ peer[c].asked < Len(Script[c])
    /\ Pipelining \/ peer[c].got = Stream(c, peer[c].asked)
    /\ peer' = [peer EXCEPT ![c].asked = @ + 1,
                            ![c].inbox = Append(@, peer[c].asked + 1)]
    /\ Edge(c, {"in", "inout"})
    /\ ServerUntouched /\ UNCHANGED backlog

\* The client reads, which empties the socket's send buffer.
ReadResponse(c) ==
    /\ Linked(c) /\ peer[c].room < SockRoom
    /\ peer' = [peer EXCEPT ![c].room = SockRoom]
    /\ Edge(c, {"inout"})
    /\ ServerUntouched /\ UNCHANGED backlog

\* The client shuts its sending side down, or resets the connection.
Fin(c) ==
    /\ "fin" \in Mishaps /\ Linked(c) /\ ~peer[c].fin
    /\ peer' = [peer EXCEPT ![c].fin = TRUE]
    /\ Edge(c, {"in", "inout"})
    /\ ServerUntouched /\ UNCHANGED backlog

Rst(c) ==
    /\ "rst" \in Mishaps /\ Linked(c)
    /\ peer' = [peer EXCEPT ![c].rst = TRUE]
    /\ Edge(c, {"in", "inout"})
    /\ ServerUntouched /\ UNCHANGED backlog

\* SIGINT or SIGTERM, once the handler is there: EventLoop::stop()
Signal ==
    /\ stop = "no" /\ ~Ended
    /\ StartingUp => pc \in {"router", "init"}
    /\ stop' = IF StartingUp THEN "early" ELSE "late"
    /\ running_' = FALSE
    /\ UNCHANGED <<pc, batch, event, request, connections_, conn, poolVars,
                   pending_writes_, openFiles, epollVars, backlog, peer, lost>>

-----------------------------------------------------------------------------
(* The loop thread. *)

FileOf(c, cn) == IF cn.sendfile_op.r = 0 THEN {} ELSE {<<c, cn.sendfile_op.r>>}

\* c's Connection becomes cn.  If that closes its socket the close callback
\* takes the descriptor out of epoll; a SendfileOp that is gone has closed its
\* file; dropped are the files that nobody takes over.
ConnBecomes(c, cn, dropped) ==
    LET fd == conn[c].fd
        closes == fd # NoFd /\ cn.fd = NoFd
    IN  /\ conn' = [conn EXCEPT ![c] = cn]
        /\ interest' = IF closes THEN [interest EXCEPT ![fd] = "none"] ELSE interest
        /\ ready' = IF closes THEN ready \ {fd} ELSE ready
        /\ openFiles' = openFiles \ ((FileOf(c, conn[c]) \ FileOf(c, cn)) \cup dropped)

\* Mutant: EAGAIN is not expected of a socket that has not been drained yet.
Room_Ignored(c) == SockRoom

\* What send() and sendfile() can still take before EAGAIN.
Room(c) == peer[c].room

\* c's Connection becomes cn and flushes what it can; the loop goes on at left
\* when something is left to send, else at done.
Flush(c, cn, left, done) ==
    LET f == FlushWrite(cn, Room(c), Broken(c))
    IN  /\ ConnBecomes(c, f.conn, FileOf(c, cn) \ FileOf(c, f.conn))
        /\ peer' = [peer EXCEPT ![c].got = @ \o f.sent, ![c].room = @ - Len(f.sent)]
        /\ Goto(IF f.remaining > 0 THEN left ELSE done)

LoopKeeps == UNCHANGED <<running_, backlog, stop, lost>>

-----------------------------------------------------------------------------
(* main() up to run(): the constructor of EventLoop, the signal handler, the  *)
(* routes.  Clients can connect as soon as the socket listens.                *)

Enter(from, to) ==
    /\ pc = from /\ Goto(to)
    /\ UNCHANGED <<batch, event, request, connections_, conn, queue_, closed_,
                   pending_writes_, openFiles, wakeup, backlog, peer, stop, lost>>

Pass(from, to) == Enter(from, to) /\ UNCHANGED <<running_, worker, interest, ready>>

MakeTcp == Pass("socket", "epoll")
CreateEpoll == Pass("epoll", "pool")
SetOptions == Pass("options", "bind")
Bind == Pass("bind", "listen")
Listen == Pass("listen", "watch")
InstallHandlers == Pass("signals", "router")
BuildRouter == Pass("router", "init")

StartPool ==
    /\ Enter("pool", "options")
    /\ worker' = [w \in Workers |-> [pc |-> "pop", req |-> NoRequest]]
    /\ UNCHANGED <<running_, interest, ready>>

\* Mutant: what is there already is not announced.
Add_OnlyLater(fd, pending) ==
    /\ interest' = [interest EXCEPT ![fd] = "in"]
    /\ UNCHANGED ready

\* epoll_.add() of a descriptor on which something is pending already, or not
Add(fd, pending) ==
    /\ interest' = [interest EXCEPT ![fd] = "in"]
    /\ ready' = IF pending THEN ready \cup {fd} ELSE ready

AddListen == Enter("watch", "eventfd") /\ Add(ListenFd, backlog # {}) /\ UNCHANGED <<running_, worker>>

AddWakeup == Enter("eventfd", "signals") /\ Add(WakeupFd, FALSE) /\ UNCHANGED <<running_, worker>>

\* A system call of the start-up fails, or build_router() throws.  Before the
\* workers run nothing has to be waited for; a thread that cannot be created
\* ends the process, since the others are joinable when workers_ is destroyed.
\* Later the members are destroyed, the pool first.
StartFails ==
    /\ "start" \in Mishaps /\ StartingUp /\ pc \notin {"signals", "init"}
    /\ LET early == pc \in {"socket", "epoll", "pool"}
       IN  Goto(IF early THEN "dead" ELSE "unwind") /\ closed_' = ~early
    /\ UNCHANGED <<batch, event, request, running_, connections_, conn, queue_, worker,
                   pending_writes_, openFiles, epollVars, backlog, peer, stop, lost>>

\* run(): running_ = true, whatever it was
Run == Enter("init", "top") /\ running_' = TRUE /\ UNCHANGED <<worker, interest, ready>>

-----------------------------------------------------------------------------
(* run() *)

\* The loop condition, then epoll_wait; with nothing to report it returns
\* empty-handed after EPOLL_TIMEOUT_MS.  What does not fit into the batch stays
\* on the ready list.
Poll ==
    /\ pc = "top" /\ running_ /\ Goto("batch")
    /\ \E some \in SUBSET Reports :
           /\ Cardinality(some) = Smaller(MaxEvents, Cardinality(Reports))
           /\ batch' = some
           /\ ready' = {e.fd : e \in Reports \ some}
    /\ UNCHANGED <<event, request, connections_, conn, poolVars, pending_writes_,
                   openFiles, interest, wakeup, peer>>
    /\ LoopKeeps

\* Events come in the order of the ready list, which is any order.  The entries
\* of connections_ outlive the batch, so that an event never finds its
\* descriptor missing (event_loop.cpp:150-153): see TableMatchesEpoll.
Handle(e) ==
    /\ pc = "batch" /\ e \in batch
    /\ batch' = batch \ {e}
    /\ UNCHANGED <<request, connections_, poolVars, pending_writes_, peer>> /\ LoopKeeps

HandleListen(e) ==
    /\ Handle(e) /\ e.fd = ListenFd
    /\ Goto("accept")
    /\ UNCHANGED <<event, conn, openFiles, epollVars>>

HandleWakeup(e) ==
    /\ Handle(e) /\ e.fd = WakeupFd
    /\ wakeup' = FALSE
    /\ Goto("drain")
    /\ UNCHANGED <<event, conn, openFiles, interest, ready>>

HandleClosed(e) ==
    /\ Handle(e) /\ e.fd \in DOMAIN connections_ /\ e.closed
    /\ LET c == connections_[e.fd] IN ConnBecomes(c, OnClosed(conn[c]), {})
    /\ UNCHANGED <<pc, event, wakeup>>

HandleIo(e) ==
    /\ Handle(e) /\ e.fd \in DOMAIN connections_ /\ ~e.closed
    /\ event' = e
    /\ Goto(IF e.in THEN "read" ELSE "write")
    /\ UNCHANGED <<conn, openFiles, epollVars>>

\* Mutant: nothing is found dead.
Dead_Never == {}

Dead == {fd \in DOMAIN connections_ : ~IsAlive(conn[connections_[fd]])}

\* After the batch: forget the dead connections.
Reap ==
    /\ pc = "batch" /\ batch = {} /\ Goto("top")
    /\ connections_' = [fd \in DOMAIN connections_ \ Dead |-> connections_[fd]]
    /\ interest' = [fd \in Fds |-> IF fd \in Dead THEN "none" ELSE interest[fd]]
    /\ ready' = ready \ Dead
    /\ UNCHANGED <<batch, event, request, conn, poolVars, pending_writes_, openFiles,
                   wakeup, peer>>
    /\ LoopKeeps

-----------------------------------------------------------------------------
(* accept_new_connections(), one turn of its loop *)

Accepting ==
    /\ pc = "accept"
    /\ UNCHANGED <<event, request, pending_writes_, openFiles, wakeup, queue_, worker,
                   running_, stop, peer, lost>>

\* EAGAIN: the backlog is empty.  ECONNABORTED, which is one of the things that
\* can come of a connection reset in the backlog: Socket::accept returns the
\* same invalid socket, and the loop breaks.
AcceptNothing ==
    /\ Accepting /\ FreeFds # {} /\ Goto("batch")
    /\ \/ backlog = {} /\ UNCHANGED backlog
       \/ \E c \in backlog : peer[c].rst /\ backlog' = backlog \ {c}
    /\ UNCHANGED <<batch, connections_, conn, interest, ready, closed_>>

\* emplace() leaves an entry that is there alone: then nobody holds the new
\* Connection, and the end of the turn destroys it and closes its socket.
AcceptOne ==
    /\ Accepting /\ FreeFds # {}
    /\ \E c \in backlog :
        /\ backlog' = backlog \ {c}
        /\ IF LowestFree \in DOMAIN connections_
           THEN /\ conn' = [conn EXCEPT ![c].state = "Destroyed"]
                /\ UNCHANGED <<connections_, interest, ready>>
           ELSE /\ conn' = [conn EXCEPT ![c] = NewConnection(LowestFree)]
                /\ connections_' = [fd \in DOMAIN connections_ \cup {LowestFree} |->
                                       IF fd = LowestFree THEN c ELSE connections_[fd]]
                /\ Register(LowestFree, c, "in")
    /\ UNCHANGED <<pc, batch, closed_>>

\* Mutant: the workers are joined but nobody tells them to end.
ClosePool_Not == UNCHANGED closed_

\* thread_pool_.shutdown() up to the joins
ClosePool == closed_' = TRUE

\* An exception leaves run(): ~EventLoop closes the eventfd and shuts the pool
\* down, main() reports it and ends.
Throw ==
    /\ Goto("unwind")
    /\ batch' = {}
    /\ ClosePool

\* accept4 fails with EMFILE: it takes a descriptor before it looks into the
\* backlog, so an empty one does not help.
AcceptThrows ==
    /\ Accepting /\ FreeFds = {}
    /\ Throw
    /\ UNCHANGED <<backlog, connections_, conn, interest, ready>>

-----------------------------------------------------------------------------
(* on_readable() and the read callback of main.cpp, one recv at a time *)

Reading(c) ==
    /\ pc = "read" /\ c = connections_[event.fd]
    /\ UNCHANGED <<batch, running_, connections_, poolVars, wakeup, backlog, stop>>

\* recv returns one or more of the requests that have arrived.  The parser
\* takes the first; consume_all() discards the rest of the buffer.
ReadRequest(c) ==
    /\ Reading(c) /\ conn[c].fd # NoFd /\ peer[c].inbox # <<>>
    /\ \E n \in 1 .. Len(peer[c].inbox) :
           /\ peer' = [peer EXCEPT ![c].inbox = SubSeq(@, n + 1, Len(@))]
           /\ lost' = lost \cup {<<c, peer[c].inbox[k]>> : k \in 2 .. n}
    /\ LET req == <<c, Head(peer[c].inbox)>>
       IN  /\ request' = req
           /\ conn' = [conn EXCEPT ![c].keep_alive = Kind(req) \notin {"close", "bad"}]
           /\ Goto(IF Kind(req) = "bad" THEN "post" ELSE "submit")
    /\ UNCHANGED <<event, pending_writes_, openFiles, interest, ready>>

\* End of stream, or an error; EBADF on a connection already closed.
ReadEnds(c) ==
    /\ Reading(c) /\ (conn[c].fd # NoFd => peer[c].inbox = <<>>)
    /\ peer[c].fin \/ Broken(c)
    /\ ConnBecomes(c, OnClosed(conn[c]), {})
    /\ event' = NoEvent /\ Goto("batch")
    /\ UNCHANGED <<request, pending_writes_, peer, lost>>

\* EAGAIN
ReadAgain(c) ==
    /\ Reading(c) /\ ~Broken(c) /\ ~Readable(c)
    /\ IF event.out THEN Goto("write") /\ UNCHANGED event
                    ELSE Goto("batch") /\ event' = NoEvent
    /\ UNCHANGED <<request, conn, pending_writes_, openFiles, interest, ready, peer, lost>>

\* Mutant: on_readable() returns after one request.
NextRecv_Returns == Goto("batch")

\* The callback returns to on_readable()'s loop.
NextRecv == Goto("read")

\* submit(): blocks while the task queue is full
Submit ==
    /\ pc = "submit" /\ Len(queue_) < TaskCapacity
    /\ queue_' = Append(queue_, request)
    /\ request' = NoRequest /\ NextRecv
    /\ UNCHANGED <<batch, event, connections_, conn, closed_, worker, pending_writes_,
                   openFiles, epollVars, peer>>
    /\ LoopKeeps

\* The loop's own post_response() of a 400: blocks while pending_writes_ is full
PostError ==
    /\ pc = "post" /\ Len(pending_writes_) < PendingCapacity
    /\ pending_writes_' = Append(pending_writes_, request)
    /\ WakeLoop
    /\ request' = NoRequest /\ NextRecv
    /\ UNCHANGED <<batch, event, connections_, conn, poolVars, openFiles, interest, peer>>
    /\ LoopKeeps

-----------------------------------------------------------------------------
(* drain_pending_writes(), one response at a time *)

Draining ==
    /\ pc = "drain"
    /\ UNCHANGED <<batch, event, connections_, poolVars, wakeup>> /\ LoopKeeps

DrainEnds ==
    /\ Draining /\ pending_writes_ = <<>> /\ Goto("batch")
    /\ UNCHANGED <<request, conn, pending_writes_, openFiles, interest, ready, peer>>

TakePending(req) ==
    /\ pending_writes_ # <<>> /\ req = Head(pending_writes_)
    /\ pending_writes_' = Tail(pending_writes_)

\* Mutant: the file of a response nobody waits for is not closed.
DrainDead_KeepsFile(req) ==
    /\ Draining /\ TakePending(req) /\ ~IsAlive(conn[req[1]])
    /\ UNCHANGED <<pc, request, conn, openFiles, interest, ready, peer>>

\* The connection died before its response was ready: close the file.
DrainDead(req) ==
    /\ Draining /\ TakePending(req) /\ ~IsAlive(conn[req[1]])
    /\ openFiles' = openFiles \ {req}
    /\ UNCHANGED <<pc, request, conn, interest, ready, peer>>

\* Mutant: a file is sent without its headers.
Prepared_SkipsHeaders(req) ==
    IF IsFile(req) THEN BeginSendfile(conn[req[1]], req[2], Size(req), Length(req))
                   ELSE EnqueueWrite(conn[req[1]], <<<<req[2], 0>>>>)

\* The connection of req with the response queued on it.
Prepared(req) ==
    LET queued == EnqueueWrite(conn[req[1]], <<<<req[2], 0>>>>)
    IN  IF IsFile(req) THEN BeginSendfile(queued, req[2], Size(req), Length(req)) ELSE queued

\* Mutant: one response per wakeup.
NextPending_Once == "batch"

\* Where drain_pending_writes() goes on after a response.
NextPending == "drain"

DrainWrite(req) ==
    /\ Draining /\ TakePending(req) /\ IsAlive(conn[req[1]])
    /\ Flush(req[1], Prepared(req), "arm", NextPending)
    /\ request' = IF pc' = "arm" THEN req ELSE NoRequest

\* Something is left: register for EPOLLOUT too.
Arm ==
    /\ pc = "arm" /\ Goto("drain")
    /\ Register(conn[request[1]].fd, request[1], "inout")
    /\ request' = NoRequest
    /\ UNCHANGED <<batch, event, connections_, conn, poolVars, pending_writes_, openFiles,
                   wakeup, peer>>
    /\ LoopKeeps

-----------------------------------------------------------------------------
(* The EPOLLOUT half of handle_event() *)

\* Mutant: EPOLLOUT is dropped after every write event.
IfUnsent_Disarms == "disarm"

\* Where handle_event() goes on when flush_write() left something.
IfUnsent == "batch"

Write(c) ==
    /\ pc = "write" /\ c = connections_[event.fd]
    /\ Flush(c, conn[c], IfUnsent, "disarm")
    /\ event' = IF pc' = "disarm" THEN event ELSE NoEvent
    /\ UNCHANGED <<batch, request, connections_, poolVars, pending_writes_, wakeup>>
    /\ LoopKeeps

\* Nothing is left: drop EPOLLOUT.  epoll_ctl(MOD) of a descriptor that is not
\* registered fails, and modify() throws.
Disarm ==
    /\ pc = "disarm"
    /\ event' = NoEvent
    /\ IF interest[event.fd] # "none"
       THEN /\ Goto("batch")
            /\ Register(event.fd, SocketOf(event.fd), "in")
            /\ UNCHANGED <<batch, closed_>>
       ELSE Throw /\ UNCHANGED <<interest, ready>>
    /\ UNCHANGED <<request, connections_, conn, queue_, worker, pending_writes_, openFiles,
                   wakeup, peer>>
    /\ LoopKeeps

-----------------------------------------------------------------------------
(* The way out: ThreadPool::shutdown() closes the task queue and joins the   *)
(* workers; then the connections and the loop itself are destroyed, and with *)
(* them every response that is not sent.  A SendfileOp closes its file, a     *)
(* PendingWrite does not.                                                    *)

Leave ==
    /\ pc = "top" /\ ~running_ /\ Goto("join")
    /\ ClosePool
    /\ UNCHANGED <<batch, event, request, connections_, conn, queue_, worker,
                   pending_writes_, openFiles, epollVars, peer>>
    /\ LoopKeeps

\* The requests whose response waits in pending_writes_ or in a write buffer.
Unsent ==
    ToSet(pending_writes_)
    \cup {req \in Requests : /\ conn[req[1]].fd # NoFd
                             /\ <<req[2], 0>> \in ToSet(conn[req[1]].write_buf)}

\* connections_.clear() and ~EventLoop: nobody but the clients runs in between.
Joined ==
    /\ pc \in {"join", "unwind"} /\ \A w \in Workers : worker[w].pc = "exited"
    /\ Goto(IF pc = "join" THEN "done" ELSE "dead")
    /\ connections_' = <<>> /\ pending_writes_' = <<>> /\ lost' = lost \cup Unsent
    /\ conn' = [c \in Clients |->
                   IF conn[c].fd = NoFd THEN conn[c]
                   ELSE [NewConnection(NoFd) EXCEPT !.state = "Destroyed"]]
    /\ openFiles' = openFiles \ UNION {FileOf(c, conn[c]) : c \in Clients}
    /\ interest' = [fd \in Fds |-> "none"] /\ ready' = {} /\ backlog' = {}
    /\ UNCHANGED <<batch, event, request, running_, poolVars, wakeup, peer, stop>>

-----------------------------------------------------------------------------
(* Worker threads: ThreadPool::worker_loop() and the task main.cpp submits. *)

WorkerMoves(w, label, req) ==
    /\ worker' = [worker EXCEPT ![w] = [pc |-> label, req |-> req]]
    /\ UNCHANGED <<loopVars, conn, closed_, interest, backlog, peer, stop, lost>>

WorkerTake(w) ==
    /\ worker[w].pc = "pop" /\ queue_ # <<>>
    /\ queue_' = Tail(queue_)
    /\ WorkerMoves(w, "run", Head(queue_))
    /\ UNCHANGED <<pending_writes_, openFiles, ready, wakeup>>

\* Mutant: pop() gives up as soon as the queue is closed.
PopEnds_Undrained == closed_

PopEnds == closed_ /\ queue_ = <<>>

WorkerExit(w) ==
    /\ worker[w].pc = "pop" /\ PopEnds
    /\ WorkerMoves(w, "exited", NoRequest)
    /\ UNCHANGED <<queue_, pending_writes_, openFiles, ready, wakeup>>

\* The handler throws: worker_loop() catches, and nothing is posted.
HandlerThrows(w) ==
    /\ worker[w].pc = "run" /\ Kind(worker[w].req) = "throw"
    /\ WorkerMoves(w, "pop", NoRequest)
    /\ UNCHANGED <<queue_, pending_writes_, openFiles, ready, wakeup>>

\* dispatch(): the response is ready, with its file open if it is a file.
HandlerReturns(w) ==
    /\ worker[w].pc = "run" /\ Kind(worker[w].req) # "throw"
    /\ openFiles' = IF IsFile(worker[w].req) THEN openFiles \cup {worker[w].req}
                                             ELSE openFiles
    /\ WorkerMoves(w, "post", worker[w].req)
    /\ UNCHANGED <<queue_, pending_writes_, ready, wakeup>>

\* post_response(): push, which blocks while pending_writes_ is full ...
WorkerPost(w) ==
    /\ worker[w].pc = "post" /\ Len(pending_writes_) < PendingCapacity
    /\ pending_writes_' = Append(pending_writes_, worker[w].req)
    /\ WorkerMoves(w, "notify", NoRequest)
    /\ UNCHANGED <<queue_, openFiles, ready, wakeup>>

\* ... then write the eventfd, which fails once ~EventLoop has closed it.
WorkerNotify(w) ==
    /\ worker[w].pc = "notify"
    /\ IF pc = "unwind" THEN UNCHANGED <<ready, wakeup>> ELSE WakeLoop
    /\ WorkerMoves(w, "pop", NoRequest)
    /\ UNCHANGED <<queue_, pending_writes_, openFiles>>

-----------------------------------------------------------------------------
StartUp ==
    \/ MakeTcp \/ CreateEpoll \/ StartPool \/ SetOptions \/ Bind \/ Listen \/ AddListen
    \/ AddWakeup \/ InstallHandlers \/ BuildRouter \/ StartFails \/ Run

LoopStep ==
    \/ StartUp \/ Poll \/ Reap
    \/ \E e \in batch : \/ HandleListen(e) \/ HandleWakeup(e)
                        \/ HandleClosed(e) \/ HandleIo(e)
    \/ AcceptNothing \/ AcceptOne \/ AcceptThrows
    \/ \E c \in Clients : ReadRequest(c) \/ ReadEnds(c) \/ ReadAgain(c) \/ Write(c)
    \/ Submit \/ PostError
    \/ DrainEnds \/ Arm \/ Disarm
    \/ \E req \in Requests : DrainDead(req) \/ DrainWrite(req)
    \/ Leave \/ Joined

WorkerStep(w) ==
    \/ WorkerTake(w) \/ WorkerExit(w) \/ HandlerThrows(w) \/ HandlerReturns(w)
    \/ WorkerPost(w) \/ WorkerNotify(w)

Environment ==
    \/ \E c \in Clients : Connect(c) \/ SendRequest(c) \/ ReadResponse(c) \/ Fin(c) \/ Rst(c)
    \/ Signal

Terminated == Ended /\ UNCHANGED vars

Next == LoopStep \/ (\E w \in Workers : WorkerStep(w)) \/ Environment \/ Terminated

Spec == Init /\ [][Next]_vars

\* The loop thread and the workers run whenever they can, handlers end, a queue
\* serves some waiting thread when it can serve one (BoundedQueue), and a client
\* that has been sent something reads it in the end.  Nothing makes a client
\* connect, ask or leave, or the operator stop the server.
Fairness ==
    /\ WF_vars(LoopStep)
    /\ WF_vars(\E w \in Workers : WorkerTake(w))
    /\ WF_vars(\E w \in Workers : WorkerPost(w))
    /\ \A w \in Workers :
           WF_vars(WorkerExit(w) \/ HandlerThrows(w) \/ HandlerReturns(w) \/ WorkerNotify(w))
    /\ \A c \in Clients : WF_vars(ReadResponse(c))

FairSpec == Spec /\ Fairness

-----------------------------------------------------------------------------
Serving == ~StartingUp /\ pc \notin {"join", "unwind", "done", "dead"}

(* Types; and no worker runs any more when the loop is gone, however it ended. *)
TypeOK ==
    /\ Ended => \A w \in Workers : worker[w].pc \in {"unborn", "exited"}
    /\ StartingUp \/ pc \in {"top", "batch", "accept", "read", "submit", "post", "drain", "arm",
               "write", "disarm", "join", "unwind", "done", "dead"}
    /\ \A e \in batch : e.fd \in Fds
    /\ event.fd \in ClientFds \cup {0}
    /\ request \in Requests \cup {NoRequest}
    /\ running_ \in BOOLEAN /\ closed_ \in BOOLEAN /\ wakeup \in BOOLEAN
    /\ DOMAIN connections_ \subseteq ClientFds
    /\ \A fd \in DOMAIN connections_ : connections_[fd] \in Clients
    /\ \A c \in Clients : conn[c].fd \in ClientFds \cup {NoFd} /\ peer[c].room \in 0 .. SockRoom
    /\ queue_ \in Seq(Requests) /\ Len(queue_) <= TaskCapacity
    /\ pending_writes_ \in Seq(Requests) /\ Len(pending_writes_) <= PendingCapacity
    /\ \A w \in Workers : worker[w].pc \in {"unborn", "pop", "run", "post", "notify", "exited"}
    /\ openFiles \subseteq Requests
    /\ interest \in [Fds -> {"none", "in", "inout"}]
    /\ ready \subseteq Fds
    /\ backlog \subseteq Clients
    /\ stop \in {"no", "early", "late"} /\ lost \subseteq Requests

\* The descriptor of a served file has exactly one owner as long as the loop
\* lives, on its way from the worker through pending_writes_ into the SendfileOp:
\* it is never leaked, and never closed under somebody who still uses it, whenever
\* the connection dies and whatever replaces a transfer in progress
\* (pending_write.hpp:14-15, event_loop.cpp:115-129, connection.cpp:16-37).  When
\* the loop is destroyed nobody owns a file any more; those that are open all the
\* same belong to responses destroyed unsent, since a PendingWrite closes nothing.
FileOwners(req) ==
      Cardinality({w \in Workers : worker[w].pc = "post" /\ worker[w].req = req})
    + Cardinality({k \in DOMAIN pending_writes_ : pending_writes_[k] = req})
    + Cardinality({c \in Clients : req \in FileOf(c, conn[c])})

FileOwnedOnce ==
    \A req \in Requests : IsFile(req) =>
        IF Ended THEN FileOwners(req) = 0 /\ (req \in openFiles => req \in lost)
                 ELSE FileOwners(req) = IF req \in openFiles THEN 1 ELSE 0

\* The table, the sockets and epoll agree: an open socket is registered and in
\* the table under its own descriptor, nothing else is registered, between two
\* batches the table holds no dead connection, and no event is stale
\* (accept_new_connections, on_closed with its callback, remove_connection).
TableMatchesEpoll ==
    /\ \A c \in Clients : conn[c].fd # NoFd =>
           /\ conn[c].fd \in DOMAIN connections_ /\ connections_[conn[c].fd] = c
           /\ interest[conn[c].fd] # "none"
    /\ \A fd \in ClientFds : interest[fd] # "none" => \E c \in Clients : conn[c].fd = fd
    /\ pc = "top" => \A fd \in DOMAIN connections_ : conn[connections_[fd]].fd = fd
    /\ \A e \in batch : e.fd \in ClientFds => e.fd \in DOMAIN connections_

\* No wakeup is lost between post_response() (push, then eventfd write) and
\* drain_pending_writes() (eventfd read, then pop until empty): while a
\* response is pending somebody is about to see it.
PendingIsAnnounced ==
    Serving /\ pending_writes_ # <<>> =>
        \/ wakeup /\ WakeupFd \in ready
        \/ \E e \in batch : e.fd = WakeupFd
        \/ pc \in {"drain", "arm"}
        \/ \E w \in Workers : worker[w].pc = "notify"

\* The edge-triggered descriptors are drained before an edge is let go: input
\* that has arrived is being read or announced by an edge still to come
\* (Connection::on_readable reads until EAGAIN, also across Submit's blocking).
HandledNow(c) == event.fd # 0 /\ connections_[event.fd] = c

InputIsAnnounced ==
    Serving => \A c \in Clients :
        conn[c].fd # NoFd /\ Readable(c) =>
            \/ conn[c].fd \in ready
            \/ \E e \in batch : e.fd = conn[c].fd /\ (e.in \/ e.closed)
            \/ pc \in {"read", "submit", "post"} /\ HandledNow(c)

\* Nothing is left unsent on a socket that has room without EPOLLOUT being
\* armed and an edge on its way: a partial write always resumes
\* (drain_pending_writes and handle_event with flush_write and modify).
OutputIsAnnounced ==
    Serving => \A c \in Clients :
        conn[c].fd # NoFd /\ HasUnsent(conn[c]) =>
            \/ pc = "arm" /\ request[1] = c
            \/ /\ interest[conn[c].fd] = "inout"
               /\ \/ peer[c].room = 0 \/ conn[c].fd \in ready
                  \/ \E e \in batch : e.fd = conn[c].fd /\ (e.out \/ e.closed)
                  \/ /\ pc \in {"read", "submit", "post", "write"}
                     /\ HandledNow(c) /\ event.out

\* Even with pipelining, partial writes and replaced transfers, no unit of a
\* response is sent twice or out of its order within the response.
UnitsInOrder ==
    \A c \in Clients : \A p, q \in DOMAIN peer[c].got :
        p < q /\ peer[c].got[p][1] = peer[c].got[q][1] => peer[c].got[p][2] < peer[c].got[q][2]

\* The listening socket is edge-triggered too: from the moment it is watched, a
\* connection waiting to be accepted is announced, or is being accepted, also one
\* that came between listen() and epoll_.add().  The exception is the code's
\* own: once accept4 has failed with ECONNABORTED the loop has stopped early
\* (EventLoop::EventLoop, accept_new_connections, Socket::accept).
AcceptAborted == \E c \in Clients : peer[c].connected /\ c \notin backlog /\ conn[c].state = "None"

BacklogIsAnnounced ==
    /\ interest[ListenFd] # "none" /\ pc \notin {"join", "unwind"}
    /\ backlog # {} /\ ~AcceptAborted
    => \/ ListenFd \in ready \/ \E e \in batch : e.fd = ListenFd
       \/ pc = "accept"

\* A request is at one place at a time, on its way from the socket through the
\* loop's hands, the task queue, a worker, pending_writes_ and the write buffer to
\* the client, and never at two.  It leaves that way for one of these reasons only:
\* its socket was closed before it was read, consume_all() discarded it, its handler
\* threw, its connection died, or the loop was destroyed with its response unsent.
\* The task queue is no place after the end and has no part in the last reason: the
\* workers drain it before they are joined (main.cpp:91-136, thread_pool.cpp:54-68,
\* event_loop.cpp:39-136).
Count(seq, x) == Cardinality({k \in DOMAIN seq : seq[k] = x})

\* The kernel throws away what has arrived in a socket that is closed.
Reachable(c) == c \in backlog \/ conn[c].fd # NoFd

Places(req) ==
    LET c == req[1]
        headers == <<req[2], 0>>
    IN  (IF Reachable(c) THEN Count(peer[c].inbox, req[2]) ELSE 0)
        + (IF pc \in {"submit", "post"} /\ request = req THEN 1 ELSE 0)
        + (IF Ended THEN 0 ELSE Count(queue_, req))
        + Cardinality({w \in Workers : worker[w].pc \in {"run", "post"} /\ worker[w].req = req})
        + Count(pending_writes_, req)
        + (IF conn[c].fd # NoFd THEN Count(conn[c].write_buf, headers) ELSE 0)
        + Count(peer[c].got, headers)

ClosedUnread(req) == ~Reachable(req[1]) /\ req[2] \in ToSet(peer[req[1]].inbox)

RequestInOnePlace ==
    \A req \in Requests :
        \/ Places(req) = 1 /\ req \notin lost /\ ~ClosedUnread(req)
        \/ /\ \/ req[2] > peer[req[1]].asked \/ ClosedUnread(req) \/ req \in lost
              \/ Kind(req) = "throw" \/ conn[req[1]].state = "Closed"
           /\ Places(req) = 0

\* stop() ends run(), with all its workers joined.
StopEndsRun == (stop = "late") ~> (pc = "done")

-----------------------------------------------------------------------------
(* The plain service in terms of this server: what a client has asked and    *)
(* received, and whether the operator has stopped the server.  A handler     *)
(* that throws posts nothing, and a file that shrinks is not owed in full.   *)
Service == INSTANCE HttpService WITH
    Answers <- [c \in Clients |-> [i \in 1 .. Len(Script[c]) |-> Response(<<c, i>>)]],
    Owed <- {req \in Requests : Kind(req) \notin {"throw", "short"}},
    asked <- [c \in Clients |-> peer[c].asked],
    got <- [c \in Clients |-> peer[c].got],
    stopped <- (stop # "no")

\* Where clients wait for each answer, loop, workers, sockets and epoll together
\* implement the plain service: each client receives the answers to its own
\* requests, in order, headers before body, nothing twice and nothing else, through
\* however many partial writes (drain_pending_writes(), flush_write()).
AnswersInOrder == Service!Spec

\* Where besides the queues hold what is in flight, every request whose handler
\* returns is answered in full, unless the operator stops the server meanwhile.
AnswersArrive == Service!Answered

-----------------------------------------------------------------------------
(* What comments and documents of the repository say, and the code does not  *)
(* keep in every configuration: each is checked, and found violated, by a    *)
(* run of its own.                                                           *)

\* "the caller blocks until a consumer drains it" (task_queue.hpp:19): submit()
\* on the loop thread comes back.
SubmitReturns == pc = "submit" ~> pc # "submit"

\* "Modify the event mask for an already-registered fd" (epoll.hpp:83).
ModifiesOnlyRegistered == pc = "disarm" => interest[event.fd] # "none"

\* "malformed request, send 400 and close" (parser.hpp:21).
MalformedIsClosed ==
    \A c \in Clients : \A i \in 1 .. Len(Script[c]) :
        Kind(<<c, i>>) = "bad" => (IsPrefix(Stream(c, i), peer[c].got) ~> (conn[c].fd = NoFd))

=============================================================================
