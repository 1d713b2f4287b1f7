------------------------ MODULE EventLoopTableProofs ------------------------
(***************************************************************************)
(* The eventfd, the loop's table of connections, the sockets and the       *)
(* edge-triggered epoll instance, for any clients and scripts, any number  *)
(* of workers, descriptors and events per batch, and all capacities: no    *)
(* response goes unnoticed; types, no stale descriptor, and no edge that   *)
(* is let go with something left to do.                                    *)
(***************************************************************************)
EXTENDS EventLoop, WellFoundedInduction, TLAPS

(* The eventfd *)

(* Parts of the types, as far as the proof needs them: what an update of a   *)
(* connection and of a worker leaves alone ...                               *)
ConnShape(cn) ==
    cn = [fd |-> cn.fd, state |-> cn.state, keep_alive |-> cn.keep_alive,
          write_buf |-> cn.write_buf, sendfile_op |-> cn.sendfile_op]

(* ... and that no connection ever has the eventfd's number.                 *)
Apart ==
    /\ conn = [c \in Clients |-> conn[c]]
    /\ \A c \in Clients : ConnShape(conn[c]) /\ conn[c].fd # WakeupFd
    /\ WakeupFd \notin DOMAIN connections_
    /\ \A fd \in DOMAIN connections_ : connections_[fd] \in Clients
    /\ worker = [w \in Workers |-> worker[w]]

LEMMA OnClosedShape ==
    ASSUME NEW cn, ConnShape(cn)
    PROVE  ConnShape(OnClosed(cn)) /\ OnClosed(cn).fd \in {cn.fd, NoFd}
BY DEF ConnShape, OnClosed

(* flush_write() closes the socket or keeps it. *)
LEMMA FlushShape ==
    ASSUME NEW cn, ConnShape(cn), NEW room, NEW broken
    PROVE  LET f == FlushWrite(cn, room, broken)
           IN  ConnShape(f.conn) /\ f.conn.fd \in {cn.fd, NoFd}
<1>1. CASE broken /\ HasUnsent(cn)
  <2>1. FlushWrite(cn, room, broken).conn = OnClosed(cn)
    BY <1>1 DEF FlushWrite
  <2> QED
    BY <2>1, OnClosedShape
<1>2. CASE ~(broken /\ HasUnsent(cn))
  <2> DEFINE op == cn.sendfile_op
             fromBuf == Smaller(Len(cn.write_buf), room)
             buf == SubSeq(cn.write_buf, fromBuf + 1, Len(cn.write_buf))
             fromFile == IF buf = <<>> THEN Smaller(Deliverable(op), room - fromBuf) ELSE 0
             rest == [op EXCEPT !.offset = @ + fromFile, !.remaining = @ - fromFile]
             drained == buf = <<>> /\ ~Active(rest)
             sendfile == IF drained THEN NoSendfile ELSE rest
             state == IF drained THEN IF cn.keep_alive THEN "Reading" ELSE "Closing"
                      ELSE cn.state
  <2>1. FlushWrite(cn, room, broken).conn
            = [cn EXCEPT !.write_buf = buf, !.sendfile_op = sendfile, !.state = state]
    BY <1>2 DEF FlushWrite, ConnShape
  <2> HIDE DEF buf, sendfile, state
  <2> QED
    BY <2>1 DEF ConnShape
<1> QED
  BY <1>1, <1>2

LEMMA PreparedShape ==
    ASSUME NEW req, ConnShape(conn[req[1]])
    PROVE  ConnShape(Prepared(req)) /\ Prepared(req).fd = conn[req[1]].fd
BY DEF Prepared, EnqueueWrite, BeginSendfile, ConnShape

(* accept4 never returns a descriptor that an open connection has. *)
LEMMA LowestIsFree ==
    ASSUME FreeFds # {}
    PROVE  LowestFree \in FreeFds
<1> DEFINE less == OpToRel(<, Nat)
<1>1. FreeFds \subseteq Nat
  BY EventLoopAssumption DEF FreeFds, ClientFds
<1>2. IsWellFoundedOn(less, Nat)
  BY NatLessThanWellFounded
<1>3. \A x, y \in Nat : y < x => <<y, x>> \in less
  BY DEF OpToRel
<1> HIDE DEF less
<1>4. PICK x \in FreeFds : \A y \in FreeFds : ~(<<y, x>> \in less)
  BY <1>1, <1>2, WFMin
<1>5. ASSUME NEW y \in FreeFds PROVE x <= y
  <2>1. x \in Nat /\ y \in Nat
    BY <1>1
  <2>2. ~(y < x)
    BY <1>3, <1>4, <2>1
  <2> QED
    BY <2>1, <2>2
<1> QED
  BY <1>1, <1>4, <1>5 DEF LowestFree

LEMMA ClientFdsApart == WakeupFd \notin ClientFds /\ WakeupFd # NoFd
BY EventLoopAssumption DEF ClientFds, WakeupFd, NoFd

LEMMA ClientOfRequest ==
    ASSUME NEW req \in Requests
    PROVE  req[1] \in Clients
BY DEF Requests

-----------------------------------------------------------------------------
LEMMA ConnBecomesApart ==
    ASSUME Apart, NEW c \in Clients, NEW cn, NEW dropped,
           ConnShape(cn), cn.fd \in {conn[c].fd, NoFd}, ConnBecomes(c, cn, dropped),
           UNCHANGED <<connections_, worker>>
    PROVE  Apart'
<1>1. conn' = [conn EXCEPT ![c] = cn]
  BY DEF ConnBecomes
<1>2. conn'[c] = cn /\ \A d \in Clients \ {c} : conn'[d] = conn[d]
  BY <1>1 DEF Apart
<1>3. conn' = [d \in Clients |-> conn'[d]]
  BY <1>1 DEF Apart
<1> QED
  BY <1>2, <1>3, ClientFdsApart DEF Apart

LEMMA FlushApart ==
    ASSUME Apart, NEW c \in Clients, NEW cn, NEW left, NEW done,
           ConnShape(cn), cn.fd = conn[c].fd, Flush(c, cn, left, done),
           UNCHANGED <<connections_, worker>>
    PROVE  Apart'
<1> DEFINE f == FlushWrite(cn, Room(c), Broken(c))
<1>1. ConnBecomes(c, f.conn, FileOf(c, cn) \ FileOf(c, f.conn))
  BY DEF Flush
<1>2. ConnShape(f.conn) /\ f.conn.fd \in {conn[c].fd, NoFd}
  BY FlushShape
<1> HIDE DEF f
<1> QED
  BY <1>1, <1>2, ConnBecomesApart

-----------------------------------------------------------------------------
(* Until run() nothing is on its way, and a batch is handled before the next *)
(* one is fetched.                                                           *)
Phases ==
    /\ StartingUp \/ pc = "top" => batch = {}
    /\ StartingUp => /\ pending_writes_ = <<>> /\ queue_ = <<>>
                     /\ \A w \in Workers : worker[w].pc \notin {"run", "post", "notify"}

EventfdInv == Apart /\ Phases /\ PendingIsAnnounced

(* A response stays announced while the announcement lasts. *)
LEMMA StillAnnounced ==
    ASSUME PendingIsAnnounced,
           Serving' => Serving,
           pending_writes_' # <<>> => pending_writes_ # <<>>,
           wakeup /\ WakeupFd \in ready => wakeup' /\ WakeupFd \in ready',
           \A e \in batch : e.fd = WakeupFd => e \in batch',
           pc \in {"drain", "arm"} => pc' \in {"drain", "arm"} \/ pending_writes_' = <<>>,
           \A w \in Workers : worker[w].pc = "notify" => worker'[w].pc = "notify"
    PROVE  PendingIsAnnounced'
BY DEF PendingIsAnnounced

LEMMA SameApart ==
    ASSUME Apart, UNCHANGED <<conn, connections_, worker>>
    PROVE  Apart'
BY DEF Apart, ConnShape

(* Once the loop runs, Phases is only about the batch. *)
LEMMA RunningPhases ==
    ASSUME ~StartingUp', pc' = "top" => batch' = {}
    PROVE  Phases'
BY DEF Phases

(* What happens around the loop leaves the eventfd and its readers alone. *)
LEMMA EnvironmentKeepsInv ==
    ASSUME EventfdInv, Environment
    PROVE  EventfdInv'
<1>1. /\ UNCHANGED <<pc, batch, conn, connections_, worker, queue_, pending_writes_, wakeup>>
      /\ ready \subseteq ready'
  <2>1. CASE Signal
    BY <2>1 DEF Signal, poolVars, epollVars
  <2>2. ASSUME NEW c \in Clients, Connect(c) \/ SendRequest(c) \/ ReadResponse(c) \/ Fin(c) \/ Rst(c)
        PROVE  /\ UNCHANGED <<pc, batch, conn, connections_, worker, queue_, pending_writes_, wakeup>>
               /\ ready \subseteq ready'
    BY <2>2 DEF Connect, SendRequest, ReadResponse, Fin, Rst, Edge, ServerUntouched, loopVars, poolVars
  <2> QED
    BY <2>1, <2>2 DEF Environment
<1>2. Apart'
  BY <1>1, SameApart DEF EventfdInv
<1>3. Phases'
  BY <1>1 DEF EventfdInv, Phases, StartingUp, Constructing
<1>4. PendingIsAnnounced'
  BY <1>1 DEF EventfdInv, PendingIsAnnounced, Serving, StartingUp, Constructing
<1> QED
  BY <1>2, <1>3, <1>4 DEF EventfdInv

(* A worker that has pushed a response is about to write the eventfd. *)
LEMMA WorkerKeepsInv ==
    ASSUME EventfdInv, NEW w \in Workers, WorkerStep(w)
    PROVE  EventfdInv'
<1> USE DEF EventfdInv
<1>1. PICK label, req : WorkerMoves(w, label, req)
  BY DEF WorkerStep, WorkerTake, WorkerExit, HandlerThrows, HandlerReturns, WorkerPost, WorkerNotify
<1>2. /\ worker'[w] = [pc |-> label, req |-> req]
      /\ \A other \in Workers \ {w} : worker'[other] = worker[other]
      /\ worker' = [x \in Workers |-> worker'[x]]
  BY <1>1 DEF WorkerMoves, Apart
<1>3. UNCHANGED <<pc, batch, conn, connections_>>
  BY <1>1 DEF WorkerMoves, loopVars
<1>4. Apart'
  BY <1>2, <1>3 DEF Apart, ConnShape
<1>5. Phases'
  <2>1. CASE StartingUp
    <3>1. WorkerExit(w)
      BY <2>1 DEF Phases, WorkerStep, WorkerTake, HandlerThrows, HandlerReturns, WorkerPost, WorkerNotify
    <3>2. worker'[w].pc = "exited" /\ UNCHANGED <<pending_writes_, queue_>>
      BY <3>1 DEF WorkerExit, WorkerMoves, Apart
    <3> QED
      BY <2>1, <1>2, <1>3, <3>2 DEF Phases, StartingUp, Constructing
  <2>2. CASE ~StartingUp
    BY <2>2, <1>3 DEF Phases, StartingUp, Constructing
  <2> QED
    BY <2>1, <2>2
<1>6. PendingIsAnnounced'
  <2>1. CASE WorkerPost(w)
    <3>1. worker'[w].pc = "notify"
      BY <2>1 DEF WorkerPost, WorkerMoves, Apart
    <3> QED
      BY <3>1 DEF PendingIsAnnounced
  <2>2. CASE WorkerNotify(w)
    <3>1. pc = "unwind" \/ WakeLoop
      BY <2>2 DEF WorkerNotify
    <3> QED
      BY <3>1, <1>3 DEF PendingIsAnnounced, Serving, WakeLoop
  <2>3. CASE WorkerTake(w) \/ WorkerExit(w) \/ HandlerThrows(w) \/ HandlerReturns(w)
    <3>1. UNCHANGED <<pending_writes_, ready, wakeup>> /\ worker[w].pc # "notify"
      BY <2>3 DEF WorkerTake, WorkerExit, HandlerThrows, HandlerReturns
    <3> QED
      BY <3>1, <1>2, <1>3 DEF PendingIsAnnounced, Serving, StartingUp, Constructing
  <2> QED
    BY <2>1, <2>2, <2>3 DEF WorkerStep
<1> QED
  BY <1>4, <1>5, <1>6

(* Nothing can be pending before run(). *)
LEMMA StartUpKeepsInv ==
    ASSUME EventfdInv, StartUp
    PROVE  EventfdInv'
<1> USE DEF EventfdInv
<1>1. /\ UNCHANGED <<batch, conn, connections_, queue_, pending_writes_>> /\ StartingUp
      /\ worker' = worker \/ worker' = [w \in Workers |-> [pc |-> "pop", req |-> NoRequest]]
  BY DEF StartUp, MakeTcp, CreateEpoll, StartPool, SetOptions, Bind, Listen, AddListen, AddWakeup,
         InstallHandlers, BuildRouter, StartFails, Run, Pass, Enter, StartingUp, Constructing
<1>2. Apart'
  BY <1>1 DEF Apart, ConnShape
<1>3. Phases'
  BY <1>1 DEF Phases
<1>4. PendingIsAnnounced'
  BY <1>1 DEF Phases, PendingIsAnnounced
<1> QED
  BY <1>2, <1>3, <1>4

(* The batch takes the announcement over from the ready list. *)
LEMMA PollKeepsInv ==
    ASSUME EventfdInv, Poll
    PROVE  EventfdInv'
<1> USE DEF EventfdInv
<1>1. Apart'
  BY SameApart DEF Poll, poolVars
<1>2. Phases'
  BY RunningPhases DEF Poll, Goto, StartingUp, Constructing
<1>3. ASSUME pending_writes_' # <<>> PROVE PendingIsAnnounced'
  <2>1. PICK some \in SUBSET Reports : batch' = some /\ ready' = {e.fd : e \in Reports \ some}
    BY DEF Poll
  <2>2. /\ pc = "top" /\ UNCHANGED <<pending_writes_, wakeup, worker>> /\ batch = {}
        /\ Serving
    BY DEF Poll, poolVars, Phases, Serving, StartingUp, Constructing
  <2>3. CASE wakeup /\ WakeupFd \in ready
    <3> DEFINE report == [NoEvent EXCEPT !.fd = WakeupFd, !.in = TRUE]
    <3>1. report.fd = WakeupFd
      BY DEF NoEvent
    <3>2. report \in Reports
      BY <2>3 DEF Reports
    <3> HIDE DEF report
    <3>3. CASE report \in some
      BY <2>1, <3>1, <3>3 DEF PendingIsAnnounced
    <3>4. CASE report \notin some
      BY <2>1, <2>2, <2>3, <3>1, <3>2, <3>4 DEF PendingIsAnnounced
    <3> QED
      BY <3>3, <3>4
  <2>4. CASE \E w \in Workers : worker[w].pc = "notify"
    BY <2>2, <2>4 DEF PendingIsAnnounced
  <2> QED
    BY <1>3, <2>2, <2>3, <2>4 DEF PendingIsAnnounced
<1>4. PendingIsAnnounced'
  BY <1>3 DEF PendingIsAnnounced
<1> QED
  BY <1>1, <1>2, <1>4

(* Handling the eventfd leads to draining; no other event is the eventfd's. *)
LEMMA HandleKeepsInv ==
    ASSUME EventfdInv, NEW e \in batch,
           HandleListen(e) \/ HandleWakeup(e) \/ HandleClosed(e) \/ HandleIo(e)
    PROVE  EventfdInv'
<1> USE DEF EventfdInv
<1>1. /\ pc = "batch" /\ batch' = batch \ {e}
      /\ UNCHANGED <<connections_, worker, pending_writes_>>
      /\ Serving
  BY DEF HandleListen, HandleWakeup, HandleClosed, HandleIo, Handle, poolVars, Serving,
         StartingUp, Constructing
<1>2. pc' \in {"accept", "drain", "batch", "read", "write"}
  BY <1>1 DEF HandleListen, HandleWakeup, HandleClosed, HandleIo, Goto
<1>3. Phases'
  BY <1>2, RunningPhases DEF StartingUp, Constructing
<1>4. CASE HandleListen(e) \/ HandleIo(e)
  <2>1. UNCHANGED <<conn, ready, wakeup>>
    BY <1>4 DEF HandleListen, HandleIo, epollVars
  <2>2. e.fd # WakeupFd
    BY <1>4 DEF HandleListen, HandleIo, Apart, ListenFd, WakeupFd
  <2>3. Apart'
    BY <1>1, <2>1, SameApart
  <2>4. PendingIsAnnounced'
    BY <1>1, <2>1, <2>2, StillAnnounced
  <2> QED
    BY <1>3, <2>3, <2>4
<1>5. CASE HandleWakeup(e)
  <2>1. pc' = "drain" /\ UNCHANGED conn
    BY <1>5 DEF HandleWakeup, Goto
  <2>2. Apart' /\ PendingIsAnnounced'
    BY <1>1, <2>1, SameApart DEF PendingIsAnnounced
  <2> QED
    BY <1>3, <2>2
<1>6. CASE HandleClosed(e)
  <2> DEFINE c == connections_[e.fd]
  <2>1. ConnBecomes(c, OnClosed(conn[c]), {}) /\ UNCHANGED wakeup /\ e.fd # WakeupFd /\ c \in Clients
    BY <1>6 DEF HandleClosed, Apart
  <2>2. ConnShape(conn[c]) /\ conn[c].fd # WakeupFd
    BY <2>1 DEF Apart
  <2> HIDE DEF c
  <2>3. Apart'
    BY <1>1, <2>1, <2>2, OnClosedShape, ConnBecomesApart
  <2>4. WakeupFd \in ready => WakeupFd \in ready'
    BY <2>1, <2>2 DEF ConnBecomes
  <2>5. PendingIsAnnounced'
    BY <1>1, <2>1, <2>4, StillAnnounced
  <2> QED
    BY <1>3, <2>3, <2>5
<1> QED
  BY <1>4, <1>5, <1>6

(* Forgetting the dead connections does not touch the eventfd. *)
LEMMA ReapKeepsInv ==
    ASSUME EventfdInv, Reap
    PROVE  EventfdInv'
<1> USE DEF EventfdInv
<1>1. /\ pc = "batch" /\ pc' = "top" /\ UNCHANGED <<batch, conn, worker, pending_writes_, wakeup>>
      /\ batch = {} /\ ready' = ready \ Dead
      /\ connections_' = [fd \in DOMAIN connections_ \ Dead |-> connections_[fd]]
  BY DEF Reap, Goto, poolVars
<1>2. WakeupFd \notin Dead
  BY DEF Dead, Apart
<1>3. Apart'
  BY <1>1 DEF Apart, ConnShape
<1>4. Phases'
  BY <1>1, RunningPhases DEF StartingUp, Constructing
<1>5. PendingIsAnnounced'
  BY <1>1, <1>2, StillAnnounced DEF Serving, StartingUp, Constructing
<1> QED
  BY <1>3, <1>4, <1>5

(* Only clients are ever waiting to be accepted. *)
BacklogKnown == backlog \subseteq Clients

LEMMA BacklogStaysKnown ==
    ASSUME BacklogKnown, [Next]_vars
    PROVE  BacklogKnown'
<1> USE DEF BacklogKnown
<1>1. ASSUME NEW w \in Workers, WorkerStep(w) PROVE UNCHANGED backlog
  BY <1>1 DEF WorkerStep, WorkerTake, WorkerExit, HandlerThrows, HandlerReturns, WorkerPost,
              WorkerNotify, WorkerMoves
<1>2. CASE Environment
  BY <1>2 DEF Environment, Connect, SendRequest, ReadResponse, Fin, Rst, Signal
<1>3. CASE StartUp
  BY <1>3 DEF StartUp, MakeTcp, CreateEpoll, StartPool, SetOptions, Bind, Listen, AddListen,
              AddWakeup, InstallHandlers, BuildRouter, StartFails, Run, Pass, Enter
<1>4. CASE AcceptNothing \/ AcceptOne \/ AcceptThrows \/ Joined
  BY <1>4 DEF AcceptNothing, AcceptOne, AcceptThrows, Joined
<1>5. ASSUME NEW c \in Clients, ReadRequest(c) \/ ReadEnds(c) \/ ReadAgain(c) \/ Write(c)
      PROVE  UNCHANGED backlog
  BY <1>5 DEF ReadRequest, ReadEnds, ReadAgain, Reading, Write, LoopKeeps
<1>6. ASSUME NEW req \in Requests, DrainDead(req) \/ DrainWrite(req) PROVE UNCHANGED backlog
  BY <1>6 DEF DrainDead, DrainWrite, Draining, LoopKeeps
<1>7. ASSUME NEW e \in batch, HandleListen(e) \/ HandleWakeup(e) \/ HandleClosed(e) \/ HandleIo(e)
      PROVE  UNCHANGED backlog
  BY <1>7 DEF HandleListen, HandleWakeup, HandleClosed, HandleIo, Handle, LoopKeeps
<1>8. CASE Poll \/ Reap \/ Submit \/ PostError \/ DrainEnds \/ Arm \/ Disarm \/ Leave
  BY <1>8 DEF Poll, Reap, Submit, PostError, DrainEnds, Draining, Arm, Disarm, Leave, LoopKeeps
<1>9. CASE UNCHANGED vars
  BY <1>9 DEF vars
<1> QED
  BY <1>1, <1>2, <1>3, <1>4, <1>5, <1>6, <1>7, <1>8, <1>9 DEF Next, LoopStep, Terminated

LEMMA AcceptKeepsInv ==
    ASSUME EventfdInv, BacklogKnown, AcceptNothing \/ AcceptOne \/ AcceptThrows
    PROVE  EventfdInv'
<1> USE DEF EventfdInv
<1>1. pc = "accept" /\ UNCHANGED <<worker, pending_writes_, wakeup>> /\ Serving
  BY DEF AcceptNothing, AcceptOne, AcceptThrows, Accepting, Serving, StartingUp, Constructing
<1>2. CASE AcceptNothing
  <2>1. pc' = "batch" /\ UNCHANGED <<batch, conn, connections_, ready>>
    BY <1>2 DEF AcceptNothing, Goto
  <2>2. Apart' /\ Phases'
    BY <1>1, <2>1, SameApart, RunningPhases DEF StartingUp, Constructing
  <2>3. PendingIsAnnounced'
    BY <1>1, <2>1, StillAnnounced
  <2> QED
    BY <2>2, <2>3
<1>3. CASE AcceptThrows
  <2>1. pc' = "unwind" /\ UNCHANGED <<conn, connections_>>
    BY <1>3 DEF AcceptThrows, Throw, Goto
  <2>2. Apart' /\ Phases'
    BY <1>1, <2>1, SameApart, RunningPhases DEF StartingUp, Constructing
  <2>3. PendingIsAnnounced'
    BY <2>1 DEF PendingIsAnnounced, Serving
  <2> QED
    BY <2>2, <2>3
<1>4. CASE AcceptOne
  <2>1. UNCHANGED <<pc, batch>>
    BY <1>4 DEF AcceptOne
  <2>2. LowestFree \in ClientFds
    BY <1>4, LowestIsFree DEF AcceptOne, FreeFds
  <2> DEFINE fd == LowestFree
  <2> HIDE DEF fd
  <2>3. PICK c \in backlog :
            \/ conn' = [conn EXCEPT ![c].state = "Destroyed"] /\ UNCHANGED <<connections_, ready>>
            \/ /\ conn' = [conn EXCEPT ![c] = NewConnection(fd)]
               /\ connections_' = [x \in DOMAIN connections_ \cup {fd} |->
                                      IF x = fd THEN c ELSE connections_[x]]
               /\ ready \subseteq ready'
    BY <1>4 DEF AcceptOne, Register, fd
  <2>4. ConnShape(NewConnection(fd))
    BY DEF ConnShape, NewConnection
  <2>5. NewConnection(fd).fd = fd /\ fd # WakeupFd
    BY <2>2, ClientFdsApart DEF NewConnection, fd
  <2>6. Apart'
    <3>1. conn' = [d \in Clients |-> conn'[d]]
      BY <2>3 DEF Apart
    <3>2. ASSUME NEW d \in Clients PROVE ConnShape(conn'[d]) /\ conn'[d].fd # WakeupFd
      <4>1. conn'[d] \in {conn[d], [conn[d] EXCEPT !.state = "Destroyed"], NewConnection(fd)}
        BY <2>3 DEF Apart
      <4>2. ConnShape([conn[d] EXCEPT !.state = "Destroyed"])
            /\ [conn[d] EXCEPT !.state = "Destroyed"].fd = conn[d].fd
        BY DEF Apart, ConnShape
      <4> QED
        BY <4>1, <4>2, <2>4, <2>5 DEF Apart
    <3>3. WakeupFd \notin DOMAIN connections_' /\ \A x \in DOMAIN connections_' : connections_'[x] \in Clients
      BY <2>3, <2>5 DEF Apart, BacklogKnown
    <3> QED
      BY <1>1, <3>1, <3>2, <3>3 DEF Apart
  <2>7. Phases'
    BY <1>1, <2>1, RunningPhases DEF StartingUp, Constructing
  <2>8. PendingIsAnnounced'
    BY <1>1, <2>1, <2>3, StillAnnounced
  <2> QED
    BY <2>6, <2>7, <2>8
<1> QED
  BY <1>2, <1>3, <1>4

(* The loop's own 400 is announced like a worker's response. *)
LEMMA ReadKeepsInv ==
    ASSUME EventfdInv,
           (\E c \in Clients : ReadRequest(c) \/ ReadEnds(c) \/ ReadAgain(c)) \/ Submit \/ PostError
    PROVE  EventfdInv'
<1> USE DEF EventfdInv
<1>1. CASE Submit \/ PostError
  <2>1. /\ pc \in {"submit", "post"} /\ pc' = "read" /\ UNCHANGED <<batch, conn, connections_, worker>>
        /\ Serving
    BY <1>1 DEF Submit, PostError, NextRecv, Goto, poolVars, Serving, StartingUp, Constructing
  <2>2. Apart' /\ Phases'
    BY <2>1, SameApart, RunningPhases DEF StartingUp, Constructing
  <2>3. CASE Submit
    <3>1. UNCHANGED <<pending_writes_, ready, wakeup>>
      BY <2>3 DEF Submit, epollVars
    <3>2. PendingIsAnnounced'
      BY <2>1, <3>1, StillAnnounced
    <3> QED
      BY <2>2, <3>2
  <2>4. CASE PostError
    BY <2>2, <2>4 DEF PostError, WakeLoop, PendingIsAnnounced
  <2> QED
    BY <1>1, <2>3, <2>4
<1>2. ASSUME NEW c \in Clients, ReadRequest(c) \/ ReadEnds(c) \/ ReadAgain(c)
      PROVE  EventfdInv'
  <2>1. /\ pc = "read" /\ UNCHANGED <<batch, connections_, worker, wakeup>> /\ Serving
        /\ pc' \in {"post", "submit", "batch", "write"} /\ UNCHANGED pending_writes_
    BY <1>2 DEF ReadRequest, ReadEnds, ReadAgain, Reading, Goto, poolVars, Serving, StartingUp,
                Constructing
  <2>2. Phases'
    BY <2>1, RunningPhases DEF StartingUp, Constructing
  <2>3. ConnShape(conn[c]) /\ conn[c].fd # WakeupFd
    BY DEF Apart
  <2>4. Apart' /\ (WakeupFd \in ready => WakeupFd \in ready')
    <3>1. CASE ReadAgain(c)
      BY <3>1, <2>1, SameApart DEF ReadAgain
    <3>2. CASE ReadEnds(c)
      <4>1. ConnBecomes(c, OnClosed(conn[c]), {})
        BY <3>2 DEF ReadEnds
      <4> QED
        BY <2>1, <2>3, <4>1, OnClosedShape, ConnBecomesApart DEF ConnBecomes
    <3>3. CASE ReadRequest(c)
      <4>1. UNCHANGED ready /\ \E k : conn' = [conn EXCEPT ![c].keep_alive = k]
        BY <3>3 DEF ReadRequest
      <4>2. PICK k : conn' = [conn EXCEPT ![c].keep_alive = k]
        BY <4>1
      <4>3. conn' = [d \in Clients |-> conn'[d]]
        BY <4>2 DEF Apart
      <4>4. ASSUME NEW d \in Clients PROVE ConnShape(conn'[d]) /\ conn'[d].fd # WakeupFd
        BY <4>2 DEF Apart, ConnShape
      <4> QED
        BY <2>1, <4>1, <4>3, <4>4 DEF Apart
    <3> QED
      BY <1>2, <3>1, <3>2, <3>3
  <2>5. PendingIsAnnounced'
    BY <2>1, <2>4, StillAnnounced
  <2> QED
    BY <2>2, <2>4, <2>5
<1> QED
  BY <1>1, <1>2

(* The queue is popped until it is empty before the loop forgets the wakeup. *)
LEMMA DrainKeepsInv ==
    ASSUME EventfdInv, DrainEnds \/ Arm \/ \E req \in Requests : DrainDead(req) \/ DrainWrite(req)
    PROVE  EventfdInv'
<1> USE DEF EventfdInv
<1>1. /\ pc \in {"drain", "arm"} /\ UNCHANGED <<connections_, worker>>
      /\ pc' \in {"drain", "arm"} \/ (pc' = "batch" /\ pending_writes_' = <<>>)
  BY DEF DrainEnds, Arm, DrainDead, DrainWrite, Draining, Flush, NextPending, Goto, poolVars
<1>2. Phases'
  BY <1>1, RunningPhases DEF StartingUp, Constructing
<1>3. PendingIsAnnounced'
  BY <1>1 DEF PendingIsAnnounced
<1>4. CASE DrainEnds \/ Arm \/ \E req \in Requests : DrainDead(req)
  <2>1. UNCHANGED conn
    BY <1>4 DEF DrainEnds, Arm, DrainDead
  <2> QED
    BY <1>1, <1>2, <1>3, <2>1, SameApart
<1>5. ASSUME NEW req \in Requests, DrainWrite(req)
      PROVE  Apart'
  <2>1. req[1] \in Clients /\ ConnShape(conn[req[1]])
    BY ClientOfRequest DEF Apart
  <2>2. Flush(req[1], Prepared(req), "arm", NextPending)
    BY <1>5 DEF DrainWrite
  <2> QED
    BY <1>1, <2>1, <2>2, PreparedShape, FlushApart
<1> QED
  BY <1>2, <1>3, <1>4, <1>5

LEMMA WriteKeepsInv ==
    ASSUME EventfdInv, (\E c \in Clients : Write(c)) \/ Disarm
    PROVE  EventfdInv'
<1> USE DEF EventfdInv
<1>1. /\ pc \in {"write", "disarm"} /\ pc' \in {"batch", "disarm", "unwind"} /\ Serving
      /\ UNCHANGED <<connections_, worker, pending_writes_, wakeup>>
      /\ pc' # "unwind" => UNCHANGED batch
  <2>1. CASE Disarm
    BY <2>1 DEF Disarm, Throw, Goto, Serving, StartingUp, Constructing
  <2>2. ASSUME NEW c \in Clients, Write(c)
        PROVE  /\ pc = "write" /\ pc' \in {"batch", "disarm"}
               /\ UNCHANGED <<batch, connections_, worker, pending_writes_, wakeup>>
    <3>1. Flush(c, conn[c], IfUnsent, "disarm")
      BY <2>2 DEF Write
    <3>2. pc' = IfUnsent \/ pc' = "disarm"
      BY <3>1 DEF Flush, Goto
    <3> QED
      BY <2>2, <3>2 DEF Write, IfUnsent, poolVars
  <2> QED
    BY <2>1, <2>2 DEF Serving, StartingUp, Constructing
<1>2. Phases'
  BY <1>1, RunningPhases DEF StartingUp, Constructing
<1>3. Apart' /\ (WakeupFd \in ready => WakeupFd \in ready')
  <2>1. CASE Disarm
    BY <1>1, <2>1, SameApart DEF Disarm, Register
  <2>2. ASSUME NEW c \in Clients, Write(c)
        PROVE  Apart' /\ (WakeupFd \in ready => WakeupFd \in ready')
    <3>1. ConnShape(conn[c]) /\ conn[c].fd # WakeupFd /\ Flush(c, conn[c], IfUnsent, "disarm")
      BY <2>2 DEF Apart, Write
    <3>2. Apart'
      BY <1>1, <3>1, FlushApart
    <3>3. WakeupFd \in ready => WakeupFd \in ready'
      BY <3>1 DEF Flush, ConnBecomes
    <3> QED
      BY <3>2, <3>3
  <2> QED
    BY <2>1, <2>2
<1>4. PendingIsAnnounced'
  <2>1. CASE pc' = "unwind"
    BY <2>1 DEF PendingIsAnnounced, Serving
  <2>2. CASE pc' # "unwind"
    BY <1>1, <1>3, <2>2, StillAnnounced
  <2> QED
    BY <2>1, <2>2
<1> QED
  BY <1>2, <1>3, <1>4

(* After the last batch nothing needs to be announced any more. *)
LEMMA EndKeepsInv ==
    ASSUME EventfdInv, Leave \/ Joined
    PROVE  EventfdInv'
<1> USE DEF EventfdInv
<1>1. pc' \in {"join", "done", "dead"} /\ UNCHANGED worker
  BY DEF Leave, Joined, Goto, poolVars
<1>2. Phases' /\ PendingIsAnnounced'
  BY <1>1, RunningPhases DEF PendingIsAnnounced, Serving, StartingUp, Constructing
<1>3. Apart'
  <2>1. CASE Leave
    BY <2>1, SameApart DEF Leave
  <2>2. CASE Joined
    <3>1. /\ connections_' = <<>>
          /\ conn' = [c \in Clients |-> conn'[c]]
      BY <2>2 DEF Joined
    <3>2. ASSUME NEW c \in Clients PROVE ConnShape(conn'[c]) /\ conn'[c].fd # WakeupFd
      <4>1. CASE conn[c].fd = NoFd
        BY <2>2, <4>1 DEF Joined, Apart, ConnShape
      <4>2. CASE conn[c].fd # NoFd
        <5>1. conn'[c] = [NewConnection(NoFd) EXCEPT !.state = "Destroyed"]
          BY <2>2, <4>2 DEF Joined
        <5> QED
          BY <5>1, ClientFdsApart DEF NewConnection, ConnShape
      <4> QED
        BY <4>1, <4>2
    <3>3. DOMAIN connections_' = {}
      BY <3>1
    <3> QED
      BY <1>1, <3>1, <3>2, <3>3 DEF Apart
  <2> QED
    BY <2>1, <2>2
<1> QED
  BY <1>2, <1>3

LEMMA LoopKeepsInv ==
    ASSUME EventfdInv, BacklogKnown, LoopStep
    PROVE  EventfdInv'
<1>1. CASE StartUp
  BY <1>1, StartUpKeepsInv
<1>2. CASE Poll \/ Reap
  BY <1>2, PollKeepsInv, ReapKeepsInv
<1>3. ASSUME NEW e \in batch, HandleListen(e) \/ HandleWakeup(e) \/ HandleClosed(e) \/ HandleIo(e)
      PROVE  EventfdInv'
  BY <1>3, HandleKeepsInv
<1>4. CASE AcceptNothing \/ AcceptOne \/ AcceptThrows
  BY <1>4, AcceptKeepsInv
<1>5. CASE (\E c \in Clients : ReadRequest(c) \/ ReadEnds(c) \/ ReadAgain(c)) \/ Submit \/ PostError
  BY <1>5, ReadKeepsInv
<1>6. CASE DrainEnds \/ Arm \/ \E req \in Requests : DrainDead(req) \/ DrainWrite(req)
  BY <1>6, DrainKeepsInv
<1>7. CASE (\E c \in Clients : Write(c)) \/ Disarm
  BY <1>7, WriteKeepsInv
<1>8. CASE Leave \/ Joined
  BY <1>8, EndKeepsInv
<1> QED
  BY <1>1, <1>2, <1>3, <1>4, <1>5, <1>6, <1>7, <1>8 DEF LoopStep

LEMMA InitEventfdInv ==
    ASSUME Init
    PROVE  EventfdInv /\ BacklogKnown
<1>1. Apart
  <2> DEFINE fresh == NewConnection(NoFd)
             unborn == [fresh EXCEPT !.state = "None"]
  <2>0. ConnShape(fresh) /\ fresh.fd = NoFd
    BY DEF ConnShape, NewConnection
  <2> HIDE DEF fresh
  <2>1. ConnShape(unborn) /\ unborn.fd = NoFd
    BY <2>0 DEF ConnShape
  <2>2. conn = [c \in Clients |-> unborn]
    BY DEF Init, fresh
  <2> HIDE DEF unborn
  <2>3. DOMAIN connections_ = {} /\ backlog = {}
    BY DEF Init
  <2>4. worker = [w \in Workers |-> worker[w]]
    BY DEF Init
  <2> QED
    BY <2>1, <2>2, <2>3, <2>4, ClientFdsApart DEF Apart
<1>2. Phases
  BY DEF Init, Phases, StartingUp, Constructing
<1>3. PendingIsAnnounced /\ BacklogKnown
  BY DEF Init, PendingIsAnnounced, BacklogKnown
<1> QED
  BY <1>1, <1>2, <1>3 DEF EventfdInv

(* No wakeup is lost between post_response() (push, then eventfd write) and  *)
(* drain_pending_writes() (eventfd read, then pop until empty), whatever the *)
(* clients send, however many workers post, and whatever else is in the      *)
(* batch: while a response is pending, somebody is about to see it.          *)
THEOREM NoWakeupLost == Spec => []PendingIsAnnounced
<1> DEFINE Inv == EventfdInv /\ BacklogKnown
<1>1. Init => Inv
  BY InitEventfdInv
<1>2. ASSUME Inv, [Next]_vars PROVE Inv'
  <2>1. BacklogKnown'
    BY <1>2, BacklogStaysKnown
  <2>2. CASE LoopStep
    BY <1>2, <2>1, <2>2, LoopKeepsInv
  <2>3. CASE \E w \in Workers : WorkerStep(w)
    BY <1>2, <2>1, <2>3, WorkerKeepsInv
  <2>4. CASE Environment
    BY <1>2, <2>1, <2>4, EnvironmentKeepsInv
  <2>5. CASE UNCHANGED vars
    <3>1. UNCHANGED <<pc, batch, conn, connections_, worker, queue_, pending_writes_, ready, wakeup>>
      BY <2>5 DEF vars, loopVars, poolVars, epollVars
    <3>2. Apart' /\ Phases'
      BY <1>2, <3>1, SameApart DEF EventfdInv, Phases, StartingUp, Constructing
    <3>3. PendingIsAnnounced'
      BY <1>2, <3>1 DEF EventfdInv, PendingIsAnnounced, Serving, StartingUp, Constructing
    <3> QED
      BY <2>1, <3>2, <3>3 DEF EventfdInv
  <2> QED
    BY <1>2, <2>2, <2>3, <2>4, <2>5 DEF Next, Terminated
<1>3. Inv => PendingIsAnnounced
  BY DEF EventfdInv
<1> QED
  BY <1>1, <1>2, <1>3, PTL DEF Spec

-----------------------------------------------------------------------------
(* The table *)

(* Types, with the requests in everybody's hands. *)
Units == Nat \X Nat
States == {"None", "Reading", "Writing", "Closing", "Closed", "Destroyed"}

Operation(op) ==
    /\ op \in [r : Nat, offset : Nat, remaining : Nat, length : Nat]
    /\ op.offset <= op.length

Connected(cn) ==
    /\ cn \in [fd : ClientFds \cup {NoFd}, state : States, keep_alive : BOOLEAN,
               write_buf : Seq(Units), sendfile_op : [r : Nat, offset : Nat, remaining : Nat, length : Nat]]
    /\ Operation(cn.sendfile_op)

Peer(c) == [connected : BOOLEAN, asked : 0 .. Len(Script[c]), inbox : Seq(1 .. Len(Script[c])),
            room : 0 .. SockRoom, got : Seq(Units), fin : BOOLEAN, rst : BOOLEAN]

Events == [fd : Fds, in : BOOLEAN, out : BOOLEAN, closed : BOOLEAN]

ClientsTyped ==
    /\ conn = [c \in Clients |-> conn[c]] /\ \A c \in Clients : Connected(conn[c])
    /\ peer = [c \in Clients |-> peer[c]] /\ \A c \in Clients : peer[c] \in Peer(c)
    /\ backlog \subseteq Clients

Labels == {"socket", "epoll", "pool", "options", "bind", "listen", "watch", "eventfd", "signals",
           "router", "init", "top", "batch", "accept", "read", "submit", "post", "drain", "arm",
           "write", "disarm", "join", "unwind", "done", "dead"}

LoopTyped ==
    /\ pc \in Labels
    /\ batch \subseteq Events
    /\ event = NoEvent \/ (event \in Events /\ event.fd \in ClientFds)
    /\ request = NoRequest \/ request \in Requests
    /\ pc \in {"submit", "post", "arm"} => request \in Requests
    /\ running_ \in BOOLEAN
    /\ DOMAIN connections_ \subseteq ClientFds
    /\ \A fd \in DOMAIN connections_ : connections_[fd] \in Clients

PoolTyped ==
    /\ queue_ \in Seq(Requests) /\ Len(queue_) <= TaskCapacity
    /\ closed_ \in BOOLEAN
    /\ worker = [w \in Workers |-> worker[w]]
    /\ \A w \in Workers :
           worker[w] \in [pc : {"run", "post"}, req : Requests]
                    \cup [pc : {"unborn", "pop", "notify", "exited"}, req : {NoRequest}]
    /\ pending_writes_ \in Seq(Requests) /\ Len(pending_writes_) <= PendingCapacity
    /\ openFiles \subseteq Requests

EpollTyped ==
    /\ interest \in [Fds -> {"none", "in", "inout"}]
    /\ ready \subseteq Fds
    /\ wakeup \in BOOLEAN
    /\ stop \in {"no", "early", "late"} /\ lost \subseteq Requests

Handling == {"read", "submit", "post", "write", "disarm"}

Control ==
    /\ IF pc \in Handling THEN event.fd \in DOMAIN connections_ ELSE event = NoEvent
    /\ pc = "arm" => conn[request[1]].fd # NoFd
    /\ pc = "disarm" => \A c \in Clients : conn[c].fd = event.fd => ~HasUnsent(conn[c])
    /\ StartingUp \/ pc \in {"top", "join", "unwind", "done", "dead"} => batch = {}
    /\ StartingUp => DOMAIN connections_ = {} /\ queue_ = <<>> /\ pending_writes_ = <<>>
                     /\ \A w \in Workers : worker[w].pc \notin {"run", "post", "notify"}

Table ==
    /\ \A c \in Clients : conn[c].fd # NoFd =>
           /\ conn[c].fd \in DOMAIN connections_ /\ connections_[conn[c].fd] = c
           /\ interest[conn[c].fd] # "none"
    /\ \A fd \in ClientFds : interest[fd] # "none" => \E c \in Clients : conn[c].fd = fd
    /\ \A fd \in DOMAIN connections_ :
           conn[connections_[fd]].fd = fd \/ conn[connections_[fd]].state = "Closed"
    /\ \A fd, other \in DOMAIN connections_ : connections_[fd] = connections_[other] => fd = other
    /\ \A fd \in ready \cap ClientFds : interest[fd] # "none"
    /\ pc = "top" => \A fd \in DOMAIN connections_ : conn[connections_[fd]].fd = fd

Batch ==
    /\ \A e \in batch : e.fd \in ClientFds => e.fd \in DOMAIN connections_
    /\ \A e, other \in batch : e.fd = other.fd => e = other
    /\ \A e \in batch : e.fd # event.fd

Sealed(c) == conn[c].state = "Closed" => conn[c].write_buf # <<>>

Lives ==
    /\ \A c \in Clients : conn[c].state \in {"None", "Closed", "Destroyed"} => conn[c].fd = NoFd
    /\ \A c \in backlog : peer[c].connected /\ conn[c].state = "None"
    /\ \A c \in Clients : ~peer[c].connected => conn[c].state = "None"
    /\ \A fd \in DOMAIN connections_ : conn[connections_[fd]].state # "None"
    /\ \A e \in batch : e.fd \in ClientFds => Sealed(connections_[e.fd])
    /\ pc \in Handling \ {"disarm"} => Sealed(connections_[event.fd])

Opened(req) == conn[req[1]].state # "None"

Known ==
    /\ request # NoRequest => Opened(request)
    /\ \A k \in DOMAIN queue_ : Opened(queue_[k])
    /\ \A k \in DOMAIN pending_writes_ : Opened(pending_writes_[k])
    /\ \A w \in Workers : worker[w].req # NoRequest => Opened(worker[w].req)

TableInv == ClientsTyped /\ LoopTyped /\ PoolTyped /\ EpollTyped /\ Control /\ Table /\ Batch
            /\ Lives /\ Known
-----------------------------------------------------------------------------
(* flush_write() *)

LEMMA SplitSeq ==
    ASSUME NEW S, NEW s \in Seq(S), NEW n \in 0 .. Len(s)
    PROVE  LET front == SubSeq(s, 1, n)
               rest == SubSeq(s, n + 1, Len(s))
           IN  /\ front \in Seq(S) /\ Len(front) = n
               /\ \A i \in 1 .. n : front[i] = s[i]
               /\ rest \in Seq(S) /\ Len(rest) = Len(s) - n
               /\ \A i \in 1 .. (Len(s) - n) : rest[i] = s[n + i]
OBVIOUS

LEMMA OnClosedTyped ==
    ASSUME NEW cn, Connected(cn)
    PROVE  /\ Connected(OnClosed(cn))
           /\ OnClosed(cn).write_buf = cn.write_buf
           /\ IF cn.state = "Closed" THEN OnClosed(cn) = cn
              ELSE OnClosed(cn).fd = NoFd /\ OnClosed(cn).state = "Closed"
                   /\ OnClosed(cn).sendfile_op = NoSendfile
<1>1. CASE cn.state = "Closed"
  BY <1>1 DEF OnClosed, IsAlive
<1>2. CASE cn.state # "Closed"
  <2>1. OnClosed(cn) = [fd |-> NoFd, state |-> "Closed", keep_alive |-> cn.keep_alive,
                        write_buf |-> cn.write_buf, sendfile_op |-> NoSendfile]
    BY <1>2 DEF OnClosed, IsAlive, Connected
  <2>2. /\ Operation(NoSendfile) /\ "Closed" \in States
        /\ cn.keep_alive \in BOOLEAN /\ cn.write_buf \in Seq(Units)
    BY DEF Operation, NoSendfile, States, Connected
  <2> HIDE DEF NoSendfile
  <2> QED
    BY <1>2, <2>1, <2>2 DEF Connected, Operation
<1> QED
  BY <1>1, <1>2

(* A send that fails closes the connection and sends nothing. *)
LEMMA FlushFails ==
    ASSUME NEW cn, NEW room, NEW broken, broken /\ HasUnsent(cn)
    PROVE  LET f == FlushWrite(cn, room, broken)
           IN  f.conn = OnClosed(cn) /\ f.sent = <<>> /\ f.remaining = 0
BY DEF FlushWrite

(* One that does not leaves something only once the socket is full. *)
LEMMA FlushSends ==
    ASSUME NEW cn, Connected(cn), NEW room \in Nat, NEW broken, ~(broken /\ HasUnsent(cn))
    PROVE  LET f == FlushWrite(cn, room, broken)
           IN  /\ Connected(f.conn) /\ f.sent \in Seq(Units) /\ Len(f.sent) <= room
               /\ f.remaining \in Nat
               /\ f.conn.fd = cn.fd
               /\ f.conn.state \in {cn.state, "Reading", "Closing"}
               /\ HasUnsent(f.conn) => HasUnsent(cn) /\ Len(f.sent) = room
               /\ f.remaining = 0 => ~HasUnsent(f.conn)
<1> DEFINE op == cn.sendfile_op
           all == Len(cn.write_buf)
           fromBuf == Smaller(all, room)
           buf == SubSeq(cn.write_buf, fromBuf + 1, all)
           fromFile == IF buf = <<>> THEN Smaller(Deliverable(op), room - fromBuf) ELSE 0
           rest == [op EXCEPT !.offset = @ + fromFile, !.remaining = @ - fromFile]
           drained == buf = <<>> /\ ~Active(rest)
           sendfile == IF drained THEN NoSendfile ELSE rest
           state == IF drained THEN IF cn.keep_alive THEN "Reading" ELSE "Closing" ELSE cn.state
           sent == SubSeq(cn.write_buf, 1, fromBuf) \o FileUnits(op, fromFile)
           f == FlushWrite(cn, room, broken)
<1>1. /\ f.conn = [cn EXCEPT !.write_buf = buf, !.sendfile_op = sendfile, !.state = state]
      /\ f.sent = sent /\ f.remaining = Len(buf) + rest.remaining
  BY DEF FlushWrite
<1>2. /\ cn.write_buf \in Seq(Units) /\ all \in Nat
      /\ op \in [r : Nat, offset : Nat, remaining : Nat, length : Nat] /\ op.offset <= op.length
      /\ cn.state \in States /\ cn.keep_alive \in BOOLEAN
  BY DEF Connected, Operation
<1>3. /\ fromBuf \in 0 .. all /\ fromBuf <= room
      /\ fromBuf < all => fromBuf = room
  BY <1>2 DEF Smaller
<1> HIDE DEF fromBuf
<1>4. /\ buf \in Seq(Units) /\ Len(buf) = all - fromBuf /\ (buf = <<>> <=> fromBuf = all)
      /\ SubSeq(cn.write_buf, 1, fromBuf) \in Seq(Units)
      /\ Len(SubSeq(cn.write_buf, 1, fromBuf)) = fromBuf
  <2>1. /\ buf \in Seq(Units) /\ Len(buf) = all - fromBuf
        /\ SubSeq(cn.write_buf, 1, fromBuf) \in Seq(Units)
        /\ Len(SubSeq(cn.write_buf, 1, fromBuf)) = fromBuf
    BY <1>2, <1>3, SplitSeq
  <2> HIDE DEF buf
  <2>2. buf = <<>> <=> Len(buf) = 0
    BY <2>1
  <2> QED
    BY <1>2, <1>3, <2>1, <2>2
<1>0. all > 0 => cn.write_buf # <<>>
  OBVIOUS
<1> HIDE DEF all, buf, op
<1>5. /\ Deliverable(op) \in Nat /\ Deliverable(op) <= op.remaining
      /\ Deliverable(op) <= op.length - op.offset
  BY <1>2 DEF Deliverable, Active, Smaller
<1>6. /\ fromFile \in Nat /\ fromFile <= op.remaining /\ fromFile <= op.length - op.offset
      /\ fromFile <= room - fromBuf /\ fromFile <= Deliverable(op)
      /\ buf = <<>> /\ fromFile < Deliverable(op) => fromFile = room - fromBuf
      /\ buf # <<>> => fromFile = 0
  BY <1>2, <1>3, <1>5 DEF Smaller
<1> HIDE DEF fromFile
<1>7. /\ rest \in [r : Nat, offset : Nat, remaining : Nat, length : Nat]
      /\ rest.r = op.r /\ rest.length = op.length
      /\ rest.offset = op.offset + fromFile /\ rest.remaining = op.remaining - fromFile
      /\ rest.offset <= rest.length
  <2> DEFINE offset == op.offset + fromFile
             remaining == op.remaining - fromFile
  <2>1. offset \in Nat /\ remaining \in Nat /\ offset <= op.length
    BY <1>2, <1>6
  <2>2. rest = [op EXCEPT !.offset = offset, !.remaining = remaining]
    OBVIOUS
  <2> HIDE DEF rest, offset, remaining
  <2>3. rest = [r |-> op.r, offset |-> offset, remaining |-> remaining, length |-> op.length]
    BY <1>2, <2>2
  <2>4. /\ rest \in [r : Nat, offset : Nat, remaining : Nat, length : Nat]
        /\ rest.r = op.r /\ rest.length = op.length
        /\ rest.offset = offset /\ rest.remaining = remaining
    BY <1>2, <2>1, <2>3
  <2> QED
    BY <2>1, <2>4 DEF offset, remaining
<1> HIDE DEF rest
<1>8. Deliverable(rest) = Deliverable(op) - fromFile
  BY <1>2, <1>6, <1>7 DEF Deliverable, Active, Smaller
<1>9. FileUnits(op, fromFile) \in Seq(Units) /\ Len(FileUnits(op, fromFile)) = fromFile
  BY <1>2, <1>6 DEF FileUnits, Units
<1>10. sent \in Seq(Units) /\ Len(sent) = fromBuf + fromFile
  BY <1>4, <1>9
<1> HIDE DEF sent
<1>11. Operation(sendfile) /\ Deliverable(sendfile) <= Deliverable(rest) /\ Deliverable(sendfile) \in Nat
       /\ (drained => Deliverable(sendfile) = 0)
  BY <1>7 DEF Operation, NoSendfile, Deliverable, Active, Smaller
<1>12. state \in {cn.state, "Reading", "Closing"} /\ state \in States
  BY <1>2 DEF States
<1>13. drained => buf = <<>>
  OBVIOUS
<1> HIDE DEF sendfile, state, drained, op
<1>14. f.conn = [fd |-> cn.fd, state |-> state, keep_alive |-> cn.keep_alive,
                 write_buf |-> buf, sendfile_op |-> sendfile]
  BY <1>1 DEF Connected
<1> HIDE DEF f
<1>15. Connected(f.conn) /\ f.conn.fd = cn.fd
  BY <1>4, <1>11, <1>12, <1>14 DEF Connected, Operation
<1>16. HasUnsent(f.conn) <=> buf # <<>> \/ Deliverable(sendfile) > 0
  BY <1>14 DEF HasUnsent
<1>17. HasUnsent(f.conn) => HasUnsent(cn) /\ Len(f.sent) = room
  <2>1. CASE buf # <<>>
    <3>1. fromBuf < all /\ fromFile = 0
      BY <1>2, <1>3, <1>4, <1>6, <2>1
    <3>2. cn.write_buf # <<>>
      BY <3>1, <1>0, <1>2, <1>3
    <3> QED
      BY <3>1, <3>2, <1>1, <1>3, <1>10 DEF HasUnsent
  <2>2. CASE buf = <<>> /\ Deliverable(sendfile) > 0
    <3>1. Deliverable(rest) > 0
      BY <2>2, <1>5, <1>6, <1>8, <1>11
    <3>2. fromFile < Deliverable(op) /\ Deliverable(op) > 0
      BY <3>1, <1>5, <1>6, <1>8
    <3>3. fromBuf + fromFile = room
      BY <3>2, <2>2, <1>3, <1>6
    <3> QED
      BY <3>2, <3>3, <1>1, <1>10 DEF HasUnsent, op
  <2> QED
    BY <2>1, <2>2, <1>11, <1>16
<1>18. f.remaining \in Nat /\ (f.remaining = 0 => ~HasUnsent(f.conn))
  <2>1. f.remaining = Len(buf) + rest.remaining /\ Len(buf) \in Nat
    BY <1>1, <1>4
  <2>2. ASSUME f.remaining = 0 PROVE buf = <<>> /\ Deliverable(rest) = 0
    <3>1. Len(buf) = 0 /\ rest.remaining = 0
      BY <2>1, <2>2, <1>7
    <3>2. buf = <<>>
      BY <3>1, <1>4
    <3> QED
      BY <3>1, <3>2 DEF Deliverable, Active
  <2> QED
    BY <2>1, <2>2, <1>7, <1>11, <1>16
<1> QED
  BY <1>1, <1>3, <1>6, <1>10, <1>12, <1>14, <1>15, <1>17, <1>18 DEF f

LEMMA PreparedTyped ==
    ASSUME NEW req \in Requests, Connected(conn[req[1]])
    PROVE  /\ Connected(Prepared(req)) /\ Prepared(req).fd = conn[req[1]].fd
           /\ Prepared(req).state = "Writing" /\ Prepared(req).write_buf # <<>>
           /\ HasUnsent(Prepared(req))
           /\ Prepared(req).write_buf = Append(conn[req[1]].write_buf, <<req[2], 0>>)
           /\ Prepared(req).sendfile_op =
                  IF IsFile(req) THEN [r |-> req[2], offset |-> 0, remaining |-> Size(req), length |-> Length(req)]
                                 ELSE conn[req[1]].sendfile_op
<1> DEFINE cn == conn[req[1]]
           header == <<req[2], 0>>
           buf == Append(cn.write_buf, header)
           op == [r |-> req[2], offset |-> 0, remaining |-> Size(req), length |-> Length(req)]
           sendfile == IF IsFile(req) THEN op ELSE cn.sendfile_op
<1>1. cn.write_buf \in Seq(Units) /\ header \in Units /\ req[2] \in Nat
  BY DEF Connected, Units, Requests
<1>2. buf \in Seq(Units) /\ buf # <<>> /\ cn.write_buf \o <<header>> = buf
  BY <1>1
<1>3. Size(req) \in Nat /\ Length(req) \in Nat
  BY EventLoopAssumption DEF Size, Length
<1>4. Operation(op)
  BY <1>1, <1>3 DEF Operation
<1>5. Operation(sendfile)
  BY <1>4 DEF Connected
<1>6. Prepared(req) = [fd |-> cn.fd, state |-> "Writing", keep_alive |-> cn.keep_alive,
                       write_buf |-> buf, sendfile_op |-> sendfile]
  <2>0. EnqueueWrite(cn, <<header>>)
            = [fd |-> cn.fd, state |-> "Writing", keep_alive |-> cn.keep_alive,
               write_buf |-> buf, sendfile_op |-> cn.sendfile_op]
    <3>1. EnqueueWrite(cn, <<header>>) = [cn EXCEPT !.write_buf = buf, !.state = "Writing"]
      BY <1>2 DEF EnqueueWrite
    <3>2. ConnShape(cn)
      BY DEF Connected, ConnShape
    <3> HIDE DEF cn, buf
    <3> QED
      BY <3>1, <3>2 DEF ConnShape
  <2> DEFINE queued == EnqueueWrite(cn, <<header>>)
  <2>1. CASE IsFile(req)
    <3>1. Prepared(req) = BeginSendfile(queued, req[2], Size(req), Length(req))
      BY <2>1 DEF Prepared
    <3> HIDE DEF queued, buf
    <3>2. BeginSendfile(queued, req[2], Size(req), Length(req))
              = [queued EXCEPT !.sendfile_op = op, !.state = "Writing"]
      BY DEF BeginSendfile
    <3>3. sendfile = op
      BY <2>1
    <3> HIDE DEF op, cn, sendfile
    <3>4. ConnShape(queued) /\ queued.fd = cn.fd /\ queued.keep_alive = cn.keep_alive
          /\ queued.write_buf = buf
      BY <2>0 DEF ConnShape, queued
    <3> QED
      BY <3>1, <3>2, <3>3, <3>4 DEF ConnShape
  <2>2. CASE ~IsFile(req)
    BY <2>0, <2>2 DEF Prepared
  <2> QED
    BY <2>1, <2>2
<1> HIDE DEF buf, sendfile, op, header
<1>7. "Writing" \in States /\ cn.fd \in ClientFds \cup {NoFd} /\ cn.keep_alive \in BOOLEAN
  BY DEF States, Connected
<1>8. Connected(Prepared(req))
  BY <1>2, <1>5, <1>6, <1>7 DEF Connected, Operation
<1> QED
  <2>1. /\ Prepared(req).fd = cn.fd /\ Prepared(req).state = "Writing"
        /\ Prepared(req).write_buf = buf /\ Prepared(req).sendfile_op = sendfile
    BY <1>6
  <2>2. buf # <<>> /\ HasUnsent(Prepared(req))
    BY <1>2, <2>1 DEF HasUnsent
  <2> QED
    BY <1>8, <2>1, <2>2 DEF buf, header, sendfile, op

-----------------------------------------------------------------------------
(* What each part of the invariant depends on. *)

LEMMA FdsApart ==
    /\ ClientFds \subseteq Fds /\ ListenFd \in Fds /\ WakeupFd \in Fds
    /\ ListenFd \notin ClientFds /\ WakeupFd \notin ClientFds /\ NoFd \notin Fds
    /\ ListenFd # WakeupFd
    /\ NoEvent.fd = NoFd /\ ClientFds \subseteq Nat
BY EventLoopAssumption DEF ClientFds, Fds, ListenFd, WakeupFd, NoFd, NoEvent

LEMMA SameClients ==
    ASSUME ClientsTyped, UNCHANGED <<conn, peer>>, backlog' \subseteq backlog
    PROVE  ClientsTyped'
BY DEF ClientsTyped, Connected, Operation, Peer

LEMMA LoopMoves ==
    ASSUME LoopTyped, UNCHANGED connections_, running_' \in BOOLEAN, pc' \in Labels,
           batch' \subseteq batch, event' \in {event, NoEvent}, request' \in {request, NoRequest},
           pc' \in {"submit", "post", "arm"} => UNCHANGED <<pc, request>>
    PROVE  LoopTyped'
BY DEF LoopTyped

LEMMA SamePool ==
    ASSUME PoolTyped, UNCHANGED <<queue_, worker, pending_writes_>>, openFiles' \subseteq openFiles,
           closed_' \in BOOLEAN
    PROVE  PoolTyped'
BY DEF PoolTyped

LEMMA SameEpoll ==
    ASSUME EpollTyped, UNCHANGED <<stop, lost>>,
           interest' \in [Fds -> {"none", "in", "inout"}], ready' \subseteq Fds, wakeup' \in BOOLEAN
    PROVE  EpollTyped'
BY DEF EpollTyped

LEMMA SameTable ==
    ASSUME Table, UNCHANGED <<conn, connections_>>, pc' = "top" => pc = "top",
           \A fd \in ClientFds : interest'[fd] = interest[fd],
           \A fd \in ClientFds : fd \in ready' => fd \in ready \/ interest[fd] # "none",
           \A c \in Clients : conn[c].fd \in ClientFds \cup {NoFd}
    PROVE  Table'
BY DEF Table

LEMMA SameBatch ==
    ASSUME Batch, LoopTyped, UNCHANGED connections_, batch' \subseteq batch, event' \in {event, NoEvent}
    PROVE  Batch'
BY FdsApart DEF Batch, LoopTyped, Events

LEMMA SameLives ==
    ASSUME Lives, UNCHANGED <<conn, connections_>>, batch' \subseteq batch, backlog' \subseteq backlog,
           \A c \in Clients : peer'[c].connected = peer[c].connected,
           backlog \subseteq Clients,
           pc' \in Handling \ {"disarm"} => pc \in Handling \ {"disarm"} /\ UNCHANGED event
    PROVE  Lives'
BY DEF Lives, Sealed

(* A request stays known while its connection's slot is not given back. *)
LEMMA SameKnown ==
    ASSUME Known, PoolTyped, LoopTyped, UNCHANGED <<queue_, worker>>,
           pending_writes_' = pending_writes_ \/ pending_writes_' = <<>>,
           request' \in {request, NoRequest},
           \A c \in Clients : conn[c].state # "None" => conn'[c].state # "None"
    PROVE  Known'
<1>1. \A req \in Requests : Opened(req) => Opened(req)'
  BY ClientOfRequest DEF Opened
<1>2. /\ \A k \in DOMAIN queue_ : queue_[k] \in Requests
      /\ \A k \in DOMAIN pending_writes_ : pending_writes_[k] \in Requests
      /\ \A w \in Workers : worker[w].req # NoRequest => worker[w].req \in Requests
      /\ request # NoRequest => request \in Requests
  BY DEF PoolTyped, LoopTyped
<1>3. CASE pending_writes_' = pending_writes_
  BY <1>1, <1>2, <1>3 DEF Known, Opened
<1>4. CASE pending_writes_' = <<>>
  <2>1. DOMAIN pending_writes_' = {}
    BY <1>4
  <2> QED
    BY <1>1, <1>2, <2>1 DEF Known, Opened
<1> QED
  BY <1>3, <1>4

-----------------------------------------------------------------------------
(* What the parts have in common with Apart and Phases is not repeated: one  *)
(* action at a time, every part of TableInv is kept.                         *)

LEMMA PeerFields ==
    ASSUME NEW c, NEW p
    PROVE  p \in Peer(c) <=>
               /\ p = [connected |-> p.connected, asked |-> p.asked, inbox |-> p.inbox,
                       room |-> p.room, got |-> p.got, fin |-> p.fin, rst |-> p.rst]
               /\ p.connected \in BOOLEAN /\ p.asked \in 0 .. Len(Script[c])
               /\ p.inbox \in Seq(1 .. Len(Script[c])) /\ p.room \in 0 .. SockRoom
               /\ p.got \in Seq(Units) /\ p.fin \in BOOLEAN /\ p.rst \in BOOLEAN
BY DEF Peer

LEMMA EnvironmentKeepsTable ==
    ASSUME TableInv, Environment
    PROVE  TableInv'
<1> USE DEF TableInv
<1>1. CASE Signal
  <2>1. /\ UNCHANGED <<pc, batch, event, request, connections_, conn, queue_, closed_, worker,
                       pending_writes_, openFiles, interest, ready, wakeup, backlog, peer, lost>>
        /\ stop' \in {"early", "late"} /\ running_' = FALSE
    BY <1>1 DEF Signal, poolVars, epollVars
  <2>2. ClientsTyped' /\ PoolTyped' /\ Table' /\ Batch' /\ Lives' /\ Known'
    BY <2>1, SameClients, SamePool, SameBatch, SameLives, SameKnown
       DEF ClientsTyped, PoolTyped, Table
  <2>3. LoopTyped' /\ EpollTyped'
    BY <2>1 DEF LoopTyped, EpollTyped
  <2>4. Control'
    BY <2>1 DEF Control, StartingUp, Constructing
  <2> QED
    BY <2>2, <2>3, <2>4
<1>2. ASSUME NEW c \in Clients, Connect(c) \/ SendRequest(c) \/ ReadResponse(c) \/ Fin(c) \/ Rst(c)
      PROVE  TableInv'
  <2>1. UNCHANGED <<pc, batch, event, request, running_, connections_, conn, queue_, closed_,
                    worker, pending_writes_, openFiles, interest, wakeup, stop, lost>>
    BY <1>2 DEF Connect, SendRequest, ReadResponse, Fin, Rst, ServerUntouched, loopVars, poolVars
  <2>2. ready' \subseteq ready \cup {ListenFd}
            \cup {fd \in Fds : fd = conn[c].fd /\ fd # NoFd /\ interest[fd] # "none"}
    <3>1. conn[c].fd # NoFd => conn[c].fd \in Fds
      BY FdsApart DEF ClientsTyped, Connected
    <3> QED
      BY <1>2, <3>1 DEF Connect, SendRequest, ReadResponse, Fin, Rst, Edge
  <2>3. peer[c] \in Peer(c) /\ SockRoom \in Nat /\ Len(Script[c]) \in Nat
    BY EventLoopAssumption DEF ClientsTyped
  <2>4. PICK p : /\ peer' = [peer EXCEPT ![c] = p] /\ p \in Peer(c)
                 /\ IF Connect(c) THEN ~peer[c].connected /\ p.connected /\ backlog' = backlog \cup {c}
                                  ELSE p.connected = peer[c].connected /\ backlog' = backlog
    <3>1. CASE Connect(c)
      <4> DEFINE p == [peer[c] EXCEPT !.connected = TRUE]
      <4>1. peer' = [peer EXCEPT ![c] = p] /\ ~peer[c].connected /\ backlog' = backlog \cup {c}
        BY <3>1 DEF Connect
      <4>2. p \in Peer(c) /\ p.connected
        BY <2>3 DEF Peer
      <4> QED
        BY <3>1, <4>1, <4>2
    <3>2. CASE SendRequest(c)
      <4> DEFINE i == peer[c].asked + 1
                 inbox == Append(peer[c].inbox, i)
                 q == [peer[c] EXCEPT !.asked = i]
                 p == [q EXCEPT !.inbox = inbox]
      <4>0. p = [peer[c] EXCEPT !.asked = i, !.inbox = inbox]
        OBVIOUS
      <4>1. peer' = [peer EXCEPT ![c] = p] /\ UNCHANGED backlog /\ peer[c].connected
        BY <3>2, <4>0 DEF SendRequest, Linked
      <4>2. i \in 1 .. Len(Script[c]) /\ i \in 0 .. Len(Script[c]) /\ inbox \in Seq(1 .. Len(Script[c]))
        BY <2>3, <3>2 DEF Peer, SendRequest
      <4> HIDE DEF i, inbox
      <4>3. p = [connected |-> peer[c].connected, asked |-> i, inbox |-> inbox,
                 room |-> peer[c].room, got |-> peer[c].got, fin |-> peer[c].fin, rst |-> peer[c].rst]
        <5>1. q = [connected |-> peer[c].connected, asked |-> i, inbox |-> peer[c].inbox,
                   room |-> peer[c].room, got |-> peer[c].got, fin |-> peer[c].fin, rst |-> peer[c].rst]
          BY <2>3, PeerFields
        <5> HIDE DEF q
        <5> QED
          BY <5>1
      <4> HIDE DEF p
      <4>4. p \in Peer(c) /\ p.connected = peer[c].connected
        BY <2>3, <4>2, <4>3, PeerFields
      <4> QED
        BY <4>1, <4>4 DEF Connect
    <3>3. CASE ReadResponse(c)
      <4> DEFINE p == [peer[c] EXCEPT !.room = SockRoom]
      <4>1. peer' = [peer EXCEPT ![c] = p] /\ UNCHANGED backlog /\ peer[c].connected
        BY <3>3 DEF ReadResponse, Linked
      <4>3. p = [connected |-> peer[c].connected, asked |-> peer[c].asked, inbox |-> peer[c].inbox,
                 room |-> SockRoom, got |-> peer[c].got, fin |-> peer[c].fin, rst |-> peer[c].rst]
        BY <2>3, PeerFields
      <4> HIDE DEF p
      <4>2. p \in Peer(c) /\ p.connected = peer[c].connected
        BY <2>3, <4>3, PeerFields
      <4> QED
        BY <4>1, <4>2 DEF Connect
    <3>4. CASE Fin(c)
      <4> DEFINE p == [peer[c] EXCEPT !.fin = TRUE]
      <4>1. peer' = [peer EXCEPT ![c] = p] /\ UNCHANGED backlog /\ peer[c].connected
        BY <3>4 DEF Fin, Linked
      <4>2. p \in Peer(c) /\ p.connected = peer[c].connected
        BY <2>3 DEF Peer
      <4> QED
        BY <4>1, <4>2 DEF Connect
    <3>5. CASE Rst(c)
      <4> DEFINE p == [peer[c] EXCEPT !.rst = TRUE]
      <4>1. peer' = [peer EXCEPT ![c] = p] /\ UNCHANGED backlog /\ peer[c].connected
        BY <3>5 DEF Rst, Linked
      <4>2. p \in Peer(c) /\ p.connected = peer[c].connected
        BY <2>3 DEF Peer
      <4> QED
        BY <4>1, <4>2 DEF Connect
    <3> QED
      BY <1>2, <3>1, <3>2, <3>3, <3>4, <3>5
  <2>5. peer'[c] = p /\ (\A d \in Clients \ {c} : peer'[d] = peer[d]) /\ peer' = [d \in Clients |-> peer'[d]]
    BY <2>4 DEF ClientsTyped
  <2>6. ClientsTyped'
    <3>1. \A d \in Clients : peer'[d] \in Peer(d)
      BY <2>4, <2>5 DEF ClientsTyped
    <3>2. backlog' \subseteq Clients
      BY <2>4 DEF ClientsTyped
    <3>3. conn' = [d \in Clients |-> conn'[d]] /\ \A d \in Clients : Connected(conn[d])
      BY <2>1 DEF ClientsTyped
    <3> QED
      BY <2>1, <2>5, <3>1, <3>2, <3>3 DEF ClientsTyped
  <2>7. PoolTyped' /\ Known'
    BY <2>1, SamePool, SameKnown DEF PoolTyped
  <2>8. LoopTyped' /\ Batch'
    BY <2>1, SameBatch DEF LoopTyped
  <2>9. EpollTyped'
    BY <2>1, <2>2, FdsApart DEF EpollTyped
  <2>10. Control'
    BY <2>1 DEF Control, StartingUp, Constructing
  <2>11. Table'
    <3>1. \A d \in Clients : conn[d].fd \in ClientFds \cup {NoFd}
      BY DEF ClientsTyped, Connected
    <3>2. \A fd \in ClientFds : fd \in ready' => fd \in ready \/ interest[fd] # "none"
      BY <2>2, FdsApart
    <3> QED
      BY <2>1, <3>1, <3>2, SameTable
  <2>12. Lives'
    <3>1. \A d \in backlog' : peer'[d].connected /\ conn[d].state = "None"
      <4>1. ASSUME NEW d \in backlog PROVE peer'[d].connected /\ conn[d].state = "None"
        BY <2>4, <2>5 DEF Lives, ClientsTyped
      <4>2. CASE Connect(c)
        BY <2>4, <2>5, <4>1, <4>2 DEF Lives
      <4> QED
        BY <2>4, <4>1, <4>2
    <3>2. \A d \in Clients : ~peer'[d].connected => conn[d].state = "None"
      BY <2>4, <2>5 DEF Lives
    <3> QED
      BY <2>1, <3>1, <3>2 DEF Lives, Sealed
  <2> QED
    BY <2>6, <2>7, <2>8, <2>9, <2>10, <2>11, <2>12
<1> QED
  BY <1>1, <1>2 DEF Environment

LEMMA TailSeq ==
    ASSUME NEW S, NEW s \in Seq(S), s # <<>>
    PROVE  /\ Head(s) \in S /\ Head(s) = s[1] /\ 1 \in DOMAIN s
           /\ Tail(s) \in Seq(S) /\ Len(Tail(s)) = Len(s) - 1
           /\ \A k \in DOMAIN Tail(s) : k + 1 \in DOMAIN s /\ Tail(s)[k] = s[k + 1]
OBVIOUS

LEMMA AppendSeq ==
    ASSUME NEW S, NEW s \in Seq(S), NEW x \in S
    PROVE  /\ Append(s, x) \in Seq(S) /\ Len(Append(s, x)) = Len(s) + 1
           /\ \A k \in DOMAIN Append(s, x) :
                  IF k = Len(s) + 1 THEN Append(s, x)[k] = x
                                    ELSE k \in DOMAIN s /\ Append(s, x)[k] = s[k]
OBVIOUS

LEMMA RequestIsSome ==
    ASSUME NEW req \in Requests
    PROVE  /\ req # NoRequest /\ req = <<req[1], req[2]>>
           /\ req[1] \in Clients /\ req[2] \in 1 .. Len(Script[req[1]])
BY DEF Requests, NoRequest

(* A worker hands on what it was given. *)
LEMMA WorkerKeepsTable ==
    ASSUME TableInv, NEW w \in Workers, WorkerStep(w)
    PROVE  TableInv'
<1> USE DEF TableInv
<1>1. UNCHANGED <<pc, batch, event, request, running_, connections_, conn, closed_, interest,
                  backlog, peer, stop, lost>>
  BY DEF WorkerStep, WorkerTake, WorkerExit, HandlerThrows, HandlerReturns, WorkerPost,
         WorkerNotify, WorkerMoves, loopVars
<1>2. ready' \subseteq ready \cup {WakeupFd} /\ wakeup' \in {wakeup, TRUE}
  BY DEF WorkerStep, WorkerTake, WorkerExit, HandlerThrows, HandlerReturns, WorkerPost,
         WorkerNotify, WakeLoop
<1>3. ASSUME NEW label, NEW req, WorkerMoves(w, label, req)
      PROVE  /\ worker'[w] = [pc |-> label, req |-> req]
             /\ \A other \in Workers \ {w} : worker'[other] = worker[other]
             /\ worker' = [x \in Workers |-> worker'[x]]
  BY <1>3 DEF WorkerMoves, PoolTyped
<1>4. worker[w].pc \in {"run", "post"} => worker[w].req \in Requests /\ worker[w].req # NoRequest
                                          /\ Opened(worker[w].req)
  <2>1. worker[w].pc \in {"run", "post"} => worker[w].req \in Requests
    BY DEF PoolTyped
  <2> QED
    BY <2>1, RequestIsSome DEF Known
<1>5. /\ PoolTyped' /\ UNCHANGED <<closed_, conn>>
      /\ \A k \in DOMAIN queue_' : Opened(queue_'[k])
      /\ \A k \in DOMAIN pending_writes_' : Opened(pending_writes_'[k])
      /\ \A x \in Workers : worker'[x].req # NoRequest => Opened(worker'[x].req)
      /\ StartingUp => queue_' = <<>> /\ pending_writes_' = <<>>
                       /\ \A x \in Workers : worker'[x].pc \notin {"run", "post", "notify"}
  <2>1. CASE WorkerTake(w)
    <3>1. /\ queue_ # <<>> /\ queue_' = Tail(queue_) /\ WorkerMoves(w, "run", Head(queue_))
          /\ UNCHANGED <<pending_writes_, openFiles>>
      BY <2>1 DEF WorkerTake
    <3>2. /\ worker'[w] = [pc |-> "run", req |-> Head(queue_)]
          /\ \A other \in Workers \ {w} : worker'[other] = worker[other]
          /\ worker' = [x \in Workers |-> worker'[x]]
      BY <3>1, <1>3
    <3>3. /\ Head(queue_) \in Requests /\ Opened(Head(queue_))
          /\ queue_' \in Seq(Requests) /\ Len(queue_') <= TaskCapacity
          /\ \A k \in DOMAIN queue_' : Opened(queue_'[k])
      BY <3>1, TailSeq, EventLoopAssumption DEF PoolTyped, Known
    <3>4. PoolTyped'
      BY <1>1, <3>1, <3>2, <3>3 DEF PoolTyped
    <3> QED
      BY <1>1, <3>1, <3>2, <3>3, <3>4 DEF Known, Control
  <2>2. CASE WorkerExit(w) \/ HandlerThrows(w) \/ WorkerNotify(w)
    <3>1. PICK label \in {"pop", "exited"} : WorkerMoves(w, label, NoRequest)
      BY <2>2 DEF WorkerExit, HandlerThrows, WorkerNotify
    <3>2. UNCHANGED <<queue_, pending_writes_, openFiles>>
      BY <2>2 DEF WorkerExit, HandlerThrows, WorkerNotify
    <3>3. /\ worker'[w] = [pc |-> label, req |-> NoRequest]
          /\ \A other \in Workers \ {w} : worker'[other] = worker[other]
          /\ worker' = [x \in Workers |-> worker'[x]]
      BY <3>1, <1>3
    <3>4. PoolTyped'
      BY <1>1, <3>2, <3>3 DEF PoolTyped
    <3> QED
      BY <1>1, <3>2, <3>3, <3>4 DEF Known, Control
  <2>3. CASE HandlerReturns(w)
    <3>1. /\ worker[w].pc = "run" /\ WorkerMoves(w, "post", worker[w].req)
          /\ UNCHANGED <<queue_, pending_writes_>>
          /\ openFiles' \subseteq openFiles \cup {worker[w].req}
      BY <2>3 DEF HandlerReturns
    <3>2. /\ worker'[w] = [pc |-> "post", req |-> worker[w].req]
          /\ \A other \in Workers \ {w} : worker'[other] = worker[other]
          /\ worker' = [x \in Workers |-> worker'[x]]
      BY <3>1, <1>3
    <3>3. PoolTyped'
      BY <1>1, <1>4, <3>1, <3>2 DEF PoolTyped
    <3> QED
      BY <1>1, <1>4, <3>1, <3>2, <3>3 DEF Known, Control
  <2>4. CASE WorkerPost(w)
    <3>1. /\ worker[w].pc = "post" /\ WorkerMoves(w, "notify", NoRequest)
          /\ UNCHANGED <<queue_, openFiles>> /\ Len(pending_writes_) < PendingCapacity
          /\ pending_writes_' = Append(pending_writes_, worker[w].req)
      BY <2>4 DEF WorkerPost
    <3>2. /\ worker'[w] = [pc |-> "notify", req |-> NoRequest]
          /\ \A other \in Workers \ {w} : worker'[other] = worker[other]
          /\ worker' = [x \in Workers |-> worker'[x]]
      BY <3>1, <1>3
    <3>3. /\ pending_writes_' \in Seq(Requests) /\ Len(pending_writes_') <= PendingCapacity
          /\ \A k \in DOMAIN pending_writes_' : Opened(pending_writes_'[k])
      <4>1. pending_writes_ \in Seq(Requests) /\ \A k \in DOMAIN pending_writes_ : Opened(pending_writes_[k])
        BY DEF PoolTyped, Known
      <4>2. PendingCapacity \in Nat /\ Len(pending_writes_) \in Nat
        BY <4>1, EventLoopAssumption
      <4> QED
        BY <1>4, <3>1, <4>1, <4>2, AppendSeq
    <3>4. PoolTyped'
      BY <1>1, <3>1, <3>2, <3>3 DEF PoolTyped
    <3>5. ~StartingUp
      BY <3>1 DEF Control
    <3> QED
      BY <1>1, <3>1, <3>2, <3>3, <3>4, <3>5 DEF Known
  <2> QED
    BY <2>1, <2>2, <2>3, <2>4 DEF WorkerStep
<1>6. ClientsTyped' /\ LoopTyped' /\ Batch' /\ Lives'
  BY <1>1, SameClients, SameBatch, SameLives DEF LoopTyped, ClientsTyped
<1>7. EpollTyped'
  BY <1>1, <1>2, FdsApart DEF EpollTyped
<1>8. Control'
  BY <1>1, <1>5 DEF Control, StartingUp, Constructing
<1>9. Table'
  <2>1. \A d \in Clients : conn[d].fd \in ClientFds \cup {NoFd}
    BY DEF ClientsTyped, Connected
  <2> QED
    BY <1>1, <1>2, <2>1, SameTable, FdsApart
<1>10. Known'
  BY <1>1, <1>5 DEF Known, Opened
<1> QED
  BY <1>5, <1>6, <1>7, <1>8, <1>9, <1>10

LEMMA StartUpKeepsTable ==
    ASSUME TableInv, StartUp
    PROVE  TableInv'
<1> USE DEF TableInv
<1>1. /\ UNCHANGED <<batch, event, request, connections_, conn, queue_, pending_writes_,
                     openFiles, wakeup, backlog, peer, stop, lost>>
      /\ StartingUp /\ pc' \in Labels \ (Handling \cup {"arm"}) /\ running_' \in BOOLEAN
      /\ closed_' \in BOOLEAN /\ ready' \subseteq ready \cup {ListenFd, WakeupFd}
      /\ interest' = interest \/ interest' = [interest EXCEPT ![ListenFd] = "in"]
         \/ interest' = [interest EXCEPT ![WakeupFd] = "in"]
      /\ worker' = worker \/ worker' = [w \in Workers |-> [pc |-> "pop", req |-> NoRequest]]
      /\ StartingUp' \/ pc' \in {"top", "unwind", "dead"}
  <2>1. CASE Run
    BY <2>1 DEF Run, Enter, Goto, StartingUp, Constructing, Labels, Handling, PoolTyped
  <2>2. CASE StartFails
    BY <2>2 DEF StartFails, Goto, epollVars, Labels, Handling, LoopTyped
  <2>3. CASE AddListen \/ AddWakeup
    BY <2>3 DEF AddListen, AddWakeup, Add, Enter, Goto, StartingUp, Constructing, Labels, Handling,
                LoopTyped, PoolTyped
  <2>4. CASE MakeTcp \/ CreateEpoll \/ StartPool \/ SetOptions \/ Bind \/ Listen
             \/ InstallHandlers \/ BuildRouter
    BY <2>4 DEF MakeTcp, CreateEpoll, StartPool, SetOptions, Bind, Listen, InstallHandlers,
                BuildRouter, Pass, Enter, Goto, StartingUp, Constructing, Labels, Handling,
                LoopTyped, PoolTyped
  <2> QED
    BY <2>1, <2>2, <2>3, <2>4 DEF StartUp
<1>2. ClientsTyped' /\ Batch' /\ Lives'
  BY <1>1, SameClients, SameBatch, SameLives DEF ClientsTyped
<1>3. LoopTyped'
  BY <1>1, LoopMoves DEF Handling
<1>4. PoolTyped'
  BY <1>1 DEF PoolTyped
<1>5. EpollTyped'
  BY <1>1, FdsApart DEF EpollTyped
<1>6. Control'
  <2>1. batch = {} /\ event = NoEvent
    BY <1>1 DEF Control, StartingUp, Constructing, Handling
  <2>2. pc' \notin Handling /\ pc' # "arm" /\ pc' # "disarm"
    BY <1>1 DEF Handling
  <2>3. StartingUp' => /\ DOMAIN connections_' = {} /\ queue_' = <<>> /\ pending_writes_' = <<>>
                       /\ \A w \in Workers : worker'[w].pc \notin {"run", "post", "notify"}
    BY <1>1 DEF Control
  <2> QED
    BY <1>1, <2>1, <2>2, <2>3 DEF Control
<1>7. Table'
  <2>1. \A d \in Clients : conn[d].fd \in ClientFds \cup {NoFd}
    BY DEF ClientsTyped, Connected
  <2>2. \A fd \in ClientFds : interest'[fd] = interest[fd]
    BY <1>1, FdsApart DEF EpollTyped
  <2>3. DOMAIN connections_ = {}
    BY <1>1 DEF Control
  <2> QED
    BY <1>1, <2>1, <2>2, <2>3, FdsApart DEF Table
<1>8. Known'
  <2>1. \A w \in Workers : worker'[w].req # NoRequest => worker[w].req # NoRequest /\ worker' = worker
    BY <1>1
  <2> QED
    BY <1>1, <2>1 DEF Known, Opened
<1> QED
  BY <1>2, <1>3, <1>4, <1>5, <1>6, <1>7, <1>8

LEMMA OneSocketEach ==
    ASSUME Table, NEW c \in Clients, NEW d \in Clients, conn[c].fd = conn[d].fd, conn[c].fd # NoFd
    PROVE  c = d
<1>1. connections_[conn[c].fd] = c /\ connections_[conn[d].fd] = d
  BY DEF Table
<1> QED
  BY <1>1

(* A descriptor that is registered is a connection's. *)
LEMMA RegisteredIsOpen ==
    ASSUME Table, LoopTyped, NEW fd \in ClientFds, interest[fd] # "none"
    PROVE  /\ fd \in DOMAIN connections_ /\ connections_[fd] \in Clients
           /\ conn[connections_[fd]].fd = fd /\ SocketOf(fd) = connections_[fd]
<1>1. PICK c \in Clients : conn[c].fd = fd
  BY DEF Table
<1>2. conn[c].fd # NoFd
  BY <1>1, FdsApart
<1>3. fd \in DOMAIN connections_ /\ connections_[fd] = c
  BY <1>1, <1>2 DEF Table
<1>4. \A d \in Clients : conn[d].fd = fd => d = c
  BY <1>1, <1>2, OneSocketEach
<1> QED
  BY <1>1, <1>3, <1>4 DEF SocketOf

LEMMA ReportTyped ==
    ASSUME NEW fd \in Fds
    PROVE  Report(fd) \in Events /\ Report(fd).fd = fd
<1> DEFINE c == SocketOf(fd)
           in == Readable(c)
           closed == peer[c].fin \/ peer[c].rst
           out == interest[fd] = "inout" /\ (peer[c].room > 0 \/ peer[c].rst)
<1>1. in \in BOOLEAN /\ closed \in BOOLEAN /\ out \in BOOLEAN
  BY DEF Readable
<1>2. Report(fd) = [fd |-> fd, in |-> in, closed |-> closed, out |-> out]
  BY DEF Report
<1> HIDE DEF in, closed, out
<1> QED
  BY <1>1, <1>2 DEF Events

(* epoll_wait *)
LEMMA PollKeepsTable ==
    ASSUME TableInv, Poll
    PROVE  TableInv'
<1> USE DEF TableInv
<1>1. PICK some \in SUBSET Reports : batch' = some /\ ready' = {e.fd : e \in Reports \ some}
  BY DEF Poll
<1>2. /\ pc = "top" /\ pc' = "batch"
      /\ UNCHANGED <<event, request, connections_, conn, queue_, closed_, worker, pending_writes_,
                     openFiles, interest, wakeup, peer, running_, backlog, stop, lost>>
  BY DEF Poll, Goto, poolVars, LoopKeeps
<1>3. ~StartingUp /\ ~StartingUp' /\ event = NoEvent /\ pc' \notin Handling /\ pc' # "arm"
      /\ pc' \in Labels
  BY <1>2 DEF StartingUp, Constructing, Control, Handling, Labels
<1>4. ASSUME NEW r \in Reports
      PROVE  /\ r \in Events /\ r.fd \in ready
             /\ r.fd \in ClientFds => r = Report(r.fd) /\ r.fd \in DOMAIN connections_
                                      /\ interest[r.fd] # "none"
  <2>1. ASSUME NEW fd \in {ListenFd, WakeupFd}, fd \in ready, r = [NoEvent EXCEPT !.fd = fd, !.in = TRUE]
        PROVE  r \in Events /\ r.fd \in ready /\ r.fd \notin ClientFds
    BY <2>1, FdsApart DEF NoEvent, Events
  <2>2. ASSUME NEW fd \in ready \cap ClientFds, r = Report(fd)
        PROVE  /\ r \in Events /\ r.fd = fd /\ fd \in DOMAIN connections_ /\ interest[fd] # "none"
    <3>1. r.fd = fd /\ r \in Events
      BY <2>2, ReportTyped, FdsApart
    <3>2. interest[fd] # "none"
      BY <2>2 DEF Table
    <3>3. fd \in DOMAIN connections_
      BY <3>2, RegisteredIsOpen
    <3> QED
      BY <3>1, <3>2, <3>3
  <2> QED
    BY <2>1, <2>2 DEF Reports
<1>5. ASSUME NEW r \in Reports, NEW s \in Reports, r.fd = s.fd
      PROVE  r = s
  <2>1. ASSUME NEW t \in Reports, t.fd \notin ClientFds
        PROVE  t = [NoEvent EXCEPT !.fd = t.fd, !.in = TRUE]
    <3>1. ~\E fd \in ready \cap ClientFds : t = Report(fd)
      BY <2>1, ReportTyped, FdsApart
    <3>2. PICK fd \in {ListenFd, WakeupFd} : t = [NoEvent EXCEPT !.fd = fd, !.in = TRUE]
      BY <3>1 DEF Reports
    <3>3. t.fd = fd
      BY <3>2 DEF NoEvent
    <3> QED
      BY <3>2, <3>3
  <2> QED
    BY <1>4, <1>5, <2>1
<1>6. ClientsTyped' /\ PoolTyped'
  BY <1>2, SameClients, SamePool DEF PoolTyped
<1>7. LoopTyped'
  BY <1>1, <1>2, <1>3, <1>4 DEF LoopTyped
<1>8. EpollTyped'
  BY <1>1, <1>2, <1>4 DEF EpollTyped
<1>9. Control'
  BY <1>2, <1>3 DEF Control
<1>10. Table'
  <2>1. \A d \in Clients : conn[d].fd \in ClientFds \cup {NoFd}
    BY DEF ClientsTyped, Connected
  <2>2. ready' \subseteq ready
    BY <1>1, <1>4
  <2> QED
    BY <1>2, <2>1, <2>2, SameTable
<1>11. Batch'
  <2>1. \A e \in batch' : e.fd # event'.fd
    BY <1>1, <1>2, <1>3, <1>4, FdsApart DEF Events
  <2> QED
    BY <1>1, <1>2, <1>4, <1>5, <2>1 DEF Batch
<1>12. Lives'
  <2>1. ASSUME NEW e \in batch', e.fd \in ClientFds PROVE Sealed(connections_[e.fd])
    <3>1. conn[connections_[e.fd]].fd = e.fd /\ connections_[e.fd] \in Clients
      BY <1>1, <1>2, <1>4, <2>1 DEF Table, LoopTyped
    <3> QED
      BY <2>1, <3>1, FdsApart DEF Lives, Sealed
  <2> QED
    BY <1>2, <1>3, <2>1 DEF Lives, Sealed
<1>13. Known'
  BY <1>2 DEF Known, Opened
<1> QED
  BY <1>6, <1>7, <1>8, <1>9, <1>10, <1>11, <1>12, <1>13

(* Two ways to change a connection: its socket is closed, with everything    *)
(* that goes with it ...                                                     *)
LEMMA ShutTable ==
    ASSUME TableInv, NEW c \in Clients, NEW cn, NEW dropped, conn[c].state # "None",
           Connected(cn), cn.fd = NoFd, cn.state = "Closed",
           ConnBecomes(c, cn, dropped), UNCHANGED connections_, pc' # "top"
    PROVE  /\ Table'
           /\ conn' = [d \in Clients |-> conn'[d]] /\ (\A d \in Clients : Connected(conn'[d]))
           /\ conn'[c] = cn /\ \A d \in Clients \ {c} : conn'[d] = conn[d]
           /\ interest' \in [Fds -> {"none", "in", "inout"}] /\ ready' \subseteq ready
           /\ openFiles' \subseteq openFiles
<1> USE DEF TableInv
<1> DEFINE fd == conn[c].fd
           closes == fd # NoFd /\ cn.fd = NoFd
<1>1. /\ conn' = [conn EXCEPT ![c] = cn]
      /\ interest' = IF closes THEN [interest EXCEPT ![fd] = "none"] ELSE interest
      /\ ready' = IF closes THEN ready \ {fd} ELSE ready
      /\ openFiles' \subseteq openFiles
  BY DEF ConnBecomes
<1>4. /\ conn'[c] = cn /\ \A d \in Clients \ {c} : conn'[d] = conn[d]
      /\ conn' = [d \in Clients |-> conn'[d]]
  BY <1>1 DEF ClientsTyped
<1>5. \A d \in Clients : conn[d].fd \in ClientFds \cup {NoFd}
  BY DEF ClientsTyped, Connected
<1>6. fd # NoFd => fd \in Fds /\ (\A d \in Clients \ {c} : conn[d].fd # fd)
  BY <1>5, OneSocketEach, FdsApart
<1>7. \A x \in ClientFds : interest'[x] = IF x = fd THEN "none" ELSE interest[x]
  BY <1>1, FdsApart DEF EpollTyped
<1>8. Table'
  <2>1. ASSUME NEW d \in Clients, conn'[d].fd # NoFd
        PROVE  /\ conn'[d].fd \in DOMAIN connections_ /\ connections_[conn'[d].fd] = d
               /\ interest'[conn'[d].fd] # "none"
    BY <2>1, <1>4, <1>5, <1>6, <1>7 DEF Table
  <2>2. ASSUME NEW x \in ClientFds, interest'[x] # "none"
        PROVE  \E d \in Clients : conn'[d].fd = x
    BY <2>2, <1>4, <1>7 DEF Table
  <2>3. ASSUME NEW x \in DOMAIN connections_
        PROVE  conn'[connections_[x]].fd = x \/ conn'[connections_[x]].state = "Closed"
    BY <1>4 DEF Table, LoopTyped
  <2>4. \A x \in ready' \cap ClientFds : interest'[x] # "none"
    <3>1. CASE fd = NoFd
      BY <3>1, <1>1, <1>7, FdsApart DEF Table
    <3>2. CASE fd # NoFd
      BY <3>2, <1>1, <1>7 DEF Table
    <3> QED
      BY <3>1, <3>2
  <2> QED
    BY <2>1, <2>2, <2>3, <2>4 DEF Table
<1> QED
  BY <1>1, <1>4, <1>8 DEF ClientsTyped, EpollTyped

LEMMA ClosesTable ==
    ASSUME TableInv, NEW c \in Clients, NEW dropped, conn[c].state # "None",
           ConnBecomes(c, OnClosed(conn[c]), dropped), UNCHANGED connections_, pc' # "top"
    PROVE  /\ Table'
           /\ conn' = [d \in Clients |-> conn'[d]] /\ (\A d \in Clients : Connected(conn'[d]))
           /\ conn'[c].fd = NoFd /\ conn'[c].state = "Closed" /\ conn'[c].write_buf = conn[c].write_buf
           /\ \A d \in Clients \ {c} : conn'[d] = conn[d]
           /\ interest' \in [Fds -> {"none", "in", "inout"}] /\ ready' \subseteq ready
           /\ openFiles' \subseteq openFiles
<1> DEFINE cn == OnClosed(conn[c])
<1>1. Connected(conn[c]) /\ (conn[c].state = "Closed" => conn[c].fd = NoFd)
  BY DEF TableInv, ClientsTyped, Lives
<1>2. Connected(cn) /\ cn.fd = NoFd /\ cn.state = "Closed" /\ cn.write_buf = conn[c].write_buf
  BY <1>1, OnClosedTyped
<1> HIDE DEF cn
<1>3. ConnBecomes(c, cn, dropped)
  BY DEF cn
<1> QED
  BY <1>2, <1>3, ShutTable

(* ... or it stays as it is. *)
LEMMA StaysTable ==
    ASSUME TableInv, NEW c \in Clients, NEW cn, NEW dropped,
           Connected(cn), cn.fd = conn[c].fd, conn[c].fd # NoFd,
           ConnBecomes(c, cn, dropped), UNCHANGED connections_, pc' # "top"
    PROVE  /\ Table'
           /\ conn' = [d \in Clients |-> conn'[d]] /\ (\A d \in Clients : Connected(conn'[d]))
           /\ conn'[c] = cn /\ \A d \in Clients \ {c} : conn'[d] = conn[d]
           /\ UNCHANGED <<interest, ready>> /\ openFiles' \subseteq openFiles
<1> USE DEF TableInv
<1>1. /\ conn' = [conn EXCEPT ![c] = cn] /\ UNCHANGED <<interest, ready>>
      /\ openFiles' \subseteq openFiles
  BY DEF ConnBecomes
<1>2. /\ conn'[c] = cn /\ \A d \in Clients \ {c} : conn'[d] = conn[d]
      /\ conn' = [d \in Clients |-> conn'[d]]
  BY <1>1 DEF ClientsTyped
<1>3. \A d \in Clients : conn'[d].fd = conn[d].fd
  BY <1>2
<1>4. ASSUME NEW x \in DOMAIN connections_
      PROVE  conn'[connections_[x]].fd = x \/ conn'[connections_[x]].state = "Closed"
  <2>1. connections_[x] \in Clients
    BY DEF LoopTyped
  <2>2. conn[c].state # "Closed"
    BY DEF Lives
  <2> QED
    BY <1>2, <1>3, <2>1, <2>2 DEF Table
<1>5. Table'
  BY <1>1, <1>3, <1>4 DEF Table
<1> QED
  BY <1>1, <1>2, <1>5 DEF ClientsTyped

(* What leaves conn, the table and the registrations alone. *)
LEMMA StillTable ==
    ASSUME TableInv, UNCHANGED <<conn, connections_, interest>>, pc' = "top" => pc = "top",
           ready' \subseteq ready \cup {ListenFd, WakeupFd}
    PROVE  Table' /\ (UNCHANGED <<wakeup, stop, lost>> => EpollTyped')
<1>1. \A d \in Clients : conn[d].fd \in ClientFds \cup {NoFd}
  BY DEF TableInv, ClientsTyped, Connected
<1>2. Table'
  BY <1>1, SameTable, FdsApart DEF TableInv
<1>3. UNCHANGED <<wakeup, stop, lost>> => EpollTyped'
  BY FdsApart DEF TableInv, EpollTyped
<1> QED
  BY <1>2, <1>3

LEMMA HandleKeepsTable ==
    ASSUME TableInv, NEW e \in batch,
           HandleListen(e) \/ HandleWakeup(e) \/ HandleClosed(e) \/ HandleIo(e)
    PROVE  TableInv'
<1> USE DEF TableInv
<1>1. /\ pc = "batch" /\ batch' = batch \ {e}
      /\ UNCHANGED <<request, connections_, queue_, closed_, worker, pending_writes_, peer,
                     running_, backlog, stop, lost>>
  BY DEF HandleListen, HandleWakeup, HandleClosed, HandleIo, Handle, poolVars, LoopKeeps
<1>2. event = NoEvent /\ ~StartingUp
  BY <1>1 DEF Control, Handling, StartingUp, Constructing
<1>3. backlog \subseteq Clients /\ closed_ \in BOOLEAN /\ running_ \in BOOLEAN
  BY DEF ClientsTyped, PoolTyped, LoopTyped
<1>4. CASE HandleListen(e) \/ HandleWakeup(e)
  <2>1. /\ pc' \in {"accept", "drain"} /\ wakeup' \in {wakeup, FALSE}
        /\ UNCHANGED <<event, conn, openFiles, interest, ready>>
    BY <1>4 DEF HandleListen, HandleWakeup, Goto, epollVars
  <2>2. pc' \in Labels /\ pc' \notin Handling \cup {"arm", "top", "submit", "post"} /\ ~StartingUp'
    BY <2>1 DEF Labels, Handling, StartingUp, Constructing
  <2>3. ClientsTyped' /\ PoolTyped' /\ LoopTyped' /\ Batch' /\ Lives' /\ Known'
    BY <1>1, <1>3, <2>1, <2>2, SameClients, SamePool, LoopMoves, SameBatch, SameLives, SameKnown
  <2>4. Table'
    BY <1>1, <2>1, <2>2, StillTable
  <2>5. EpollTyped'
    BY <1>1, <2>1 DEF EpollTyped
  <2>6. Control'
    BY <1>2, <2>1, <2>2 DEF Control, Handling
  <2> QED
    BY <2>3, <2>4, <2>5, <2>6
<1>5. CASE HandleIo(e)
  <2>1. /\ pc' \in {"read", "write"} /\ event' = e /\ e.fd \in DOMAIN connections_
        /\ UNCHANGED <<conn, openFiles, interest, ready, wakeup>>
    BY <1>5 DEF HandleIo, Goto, epollVars
  <2>2. /\ pc' \in Labels \cap Handling /\ ~StartingUp' /\ pc' \notin {"arm", "top", "submit", "post"}
        /\ pc' # "disarm" /\ e.fd \in ClientFds
    BY <2>1 DEF Labels, Handling, StartingUp, Constructing, LoopTyped
  <2>3. ClientsTyped' /\ PoolTyped' /\ Known'
    BY <1>1, <1>3, <2>1, SameClients, SamePool, SameKnown
  <2>4. LoopTyped'
    BY <1>1, <2>1, <2>2 DEF LoopTyped
  <2>5. Table' /\ EpollTyped'
    BY <1>1, <2>1, <2>2, StillTable
  <2>6. Control'
    BY <1>1, <2>1, <2>2 DEF Control
  <2>7. Batch' /\ Lives'
    BY <1>1, <2>1, <2>2 DEF Batch, Lives, Sealed
  <2> QED
    BY <2>3, <2>4, <2>5, <2>6, <2>7
<1>6. CASE HandleClosed(e)
  <2> DEFINE c == connections_[e.fd]
  <2>1. /\ ConnBecomes(c, OnClosed(conn[c]), {}) /\ e.fd \in DOMAIN connections_
        /\ UNCHANGED <<pc, event, wakeup>>
    BY <1>6 DEF HandleClosed
  <2>2. c \in Clients /\ conn[c].state # "None"
    BY <2>1 DEF LoopTyped, Lives
  <2>3. /\ Table'
        /\ conn' = [d \in Clients |-> conn'[d]] /\ (\A d \in Clients : Connected(conn'[d]))
        /\ conn'[c].fd = NoFd /\ conn'[c].state = "Closed" /\ conn'[c].write_buf = conn[c].write_buf
        /\ \A d \in Clients \ {c} : conn'[d] = conn[d]
        /\ interest' \in [Fds -> {"none", "in", "inout"}] /\ ready' \subseteq ready
        /\ openFiles' \subseteq openFiles
    BY <1>1, <2>1, <2>2, ClosesTable
  <2>4. e.fd \in ClientFds /\ \A x \in batch' : x.fd \in ClientFds => connections_[x.fd] # c
    BY <1>1, <2>1 DEF Batch, Table, LoopTyped
  <2> HIDE DEF c
  <2>5. ClientsTyped'
    BY <1>1, <2>3 DEF ClientsTyped
  <2>6. \A d \in Clients : conn[d].state # "None" => conn'[d].state # "None"
    BY <2>3
  <2>7. PoolTyped' /\ LoopTyped' /\ Batch' /\ Known'
    BY <1>1, <1>3, <2>1, <2>3, <2>6, SamePool, LoopMoves, SameBatch, SameKnown DEF LoopTyped
  <2>8. EpollTyped'
    BY <1>1, <2>1, <2>3 DEF EpollTyped
  <2>9. Control'
    BY <1>1, <1>2, <2>1 DEF Control, StartingUp, Constructing, Handling
  <2>10. Lives'
    <3>1. ASSUME NEW x \in batch', x.fd \in ClientFds
          PROVE  conn'[connections_[x.fd]] = conn[connections_[x.fd]]
      BY <1>1, <2>3, <2>4, <3>1 DEF Batch, LoopTyped
    <3>2. \A d \in backlog : peer[d].connected /\ conn'[d].state = "None"
      BY <1>3, <2>2, <2>3 DEF Lives
    <3>3. \A d \in Clients : ~peer[d].connected => conn'[d].state = "None"
      BY <2>2, <2>3 DEF Lives
    <3>4. \A fd \in DOMAIN connections_ : conn'[connections_[fd]].state # "None"
      BY <2>3 DEF Lives, LoopTyped
    <3>5. \A d \in Clients : conn'[d].state \in {"None", "Closed", "Destroyed"} => conn'[d].fd = NoFd
      BY <2>3 DEF Lives
    <3>6. pc' \notin Handling
      BY <1>1, <2>1 DEF Handling
    <3> QED
      BY <1>1, <3>1, <3>2, <3>3, <3>4, <3>5, <3>6 DEF Lives, Sealed
  <2> QED
    BY <2>3, <2>5, <2>7, <2>8, <2>9, <2>10
<1> QED
  BY <1>4, <1>5, <1>6

(* The end of the batch, where the entries of dead connections go. *)
LEMMA ReapKeepsTable ==
    ASSUME TableInv, Reap
    PROVE  TableInv'
<1> USE DEF TableInv
<1>1. /\ pc = "batch" /\ pc' = "top" /\ batch = {}
      /\ connections_' = [fd \in DOMAIN connections_ \ Dead |-> connections_[fd]]
      /\ interest' = [fd \in Fds |-> IF fd \in Dead THEN "none" ELSE interest[fd]]
      /\ ready' = ready \ Dead
      /\ UNCHANGED <<batch, event, request, conn, queue_, closed_, worker, pending_writes_,
                     openFiles, wakeup, peer, running_, backlog, stop, lost>>
  BY DEF Reap, Goto, poolVars, LoopKeeps
<1>2. event = NoEvent /\ pc' \in Labels \ (Handling \cup {"arm", "submit", "post"}) /\ ~StartingUp'
  BY <1>1 DEF Control, Handling, StartingUp, Constructing, Labels
<1>3. \A fd \in Dead : fd \in DOMAIN connections_ /\ conn[connections_[fd]].state = "Closed"
                       /\ connections_[fd] \in Clients
  BY DEF Dead, IsAlive, LoopTyped
<1>4. \A d \in Clients : conn[d].fd \notin Dead
  <2>1. ASSUME NEW d \in Clients, conn[d].fd \in Dead PROVE FALSE
    <3>1. conn[d].fd # NoFd
      BY <1>3, <2>1, FdsApart DEF LoopTyped
    <3>2. connections_[conn[d].fd] = d
      BY <3>1 DEF Table
    <3>3. conn[d].state = "Closed"
      BY <1>3, <2>1, <3>2
    <3> QED
      BY <3>1, <3>3 DEF Lives
  <2> QED
    BY <2>1
<1>5. \A d \in Clients : conn[d].fd \in ClientFds \cup {NoFd}
  BY DEF ClientsTyped, Connected
<1>6. /\ DOMAIN connections_' = DOMAIN connections_ \ Dead
      /\ \A fd \in DOMAIN connections_' : connections_'[fd] = connections_[fd]
  BY <1>1
<1>7. ClientsTyped' /\ PoolTyped' /\ Known'
  BY <1>1, SameClients, SamePool, SameKnown DEF PoolTyped
<1>8. LoopTyped'
  BY <1>1, <1>2, <1>6 DEF LoopTyped
<1>9. EpollTyped'
  <2>1. interest' \in [Fds -> {"none", "in", "inout"}]
    BY <1>1 DEF EpollTyped
  <2> QED
    BY <1>1, <2>1 DEF EpollTyped
<1>10. Control' /\ Batch'
  BY <1>1, <1>2 DEF Control, Batch
<1>11. Table'
  <2>1. \A fd \in ClientFds : interest'[fd] = IF fd \in Dead THEN "none" ELSE interest[fd]
    BY <1>1, FdsApart
  <2>2. ASSUME NEW d \in Clients, conn[d].fd # NoFd
        PROVE  /\ conn[d].fd \in DOMAIN connections_' /\ connections_'[conn[d].fd] = d
               /\ interest'[conn[d].fd] # "none"
    BY <1>4, <1>5, <1>6, <2>1, <2>2 DEF Table
  <2>3. ASSUME NEW fd \in DOMAIN connections_' PROVE conn[connections_'[fd]].fd = fd
    <3>1. fd \in DOMAIN connections_ /\ fd \notin Dead /\ connections_'[fd] = connections_[fd]
      BY <1>6
    <3>2. conn[connections_[fd]].state # "Closed"
      BY <3>1 DEF Dead, IsAlive
    <3> QED
      BY <3>1, <3>2 DEF Table
  <2>4. \A fd \in ClientFds : interest'[fd] # "none" => \E d \in Clients : conn[d].fd = fd
    BY <2>1 DEF Table
  <2>5. \A fd, other \in DOMAIN connections_' : connections_'[fd] = connections_'[other] => fd = other
    BY <1>6 DEF Table
  <2>6. \A fd \in ready' \cap ClientFds : interest'[fd] # "none"
    BY <1>1, <2>1 DEF Table
  <2> QED
    BY <1>1, <2>2, <2>3, <2>4, <2>5, <2>6 DEF Table
<1>12. Lives'
  BY <1>1, <1>2, <1>6 DEF Lives, Sealed
<1> QED
  BY <1>7, <1>8, <1>9, <1>10, <1>11, <1>12

(* accept_new_connections() *)
LEMMA AcceptKeepsTable ==
    ASSUME TableInv, AcceptNothing \/ AcceptOne \/ AcceptThrows
    PROVE  TableInv'
<1> USE DEF TableInv
<1>1. /\ pc = "accept" /\ event = NoEvent /\ ~StartingUp
      /\ UNCHANGED <<event, request, pending_writes_, openFiles, wakeup, queue_, worker,
                     running_, stop, peer, lost>>
  BY DEF AcceptNothing, AcceptOne, AcceptThrows, Accepting, Control, Handling, StartingUp, Constructing
<1>2. /\ backlog \subseteq Clients /\ closed_ \in BOOLEAN /\ running_ \in BOOLEAN
      /\ \A d \in Clients : conn[d].fd \in ClientFds \cup {NoFd}
  BY DEF ClientsTyped, PoolTyped, LoopTyped, Connected
<1>3. CASE AcceptNothing \/ AcceptThrows
  <2>1. /\ pc' \in {"batch", "unwind"} /\ backlog' \subseteq backlog /\ batch' \subseteq batch
        /\ pc' = "unwind" => batch' = {}
        /\ closed_' \in {closed_, TRUE}
        /\ UNCHANGED <<connections_, conn, interest, ready>>
    BY <1>3 DEF AcceptNothing, AcceptThrows, Throw, ClosePool, Goto
  <2>2. pc' \in Labels /\ pc' \notin Handling \cup {"arm", "top", "submit", "post"} /\ ~StartingUp'
    BY <2>1 DEF Labels, Handling, StartingUp, Constructing
  <2>3. ClientsTyped' /\ PoolTyped' /\ LoopTyped' /\ Batch' /\ Lives' /\ Known'
    BY <1>1, <1>2, <2>1, <2>2, SameClients, SamePool, LoopMoves, SameBatch, SameLives, SameKnown
  <2>4. Table' /\ EpollTyped'
    BY <1>1, <2>1, <2>2, StillTable
  <2>5. Control'
    BY <1>1, <2>1, <2>2 DEF Control, Handling
  <2> QED
    BY <2>3, <2>4, <2>5
<1>4. CASE AcceptOne
  <2> DEFINE fd == LowestFree
  <2>1. fd \in ClientFds /\ fd \in Fds /\ fd # NoFd /\ \A d \in Clients : conn[d].fd # fd
    BY <1>4, LowestIsFree, FdsApart DEF AcceptOne, FreeFds
  <2>2. UNCHANGED <<pc, batch, closed_>>
    BY <1>4 DEF AcceptOne
  <2> HIDE DEF fd
  <2>3. PICK c \in backlog :
            /\ backlog' = backlog \ {c}
            /\ \/ /\ conn' = [conn EXCEPT ![c].state = "Destroyed"]
                  /\ UNCHANGED <<connections_, interest, ready>>
               \/ /\ fd \notin DOMAIN connections_
                  /\ conn' = [conn EXCEPT ![c] = NewConnection(fd)]
                  /\ connections_' = [x \in DOMAIN connections_ \cup {fd} |->
                                         IF x = fd THEN c ELSE connections_[x]]
                  /\ interest' = [interest EXCEPT ![fd] = "in"]
                  /\ ready' \in {ready, ready \cup {fd}}
    BY <1>4 DEF AcceptOne, Register, fd
  <2>4. c \in Clients /\ conn[c].state = "None" /\ conn[c].fd = NoFd /\ peer[c].connected
    BY <1>2 DEF Lives
  <2>5. PICK cn : /\ conn' = [conn EXCEPT ![c] = cn] /\ Connected(cn)
                  /\ \/ /\ cn.fd = NoFd /\ cn.state = "Destroyed"
                        /\ UNCHANGED <<connections_, interest, ready>>
                     \/ /\ cn.fd = fd /\ cn.state = "Reading" /\ fd \notin DOMAIN connections_
                        /\ connections_' = [x \in DOMAIN connections_ \cup {fd} |->
                                               IF x = fd THEN c ELSE connections_[x]]
                        /\ interest' = [interest EXCEPT ![fd] = "in"]
                        /\ ready' \in {ready, ready \cup {fd}}
    <3>1. Connected(conn[c])
      BY <2>4 DEF ClientsTyped
    <3>2. Connected([conn[c] EXCEPT !.state = "Destroyed"])
          /\ [conn[c] EXCEPT !.state = "Destroyed"].fd = NoFd
          /\ [conn[c] EXCEPT !.state = "Destroyed"].state = "Destroyed"
      BY <3>1, <2>4 DEF Connected, Operation, States
    <3>3. Operation(NoSendfile) /\ "Reading" \in States
      BY DEF Operation, NoSendfile, States
    <3>4. Connected(NewConnection(fd)) /\ NewConnection(fd).fd = fd
          /\ NewConnection(fd).state = "Reading"
      <4> HIDE DEF NoSendfile
      <4> QED
        BY <2>1, <3>3 DEF Connected, NewConnection, Operation
    <3> QED
      BY <2>3, <3>2, <3>4
  <2>6. /\ conn'[c] = cn /\ conn' = [d \in Clients |-> conn'[d]]
        /\ \A d \in Clients \ {c} : conn'[d] = conn[d]
    BY <2>4, <2>5 DEF ClientsTyped
  <2>7. cn.state \notin {"None", "Closed"} /\ \A x \in DOMAIN connections_ : connections_[x] # c
    BY <2>4, <2>5 DEF Lives
  <2>8. /\ DOMAIN connections_ \subseteq DOMAIN connections_'
        /\ DOMAIN connections_' \subseteq DOMAIN connections_ \cup {fd}
        /\ \A x \in DOMAIN connections_ : connections_'[x] = connections_[x]
        /\ fd \in DOMAIN connections_' /\ fd \notin DOMAIN connections_ =>
               connections_'[fd] = c /\ cn.fd = fd
        /\ cn.fd # NoFd => /\ cn.fd = fd /\ fd \in DOMAIN connections_' /\ fd \notin DOMAIN connections_
                           /\ connections_'[fd] = c /\ interest'[fd] = "in"
        /\ \A x \in ClientFds \ {fd} : interest'[x] = interest[x]
        /\ interest'[fd] # "none" => interest[fd] # "none" \/ cn.fd = fd
    <3>1. CASE cn.fd = NoFd
      BY <3>1, <2>1, <2>5
    <3>2. CASE cn.fd # NoFd
      BY <3>2, <2>1, <2>5, FdsApart DEF EpollTyped
    <3> QED
      BY <3>1, <3>2
  <2>9. ClientsTyped'
    BY <1>1, <1>2, <2>3, <2>5, <2>6 DEF ClientsTyped
  <2>10. \A d \in Clients : conn[d].state # "None" => conn'[d].state # "None"
    BY <2>4, <2>6
  <2>11. PoolTyped' /\ Known'
    BY <1>1, <1>2, <2>2, <2>10, SamePool, SameKnown
  <2>12. LoopTyped'
    BY <1>1, <2>1, <2>2, <2>4, <2>8 DEF LoopTyped
  <2>13. EpollTyped'
    <3>1. interest' \in [Fds -> {"none", "in", "inout"}] /\ ready' \subseteq Fds
      BY <2>1, <2>5 DEF EpollTyped
    <3> QED
      BY <1>1, <3>1 DEF EpollTyped
  <2>14. Control'
    BY <1>1, <2>2 DEF Control, StartingUp, Constructing, Handling
  <2>15. Batch'
    BY <1>1, <2>2, <2>8 DEF Batch
  <2>16. Table'
    <3>1. ASSUME NEW d \in Clients, conn'[d].fd # NoFd
          PROVE  /\ conn'[d].fd \in DOMAIN connections_' /\ connections_'[conn'[d].fd] = d
                 /\ interest'[conn'[d].fd] # "none"
      <4>1. CASE d = c
        BY <3>1, <4>1, <2>6, <2>8
      <4>2. CASE d # c
        <5>1. conn'[d] = conn[d] /\ conn[d].fd # fd /\ conn[d].fd \in ClientFds
          BY <4>2, <3>1, <2>1, <2>6, <1>2
        <5> QED
          BY <3>1, <5>1, <2>8 DEF Table
      <4> QED
        BY <4>1, <4>2
    <3>2. ASSUME NEW x \in ClientFds, interest'[x] # "none"
          PROVE  \E d \in Clients : conn'[d].fd = x
      <4>1. CASE x = fd /\ cn.fd = fd
        BY <4>1, <2>4, <2>6
      <4>2. CASE ~(x = fd /\ cn.fd = fd)
        <5>1. interest[x] # "none"
          BY <3>2, <4>2, <2>8
        <5>2. PICK d \in Clients : conn[d].fd = x
          BY <5>1 DEF Table
        <5>3. d # c
          BY <5>2, <2>4, FdsApart
        <5> QED
          BY <5>2, <5>3, <2>6
      <4> QED
        BY <4>1, <4>2
    <3>3. ASSUME NEW x \in DOMAIN connections_'
          PROVE  conn'[connections_'[x]].fd = x \/ conn'[connections_'[x]].state = "Closed"
      <4>1. CASE x \in DOMAIN connections_
        <5>1. connections_'[x] = connections_[x] /\ connections_[x] \in Clients \ {c}
          BY <4>1, <2>7, <2>8 DEF LoopTyped
        <5> QED
          BY <4>1, <5>1, <2>6 DEF Table
      <4>2. CASE x \notin DOMAIN connections_
        BY <3>3, <4>2, <2>6, <2>8
      <4> QED
        BY <4>1, <4>2
    <3>4. ASSUME NEW x \in DOMAIN connections_', NEW y \in DOMAIN connections_',
                 connections_'[x] = connections_'[y]
          PROVE  x = y
      BY <3>4, <2>7, <2>8 DEF Table
    <3>5. ASSUME NEW x \in ready' \cap ClientFds PROVE interest'[x] # "none"
      <4>1. CASE x \in ready
        <5>1. x # fd
          BY <4>1, <2>1 DEF Table
        <5> QED
          BY <4>1, <5>1, <2>8 DEF Table
      <4>2. CASE x \notin ready
        BY <3>5, <4>2, <2>1, <2>5, <2>8
      <4> QED
        BY <4>1, <4>2
    <3> QED
      BY <1>1, <2>2, <3>1, <3>2, <3>3, <3>4, <3>5 DEF Table
  <2>17. Lives'
    <3>1. ASSUME NEW e \in batch, e.fd \in ClientFds PROVE Sealed(connections_[e.fd])'
      <4>1. e.fd \in DOMAIN connections_ /\ connections_[e.fd] \in Clients \ {c}
        BY <3>1, <2>7 DEF Batch, LoopTyped
      <4>2. connections_'[e.fd] = connections_[e.fd] /\ conn'[connections_[e.fd]] = conn[connections_[e.fd]]
        BY <4>1, <2>6, <2>8
      <4> QED
        BY <3>1, <4>2 DEF Lives, Sealed
    <3>2. \A d \in backlog' : peer[d].connected /\ conn'[d].state = "None"
      BY <1>2, <2>3, <2>6 DEF Lives
    <3>3. \A d \in Clients : ~peer[d].connected => conn'[d].state = "None"
      BY <2>4, <2>6 DEF Lives
    <3>4. \A x \in DOMAIN connections_' : conn'[connections_'[x]].state # "None"
      BY <2>6, <2>7, <2>8 DEF Lives, LoopTyped
    <3>5. \A d \in Clients : conn'[d].state \in {"None", "Closed", "Destroyed"} => conn'[d].fd = NoFd
      BY <2>5, <2>6 DEF Lives
    <3>6. pc' \notin Handling
      BY <1>1, <2>2 DEF Handling
    <3> QED
      BY <1>1, <2>2, <3>1, <3>2, <3>3, <3>4, <3>5, <3>6 DEF Lives, Sealed
  <2> QED
    BY <2>9, <2>11, <2>12, <2>13, <2>14, <2>15, <2>16, <2>17
<1> QED
  BY <1>3, <1>4

(* The read callback: one request into the loop's hands. *)
LEMMA ReadRequestKeepsTable ==
    ASSUME TableInv, NEW c \in Clients, ReadRequest(c)
    PROVE  TableInv'
<1> USE DEF TableInv
<1>1. /\ pc = "read" /\ c = connections_[event.fd] /\ conn[c].fd # NoFd /\ peer[c].inbox # <<>>
      /\ pc' \in {"post", "submit"}
      /\ UNCHANGED <<batch, running_, connections_, queue_, closed_, worker, wakeup, backlog, stop,
                     event, pending_writes_, openFiles, interest, ready>>
  BY DEF ReadRequest, Reading, Goto, poolVars
<1> DEFINE inbox == peer[c].inbox
<1>2. peer[c] \in Peer(c) /\ inbox \in Seq(1 .. Len(Script[c])) /\ Connected(conn[c])
  BY DEF ClientsTyped, Peer
<1>3. PICK n \in 1 .. Len(inbox) :
          /\ peer' = [peer EXCEPT ![c].inbox = SubSeq(@, n + 1, Len(@))]
          /\ lost' = lost \cup {<<c, inbox[k]>> : k \in 2 .. n}
  BY DEF ReadRequest
<1>4. request' = <<c, Head(inbox)>> /\ request' \in Requests
  <2> DEFINE i == Head(inbox)
  <2>1. request' = <<c, i>>
    BY DEF ReadRequest
  <2>2. i \in 1 .. Len(Script[c])
    BY <1>1, <1>2, TailSeq
  <2> HIDE DEF i
  <2>3. <<c, i>> \in Requests
    BY <2>2 DEF Requests
  <2> QED
    BY <2>1, <2>3 DEF i
<1>5. lost' \subseteq Requests
  <2>1. \A k \in 2 .. n : <<c, inbox[k]>> \in Requests
    BY <1>2, <1>3 DEF Requests
  <2> QED
    BY <1>3, <2>1 DEF EpollTyped
<1>6. PICK k \in BOOLEAN : conn' = [conn EXCEPT ![c].keep_alive = k]
  BY DEF ReadRequest
<1>7. /\ conn'[c] = [conn[c] EXCEPT !.keep_alive = k] /\ \A d \in Clients \ {c} : conn'[d] = conn[d]
      /\ conn' = [d \in Clients |-> conn'[d]]
  BY <1>6 DEF ClientsTyped
<1>8. /\ Connected(conn'[c]) /\ conn'[c].fd = conn[c].fd /\ conn'[c].state = conn[c].state
      /\ conn'[c].write_buf = conn[c].write_buf /\ HasUnsent(conn'[c]) = HasUnsent(conn[c])
  BY <1>2, <1>7 DEF Connected, Operation, HasUnsent
<1>9. \A d \in Clients : /\ Connected(conn'[d]) /\ conn'[d].fd = conn[d].fd
                         /\ conn'[d].state = conn[d].state /\ conn'[d].write_buf = conn[d].write_buf
  BY <1>7, <1>8 DEF ClientsTyped
<1> DEFINE left == SubSeq(inbox, n + 1, Len(inbox))
           p == [peer[c] EXCEPT !.inbox = left]
<1>10. left \in Seq(1 .. Len(Script[c]))
  <2>1. n \in 0 .. Len(inbox)
    BY <1>2, <1>3
  <2> HIDE DEF inbox
  <2> QED
    BY <1>2, <2>1, SplitSeq
<1>11. p \in Peer(c) /\ p.connected = peer[c].connected
  <2> HIDE DEF left, inbox
  <2>0. peer[c] \in Peer(c)
    BY <1>2
  <2>1. p = [connected |-> peer[c].connected, asked |-> peer[c].asked, inbox |-> left,
             room |-> peer[c].room, got |-> peer[c].got, fin |-> peer[c].fin, rst |-> peer[c].rst]
    BY <2>0, PeerFields
  <2> HIDE DEF p
  <2> QED
    BY <2>0, <1>10, <2>1, PeerFields
<1>12. peer' = [peer EXCEPT ![c] = p]
  BY <1>3
<1> HIDE DEF p
<1>13. /\ peer'[c] = p /\ \A d \in Clients \ {c} : peer'[d] = peer[d]
       /\ peer' = [d \in Clients |-> peer'[d]]
  BY <1>12 DEF ClientsTyped
<1>14. ClientsTyped'
  <2>1. \A d \in Clients : peer'[d] \in Peer(d)
    BY <1>11, <1>13 DEF ClientsTyped
  <2> QED
    BY <1>1, <1>7, <1>9, <1>13, <2>1 DEF ClientsTyped
<1>15. ~StartingUp /\ ~StartingUp' /\ pc' \in Labels \cap Handling /\ pc \in Handling
  BY <1>1 DEF StartingUp, Constructing, Handling, Labels
<1>16. PoolTyped' /\ EpollTyped'
  BY <1>1, <1>5, SamePool DEF PoolTyped, EpollTyped
<1>17. LoopTyped'
  BY <1>1, <1>4, <1>15 DEF LoopTyped
<1>18. Control'
  BY <1>1, <1>15 DEF Control
<1>19. Table'
  BY <1>1, <1>9 DEF Table, LoopTyped
<1>20. Batch'
  BY <1>1 DEF Batch
<1>21. Lives'
  <2>1. \A d \in Clients : peer'[d].connected = peer[d].connected
    BY <1>11, <1>13
  <2>2. \A d \in backlog : d \in Clients
    BY DEF ClientsTyped
  <2>3. \A fd \in DOMAIN connections_ : connections_[fd] \in Clients
    BY DEF LoopTyped
  <2>4. \A d \in Clients : Sealed(d) => Sealed(d)'
    BY <1>9 DEF Sealed
  <2>5. event.fd \in DOMAIN connections_ /\ \A e \in batch : e.fd \in ClientFds => e.fd \in DOMAIN connections_
    BY <1>15 DEF Control, Batch
  <2>6. /\ \A e \in batch' : e.fd \in ClientFds => Sealed(connections_[e.fd])'
        /\ Sealed(connections_[event.fd])'
    BY <1>1, <2>3, <2>4, <2>5 DEF Lives, Handling
  <2> QED
    BY <1>1, <1>9, <2>1, <2>2, <2>3, <2>6 DEF Lives
<1>22. Known'
  <2>1. Opened(request)'
    BY <1>1, <1>4, <1>9, <1>15 DEF Opened, Lives, Control
  <2>2. \A req \in Requests : Opened(req) => Opened(req)'
    BY <1>9, ClientOfRequest DEF Opened
  <2>3. /\ \A i \in DOMAIN queue_ : queue_[i] \in Requests
        /\ \A i \in DOMAIN pending_writes_ : pending_writes_[i] \in Requests
        /\ \A w \in Workers : worker[w].req # NoRequest => worker[w].req \in Requests
    BY DEF PoolTyped
  <2> QED
    BY <1>1, <2>1, <2>2, <2>3 DEF Known, Opened
<1> QED
  BY <1>14, <1>16, <1>17, <1>18, <1>19, <1>20, <1>21, <1>22

(* The rest of on_readable(): the connection ends, there is nothing more to  *)
(* read, or the request goes where it belongs.                               *)
LEMMA ReadKeepsTable ==
    ASSUME TableInv, (\E c \in Clients : ReadEnds(c) \/ ReadAgain(c)) \/ Submit \/ PostError
    PROVE  TableInv'
<1> USE DEF TableInv
<1>0. backlog \subseteq Clients /\ closed_ \in BOOLEAN /\ running_ \in BOOLEAN
  BY DEF ClientsTyped, PoolTyped, LoopTyped
<1>1. ASSUME NEW c \in Clients, ReadAgain(c) PROVE TableInv'
  <2>1. /\ pc = "read" /\ pc' \in {"write", "batch"}
        /\ IF pc' = "write" THEN event' = event ELSE event' = NoEvent
        /\ UNCHANGED <<batch, running_, connections_, queue_, closed_, worker, wakeup, backlog, stop,
                       request, conn, pending_writes_, openFiles, interest, ready, peer, lost>>
    BY <1>1 DEF ReadAgain, Reading, Goto, poolVars
  <2>2. /\ ~StartingUp /\ ~StartingUp' /\ pc' \in Labels /\ pc \in Handling \ {"disarm"}
        /\ pc' \notin {"top", "submit", "post", "arm", "disarm"}
        /\ (pc' \in Handling <=> pc' = "write")
    BY <2>1 DEF StartingUp, Constructing, Handling, Labels
  <2>3. ClientsTyped' /\ PoolTyped' /\ LoopTyped' /\ Batch' /\ Lives' /\ Known'
    BY <1>0, <2>1, <2>2, SameClients, SamePool, LoopMoves, SameBatch, SameLives, SameKnown
  <2>4. Table' /\ EpollTyped'
    BY <2>1, <2>2, StillTable
  <2>5. Control'
    BY <2>1, <2>2 DEF Control
  <2> QED
    BY <2>3, <2>4, <2>5
<1>2. ASSUME NEW c \in Clients, ReadEnds(c) PROVE TableInv'
  <2>1. /\ pc = "read" /\ c = connections_[event.fd] /\ ConnBecomes(c, OnClosed(conn[c]), {})
        /\ pc' = "batch" /\ event' = NoEvent
        /\ UNCHANGED <<batch, running_, connections_, queue_, closed_, worker, wakeup, backlog, stop,
                       request, pending_writes_, peer, lost>>
    BY <1>2 DEF ReadEnds, Reading, Goto, poolVars
  <2>2. /\ ~StartingUp /\ ~StartingUp' /\ pc' \in Labels /\ pc \in Handling \ {"disarm"}
        /\ pc' \notin {"top", "submit", "post", "arm"} \cup Handling
    BY <2>1 DEF StartingUp, Constructing, Handling, Labels
  <2>3. event.fd \in DOMAIN connections_ /\ conn[c].state # "None"
    BY <2>1, <2>2 DEF Control, Lives
  <2>4. /\ Table'
        /\ conn' = [d \in Clients |-> conn'[d]] /\ (\A d \in Clients : Connected(conn'[d]))
        /\ conn'[c].fd = NoFd /\ conn'[c].state = "Closed" /\ conn'[c].write_buf = conn[c].write_buf
        /\ \A d \in Clients \ {c} : conn'[d] = conn[d]
        /\ interest' \in [Fds -> {"none", "in", "inout"}] /\ ready' \subseteq ready
        /\ openFiles' \subseteq openFiles
    BY <2>1, <2>3, ClosesTable
  <2>5. ClientsTyped'
    BY <1>0, <2>1, <2>4 DEF ClientsTyped
  <2>6. \A d \in Clients : conn[d].state # "None" => conn'[d].state # "None"
    BY <2>4
  <2>7. PoolTyped' /\ LoopTyped' /\ Batch' /\ Known'
    BY <1>0, <2>1, <2>2, <2>4, <2>6, SamePool, LoopMoves, SameBatch, SameKnown
  <2>8. EpollTyped'
    BY <2>1, <2>4 DEF EpollTyped
  <2>9. Control'
    BY <2>1, <2>2 DEF Control
  <2>10. Lives'
    <3>1. \A x \in batch : x.fd \in ClientFds => connections_[x.fd] \in Clients \ {c}
      BY <2>1, <2>3 DEF Batch, LoopTyped, Table
    <3>2. \A x \in batch : x.fd \in ClientFds => Sealed(connections_[x.fd])'
      BY <2>1, <2>4, <3>1 DEF Lives, Sealed
    <3>3. \A d \in backlog : peer[d].connected /\ conn'[d].state = "None"
      BY <1>0, <2>3, <2>4 DEF Lives
    <3>4. \A d \in Clients : ~peer[d].connected => conn'[d].state = "None"
      BY <2>3, <2>4 DEF Lives
    <3>5. \A fd \in DOMAIN connections_ : conn'[connections_[fd]].state # "None"
      BY <2>4 DEF Lives, LoopTyped
    <3>6. \A d \in Clients : conn'[d].state \in {"None", "Closed", "Destroyed"} => conn'[d].fd = NoFd
      BY <2>4 DEF Lives
    <3> QED
      BY <2>1, <2>2, <3>2, <3>3, <3>4, <3>5, <3>6 DEF Lives
  <2> QED
    BY <2>4, <2>5, <2>7, <2>8, <2>9, <2>10
<1>3. CASE Submit \/ PostError
  <2>1. /\ pc \in {"submit", "post"} /\ pc' = "read" /\ request' = NoRequest
        /\ UNCHANGED <<batch, event, connections_, conn, closed_, worker, openFiles, interest, peer,
                       running_, backlog, stop, lost>>
        /\ ready' \subseteq ready \cup {WakeupFd} /\ wakeup' \in {wakeup, TRUE}
    BY <1>3 DEF Submit, PostError, NextRecv, Goto, poolVars, epollVars, LoopKeeps, WakeLoop
  <2>2. /\ ~StartingUp /\ ~StartingUp' /\ pc' \in Labels \cap Handling /\ pc \in Handling \ {"disarm"}
        /\ pc' \notin {"top", "submit", "post", "arm", "disarm"}
    BY <2>1 DEF StartingUp, Constructing, Handling, Labels
  <2>3. request \in Requests /\ Opened(request)
    BY <2>1, RequestIsSome DEF LoopTyped, Known
  <2>4. ClientsTyped' /\ LoopTyped' /\ Batch' /\ Lives'
    BY <1>0, <2>1, <2>2, SameClients, LoopMoves, SameBatch, SameLives
  <2>5. Table'
    BY <2>1, <2>2, StillTable
  <2>6. EpollTyped'
    BY <2>1, FdsApart DEF EpollTyped
  <2>7. Control'
    BY <2>1, <2>2 DEF Control
  <2>8. PoolTyped' /\ Known'
    <3>1. /\ queue_ \in Seq(Requests) /\ \A k \in DOMAIN queue_ : Opened(queue_[k])
          /\ pending_writes_ \in Seq(Requests) /\ \A k \in DOMAIN pending_writes_ : Opened(pending_writes_[k])
          /\ Len(queue_) \in Nat /\ Len(pending_writes_) \in Nat
          /\ TaskCapacity \in Nat /\ PendingCapacity \in Nat
      BY EventLoopAssumption DEF PoolTyped, Known
    <3>2. CASE Submit
      <4>1. queue_' = Append(queue_, request) /\ Len(queue_) < TaskCapacity /\ UNCHANGED pending_writes_
        BY <3>2 DEF Submit
      <4>2. /\ queue_' \in Seq(Requests) /\ Len(queue_') <= TaskCapacity
            /\ \A k \in DOMAIN queue_' : Opened(queue_'[k])
        BY <2>3, <3>1, <4>1, AppendSeq
      <4> QED
        BY <2>1, <4>1, <4>2 DEF PoolTyped, Known, Opened
    <3>3. CASE PostError
      <4>1. pending_writes_' = Append(pending_writes_, request)
            /\ Len(pending_writes_) < PendingCapacity /\ UNCHANGED queue_
        BY <3>3 DEF PostError, poolVars
      <4>2. /\ pending_writes_' \in Seq(Requests) /\ Len(pending_writes_') <= PendingCapacity
            /\ \A k \in DOMAIN pending_writes_' : Opened(pending_writes_'[k])
        BY <2>3, <3>1, <4>1, AppendSeq
      <4> QED
        BY <2>1, <4>1, <4>2 DEF PoolTyped, Known, Opened
    <3> QED
      BY <1>3, <3>2, <3>3
  <2> QED
    BY <2>4, <2>5, <2>6, <2>7, <2>8
<1> QED
  BY <1>1, <1>2, <1>3

(* flush_write(), with the close callback *)
LEMMA FlushTable ==
    ASSUME TableInv, NEW c \in Clients, NEW cn, NEW left, NEW done,
           Connected(cn), cn.fd = conn[c].fd, conn[c].state # "None",
           cn.state \notin {"None", "Destroyed"} \/ conn[c].fd = NoFd,
           conn[c].fd = NoFd => HasUnsent(cn), cn.state = "Closed" => cn.fd = NoFd,
           Flush(c, cn, left, done), UNCHANGED connections_, left # "top", done # "top"
    PROVE  /\ Table'
           /\ conn' = [d \in Clients |-> conn'[d]] /\ (\A d \in Clients : Connected(conn'[d]))
           /\ \A d \in Clients \ {c} : conn'[d] = conn[d] /\ peer'[d] = peer[d]
           /\ conn'[c].state # "None"
           /\ conn'[c].state \in {"Closed", "Destroyed"} => conn'[c].fd = NoFd
           /\ peer' = [d \in Clients |-> peer'[d]] /\ (\A d \in Clients : peer'[d] \in Peer(d))
           /\ \A d \in Clients : /\ peer'[d].connected = peer[d].connected
                                 /\ peer'[d].inbox = peer[d].inbox
                                 /\ peer'[d].fin = peer[d].fin /\ peer'[d].rst = peer[d].rst
           /\ interest' \in [Fds -> {"none", "in", "inout"}] /\ ready' \subseteq ready
           /\ openFiles' \subseteq openFiles
           /\ IF conn'[c].fd = NoFd THEN pc' = done
              ELSE /\ conn'[c].fd = conn[c].fd /\ UNCHANGED <<interest, ready>>
                   /\ pc' \in {left, done}
                   /\ HasUnsent(conn'[c]) => HasUnsent(cn) /\ peer'[c].room = 0 /\ pc' = left
<1> USE DEF TableInv
<1> DEFINE f == FlushWrite(cn, Room(c), Broken(c))
           dropped == FileOf(c, cn) \ FileOf(c, f.conn)
           got == peer[c].got \o f.sent
           room == peer[c].room - Len(f.sent)
           p == [peer[c] EXCEPT !.got = got, !.room = room]
<1>1. /\ ConnBecomes(c, f.conn, dropped)
      /\ peer' = [peer EXCEPT ![c] = p]
      /\ pc' = IF f.remaining > 0 THEN left ELSE done
  BY DEF Flush, Goto
<1>2. peer[c] \in Peer(c) /\ Room(c) = peer[c].room /\ Room(c) \in 0 .. SockRoom /\ Room(c) \in Nat
      /\ SockRoom \in Nat /\ peer[c].got \in Seq(Units)
  BY EventLoopAssumption DEF ClientsTyped, Peer, Room
<1> DEFINE fails == Broken(c) /\ HasUnsent(cn)
<1>3. CASE fails
  <2>1. f.conn = OnClosed(cn) /\ f.sent = <<>> /\ f.remaining = 0
    BY <1>3, FlushFails
  <2>2. Connected(f.conn) /\ f.conn.fd = NoFd /\ f.conn.state = "Closed"
    BY <2>1, OnClosedTyped
  <2> HIDE DEF f, dropped
  <2>3. pc' = done
    BY <1>1, <2>1
  <2>4. /\ Table'
        /\ conn' = [d \in Clients |-> conn'[d]] /\ (\A d \in Clients : Connected(conn'[d]))
        /\ conn'[c] = f.conn /\ \A d \in Clients \ {c} : conn'[d] = conn[d]
        /\ interest' \in [Fds -> {"none", "in", "inout"}] /\ ready' \subseteq ready
        /\ openFiles' \subseteq openFiles
    BY <1>1, <2>2, <2>3, ShutTable
  <2>5. p = peer[c]
    <3>1. got = peer[c].got /\ room = peer[c].room
      BY <1>2, <2>1
    <3> DEFINE q == [peer[c] EXCEPT !.got = got]
    <3>2. p = [q EXCEPT !.room = room]
      OBVIOUS
    <3> HIDE DEF got, room
    <3>3. q = peer[c]
      BY <1>2, <3>1, PeerFields
    <3> HIDE DEF q, p
    <3> QED
      BY <1>2, <3>1, <3>2, <3>3, PeerFields
  <2>6. peer' = peer
    BY <1>1, <2>5 DEF ClientsTyped
  <2> QED
    BY <2>2, <2>3, <2>4, <2>6 DEF ClientsTyped
<1>4. CASE ~fails
  <2>1. /\ Connected(f.conn) /\ f.sent \in Seq(Units) /\ Len(f.sent) <= Room(c)
        /\ f.remaining \in Nat
        /\ f.conn.fd = cn.fd
        /\ f.conn.state \in {cn.state, "Reading", "Closing"}
        /\ HasUnsent(f.conn) => HasUnsent(cn) /\ Len(f.sent) = Room(c)
        /\ f.remaining = 0 => ~HasUnsent(f.conn)
    BY <1>2, <1>4, FlushSends
  <2>2. conn[c].fd # NoFd
    BY <1>4 DEF Broken
  <2> HIDE DEF f, dropped
  <2>3. pc' \in {left, done} /\ (HasUnsent(f.conn) => pc' = left)
    BY <1>1, <2>1
  <2>4. /\ Table'
        /\ conn' = [d \in Clients |-> conn'[d]] /\ (\A d \in Clients : Connected(conn'[d]))
        /\ conn'[c] = f.conn /\ \A d \in Clients \ {c} : conn'[d] = conn[d]
        /\ UNCHANGED <<interest, ready>> /\ openFiles' \subseteq openFiles
    BY <1>1, <2>1, <2>2, <2>3, StaysTable
  <2>5. got \in Seq(Units) /\ room \in 0 .. SockRoom /\ (Len(f.sent) = Room(c) => room = 0)
    <3>1. got \in Seq(Units)
      BY <1>2, <2>1
    <3> DEFINE n == Len(f.sent)
    <3>2. n \in Nat /\ n <= Room(c) /\ room = peer[c].room - n
      BY <2>1
    <3> HIDE DEF n, room
    <3>3. room \in 0 .. SockRoom /\ (n = Room(c) => room = 0)
      BY <1>2, <3>2
    <3> QED
      BY <3>1, <3>3 DEF n
  <2>6. /\ p \in Peer(c) /\ p.connected = peer[c].connected /\ p.room = room /\ p.inbox = peer[c].inbox
        /\ p.fin = peer[c].fin /\ p.rst = peer[c].rst
    <3> DEFINE q == [peer[c] EXCEPT !.got = got]
    <3> HIDE DEF got, room
    <3>1. p = [q EXCEPT !.room = room]
      OBVIOUS
    <3>2. q = [connected |-> peer[c].connected, asked |-> peer[c].asked, inbox |-> peer[c].inbox,
               room |-> peer[c].room, got |-> got, fin |-> peer[c].fin, rst |-> peer[c].rst]
      BY <1>2, PeerFields
    <3> HIDE DEF q, p
    <3>3. p = [connected |-> peer[c].connected, asked |-> peer[c].asked, inbox |-> peer[c].inbox,
               room |-> room, got |-> got, fin |-> peer[c].fin, rst |-> peer[c].rst]
      BY <3>1, <3>2
    <3> QED
      BY <1>2, <2>5, <3>3, PeerFields
  <2> HIDE DEF p, room
  <2>7. peer'[c] = p /\ (\A d \in Clients \ {c} : peer'[d] = peer[d]) /\ peer' = [d \in Clients |-> peer'[d]]
    BY <1>1 DEF ClientsTyped
  <2>8. \A d \in Clients : peer'[d] \in Peer(d)
    BY <2>6, <2>7 DEF ClientsTyped
  <2>9. conn'[c].state # "None" /\ conn'[c].state \notin {"Closed", "Destroyed"}
    BY <2>1, <2>2, <2>4
  <2>10. HasUnsent(conn'[c]) => HasUnsent(cn) /\ peer'[c].room = 0 /\ pc' = left
    BY <2>1, <2>3, <2>4, <2>5, <2>6, <2>7
  <2>11. interest' \in [Fds -> {"none", "in", "inout"}]
    BY <2>4 DEF EpollTyped
  <2>12. \A d \in Clients : /\ peer'[d].connected = peer[d].connected
                            /\ peer'[d].inbox = peer[d].inbox
                            /\ peer'[d].fin = peer[d].fin /\ peer'[d].rst = peer[d].rst
    BY <2>6, <2>7
  <2>13. conn'[c].fd = conn[c].fd
    BY <2>1, <2>4
  <2> QED
    BY <2>2, <2>3, <2>4, <2>7, <2>8, <2>9, <2>10, <2>11, <2>12, <2>13
<1> QED
  BY <1>3, <1>4

(* A connection that a send finds broken keeps what it could not send. *)
LEMMA FlushSeals ==
    ASSUME TableInv, NEW c \in Clients, NEW cn, NEW left, NEW done,
           Connected(cn), cn.fd = conn[c].fd, cn.write_buf # <<>>,
           cn.state = "Closed" => cn.fd = NoFd, Flush(c, cn, left, done)
    PROVE  conn'[c].state = "Closed" => conn'[c].write_buf # <<>>
<1> DEFINE f == FlushWrite(cn, Room(c), Broken(c))
           fails == Broken(c) /\ HasUnsent(cn)
<1>1. conn'[c] = f.conn
  BY DEF Flush, ConnBecomes, TableInv, ClientsTyped
<1>2. Room(c) \in Nat
  BY EventLoopAssumption DEF TableInv, ClientsTyped, Peer, Room
<1>3. CASE fails
  <2>1. f.conn = OnClosed(cn)
    BY <1>3, FlushFails
  <2> HIDE DEF f
  <2> QED
    BY <1>1, <2>1, OnClosedTyped
<1>4. CASE ~fails
  <2>1. f.conn.state \in {cn.state, "Reading", "Closing"}
    BY <1>2, <1>4, FlushSends
  <2>2. HasUnsent(cn)
    BY DEF HasUnsent
  <2>3. cn.state # "Closed"
    BY <1>4, <2>2 DEF Broken
  <2> HIDE DEF f
  <2> QED
    BY <1>1, <2>1, <2>3
<1> QED
  BY <1>3, <1>4

(* epoll_ctl(MOD) of a descriptor that is registered *)
LEMMA RegisterTable ==
    ASSUME TableInv, NEW fd \in ClientFds, interest[fd] # "none", NEW mask \in {"in", "inout"},
           interest' = [interest EXCEPT ![fd] = mask], ready' \subseteq ready \cup {fd},
           UNCHANGED <<conn, connections_>>, pc' # "top"
    PROVE  Table'
<1>1. \A x \in ClientFds : (interest'[x] # "none" <=> interest[x] # "none")
  BY FdsApart DEF TableInv, EpollTyped
<1>2. \A d \in Clients : conn[d].fd \in ClientFds \cup {NoFd}
  BY DEF TableInv, ClientsTyped, Connected
<1> QED
  BY <1>1, <1>2 DEF TableInv, Table

(* drain_pending_writes() *)
LEMMA DrainKeepsTable ==
    ASSUME TableInv, DrainEnds \/ Arm \/ \E req \in Requests : DrainDead(req) \/ DrainWrite(req)
    PROVE  TableInv'
<1> USE DEF TableInv
<1>0. /\ backlog \subseteq Clients /\ closed_ \in BOOLEAN /\ running_ \in BOOLEAN
      /\ pending_writes_ \in Seq(Requests) /\ PendingCapacity \in Nat
      /\ \A d \in Clients : conn[d].fd \in ClientFds \cup {NoFd}
  BY EventLoopAssumption DEF ClientsTyped, PoolTyped, LoopTyped, Connected
<1>1. ASSUME NEW req \in Requests, TakePending(req), UNCHANGED <<queue_, closed_, worker, request>>,
             \A d \in Clients : conn[d].state # "None" => conn'[d].state # "None",
             openFiles' \subseteq openFiles
      PROVE  PoolTyped' /\ Known' /\ Opened(req)
  <2>1. /\ pending_writes_ # <<>> /\ req = Head(pending_writes_)
        /\ pending_writes_' = Tail(pending_writes_)
    BY <1>1 DEF TakePending
  <2>2. /\ pending_writes_' \in Seq(Requests) /\ Len(pending_writes_') <= PendingCapacity
        /\ \A k \in DOMAIN pending_writes_' : Opened(pending_writes_'[k])
        /\ Opened(req)
    <3>1. Len(pending_writes_) \in Nat /\ Len(pending_writes_) <= PendingCapacity
      BY <1>0 DEF PoolTyped
    <3>2. \A k \in DOMAIN pending_writes_ : Opened(pending_writes_[k])
      BY DEF Known
    <3> QED
      BY <1>0, <2>1, <3>1, <3>2, TailSeq
  <2>3. PoolTyped'
    BY <1>1, <2>2 DEF PoolTyped
  <2>4. \A r \in Requests : Opened(r) => Opened(r)'
    BY <1>1, ClientOfRequest DEF Opened
  <2>5. /\ \A k \in DOMAIN queue_ : queue_[k] \in Requests
        /\ \A k \in DOMAIN pending_writes_' : pending_writes_'[k] \in Requests
        /\ \A w \in Workers : worker[w].req # NoRequest => worker[w].req \in Requests
        /\ request # NoRequest => request \in Requests
    BY <2>2 DEF PoolTyped, LoopTyped
  <2>6. Known'
    BY <1>1, <2>2, <2>4, <2>5 DEF Known, Opened
  <2> QED
    BY <2>2, <2>3, <2>6
<1>2. CASE DrainEnds
  <2>1. /\ pc = "drain" /\ pc' = "batch"
        /\ UNCHANGED <<batch, event, connections_, queue_, closed_, worker, wakeup, running_, backlog,
                       stop, lost, request, conn, pending_writes_, openFiles, interest, ready, peer>>
    BY <1>2 DEF DrainEnds, Draining, Goto, poolVars, LoopKeeps
  <2>2. /\ ~StartingUp /\ ~StartingUp' /\ pc' \in Labels /\ event = NoEvent
        /\ pc' \notin Handling \cup {"top", "submit", "post", "arm"}
    BY <2>1 DEF StartingUp, Constructing, Handling, Labels, Control
  <2>3. ClientsTyped' /\ PoolTyped' /\ LoopTyped' /\ Batch' /\ Lives' /\ Known'
    BY <1>0, <2>1, <2>2, SameClients, SamePool, LoopMoves, SameBatch, SameLives, SameKnown
  <2>4. Table' /\ EpollTyped'
    BY <2>1, <2>2, StillTable
  <2>5. Control'
    BY <2>1, <2>2 DEF Control, Handling
  <2> QED
    BY <2>3, <2>4, <2>5
<1>3. ASSUME NEW req \in Requests, DrainDead(req) PROVE TableInv'
  <2>1. /\ pc = "drain" /\ TakePending(req) /\ openFiles' \subseteq openFiles
        /\ UNCHANGED <<batch, event, connections_, queue_, closed_, worker, wakeup, running_, backlog,
                       stop, lost, pc, request, conn, interest, ready, peer>>
    BY <1>3 DEF DrainDead, Draining, poolVars, LoopKeeps
  <2>2. /\ ~StartingUp /\ ~StartingUp' /\ pc' \in Labels /\ event = NoEvent
        /\ pc' \notin Handling \cup {"top", "submit", "post", "arm"}
    BY <2>1 DEF StartingUp, Constructing, Handling, Labels, Control
  <2>3. ClientsTyped' /\ LoopTyped' /\ Batch' /\ Lives'
    BY <1>0, <2>1, <2>2, SameClients, LoopMoves, SameBatch, SameLives
  <2>4. PoolTyped' /\ Known'
    BY <2>1, <1>1
  <2>5. Table' /\ EpollTyped'
    BY <2>1, <2>2, StillTable
  <2>6. Control'
    BY <2>1, <2>2 DEF Control, Handling
  <2> QED
    BY <2>3, <2>4, <2>5, <2>6
<1>4. ASSUME NEW req \in Requests, DrainWrite(req) PROVE TableInv'
  <2> DEFINE c == req[1]
  <2>1. /\ pc = "drain" /\ TakePending(req) /\ Flush(c, Prepared(req), "arm", "drain")
        /\ request' = IF pc' = "arm" THEN req ELSE NoRequest
        /\ UNCHANGED <<batch, event, connections_, queue_, closed_, worker, wakeup, running_, backlog,
                       stop, lost>>
    BY <1>4 DEF DrainWrite, Draining, NextPending, poolVars, LoopKeeps
  <2>2. c \in Clients /\ Opened(req) /\ req # NoRequest
    <3>1. pending_writes_ # <<>> /\ req = Head(pending_writes_)
      BY <2>1 DEF TakePending
    <3> QED
      BY <1>0, <3>1, TailSeq, RequestIsSome DEF Known
  <2>3. Connected(conn[c]) /\ conn[c].state # "None"
    BY <2>2 DEF ClientsTyped, Opened
  <2> DEFINE cn == Prepared(req)
  <2>4. /\ Connected(cn) /\ cn.fd = conn[c].fd /\ cn.state = "Writing" /\ HasUnsent(cn)
        /\ cn.write_buf # <<>>
    BY <2>3, PreparedTyped
  <2> HIDE DEF cn, c
  <2>5. /\ Table'
        /\ conn' = [d \in Clients |-> conn'[d]] /\ (\A d \in Clients : Connected(conn'[d]))
        /\ \A d \in Clients \ {c} : conn'[d] = conn[d] /\ peer'[d] = peer[d]
        /\ conn'[c].state # "None"
        /\ conn'[c].state \in {"Closed", "Destroyed"} => conn'[c].fd = NoFd
        /\ peer' = [d \in Clients |-> peer'[d]] /\ (\A d \in Clients : peer'[d] \in Peer(d))
        /\ \A d \in Clients : peer'[d].connected = peer[d].connected
        /\ interest' \in [Fds -> {"none", "in", "inout"}] /\ ready' \subseteq ready
        /\ openFiles' \subseteq openFiles
        /\ pc' \in {"arm", "drain"} /\ (pc' = "arm" => conn'[c].fd # NoFd)
    <3>1. Flush(c, cn, "arm", "drain")
      BY <2>1 DEF cn, c
    <3> QED
      BY <2>1, <2>2, <2>3, <2>4, <3>1, FlushTable
  <2>6. ClientsTyped'
    BY <1>0, <2>1, <2>5 DEF ClientsTyped
  <2>7. /\ ~StartingUp /\ ~StartingUp' /\ pc' \in Labels /\ event = NoEvent
        /\ pc' \notin Handling \cup {"top", "submit", "post"}
    BY <2>1, <2>5 DEF StartingUp, Constructing, Handling, Labels, Control
  <2>8. LoopTyped'
    BY <2>1, <2>5, <2>7 DEF LoopTyped
  <2>9. EpollTyped'
    BY <2>1, <2>5 DEF EpollTyped
  <2>10. \A d \in Clients : conn[d].state # "None" => conn'[d].state # "None"
    BY <2>5
  <2>11. request = NoRequest \/ request \in Requests
    BY DEF LoopTyped
  <2>12. PoolTyped' /\ Known'
    <3>1. /\ pending_writes_ # <<>> /\ req = Head(pending_writes_)
          /\ pending_writes_' = Tail(pending_writes_)
      BY <2>1 DEF TakePending
    <3>2. /\ pending_writes_' \in Seq(Requests) /\ Len(pending_writes_') <= PendingCapacity
          /\ \A k \in DOMAIN pending_writes_' : Opened(pending_writes_'[k])
      <4>1. Len(pending_writes_) \in Nat /\ Len(pending_writes_) <= PendingCapacity
        BY <1>0 DEF PoolTyped
      <4>2. \A k \in DOMAIN pending_writes_ : Opened(pending_writes_[k])
        BY DEF Known
      <4> QED
        BY <1>0, <3>1, <4>1, <4>2, TailSeq
    <3>3. PoolTyped'
      BY <2>1, <2>5, <3>2 DEF PoolTyped
    <3>4. \A r \in Requests : Opened(r) => Opened(r)'
      BY <2>10, ClientOfRequest DEF Opened
    <3>5. /\ \A k \in DOMAIN queue_ : queue_[k] \in Requests
          /\ \A k \in DOMAIN pending_writes_' : pending_writes_'[k] \in Requests
          /\ \A w \in Workers : worker[w].req # NoRequest => worker[w].req \in Requests
      BY <3>2 DEF PoolTyped
    <3>6. request' # NoRequest => Opened(request)'
      BY <2>1, <2>2, <3>4 DEF Opened
    <3>7. Known'
      BY <2>1, <3>2, <3>4, <3>5, <3>6 DEF Known, Opened
    <3> QED
      BY <3>3, <3>7
  <2>13. Control'
    <3>1. pc' = "arm" => conn'[request'[1]].fd # NoFd
      BY <2>1, <2>5 DEF c
    <3> QED
      BY <2>1, <2>5, <2>7, <3>1 DEF Control, Handling
  <2>14. Batch'
    BY <2>1, SameBatch
  <2>15. Lives'
    <3>1. ASSUME NEW x \in batch, x.fd \in ClientFds PROVE Sealed(connections_[x.fd])'
      <4> DEFINE d == connections_[x.fd]
      <4>1. d \in Clients /\ Sealed(d)
        BY <3>1 DEF Batch, LoopTyped, Lives
      <4>2. CASE d = c
        <5>0. Flush(c, cn, "arm", "drain")
          BY <2>1 DEF cn, c
        <5>1. conn'[c].state = "Closed" => conn'[c].write_buf # <<>>
          BY <2>2, <2>4, <5>0, FlushSeals
        <5>2. connections_' = connections_
          BY <2>1
        <5> HIDE DEF d
        <5>3. Sealed(c)'
          BY <5>1 DEF Sealed
        <5> QED
          BY <4>2, <5>2, <5>3 DEF d, Sealed
      <4>3. CASE d # c
        BY <2>1, <2>5, <4>1, <4>3 DEF Sealed
      <4> QED
        BY <4>2, <4>3
    <3>2. \A d \in backlog : peer'[d].connected /\ conn'[d].state = "None"
      BY <1>0, <2>3, <2>5 DEF Lives
    <3>3. \A d \in Clients : ~peer'[d].connected => conn'[d].state = "None"
      BY <2>3, <2>5 DEF Lives
    <3>4. \A fd \in DOMAIN connections_ : conn'[connections_[fd]].state # "None"
      BY <2>10 DEF Lives, LoopTyped
    <3>5. \A d \in Clients : conn'[d].state \in {"None", "Closed", "Destroyed"} => conn'[d].fd = NoFd
      BY <2>5 DEF Lives
    <3> QED
      BY <2>1, <2>7, <3>1, <3>2, <3>3, <3>4, <3>5 DEF Lives
  <2> QED
    BY <2>5, <2>6, <2>8, <2>9, <2>12, <2>13, <2>14, <2>15
<1>5. CASE Arm
  <2> DEFINE c == request[1]
             fd == conn[c].fd
  <2>1. /\ pc = "arm" /\ pc' = "drain" /\ request' = NoRequest
        /\ interest' = [interest EXCEPT ![fd] = "inout"] /\ ready' \subseteq ready \cup {fd}
        /\ UNCHANGED <<batch, event, connections_, conn, queue_, closed_, worker, pending_writes_,
                       openFiles, wakeup, peer, running_, backlog, stop, lost>>
    BY <1>5 DEF Arm, Register, Goto, poolVars, LoopKeeps
  <2>2. c \in Clients /\ fd \in ClientFds /\ fd \in Fds /\ interest[fd] # "none"
    <3>1. c \in Clients /\ fd # NoFd
      BY <2>1, ClientOfRequest DEF LoopTyped, Control
    <3> QED
      BY <1>0, <3>1, FdsApart DEF Table
  <2> HIDE DEF fd, c
  <2>3. /\ ~StartingUp /\ ~StartingUp' /\ pc' \in Labels /\ event = NoEvent
        /\ pc' \notin Handling \cup {"top", "submit", "post", "arm"}
    BY <2>1 DEF StartingUp, Constructing, Handling, Labels, Control
  <2>4. ClientsTyped' /\ PoolTyped' /\ LoopTyped' /\ Batch' /\ Lives' /\ Known'
    BY <1>0, <2>1, <2>3, SameClients, SamePool, LoopMoves, SameBatch, SameLives, SameKnown
  <2>5. EpollTyped'
    BY <2>1, <2>2 DEF EpollTyped
  <2>6. Control'
    BY <2>1, <2>3 DEF Control, Handling
  <2>7. Table'
    BY <2>1, <2>2, <2>3, RegisterTable
  <2> QED
    BY <2>4, <2>5, <2>6, <2>7
<1> QED
  BY <1>2, <1>3, <1>4, <1>5

(* The EPOLLOUT half of handle_event() *)
LEMMA WriteKeepsTable ==
    ASSUME TableInv, (\E c \in Clients : Write(c)) \/ Disarm
    PROVE  TableInv'
<1> USE DEF TableInv
<1>0. /\ backlog \subseteq Clients /\ closed_ \in BOOLEAN /\ running_ \in BOOLEAN
      /\ \A d \in Clients : conn[d].fd \in ClientFds \cup {NoFd}
  BY DEF ClientsTyped, PoolTyped, LoopTyped, Connected
<1>1. ASSUME NEW c \in Clients, Write(c) PROVE TableInv'
  <2>1. /\ pc = "write" /\ c = connections_[event.fd] /\ Flush(c, conn[c], "batch", "disarm")
        /\ event' = IF pc' = "disarm" THEN event ELSE NoEvent
        /\ UNCHANGED <<batch, request, connections_, queue_, closed_, worker, pending_writes_, wakeup,
                       running_, backlog, stop, lost>>
    BY <1>1 DEF Write, IfUnsent, poolVars, LoopKeeps
  <2>2. pc \in Handling \ {"disarm"} /\ ~StartingUp
    BY <2>1 DEF Handling, StartingUp, Constructing
  <2>3. /\ event.fd \in DOMAIN connections_ /\ Sealed(c) /\ conn[c].state # "None"
        /\ conn[c].fd = event.fd \/ conn[c].state = "Closed"
    BY <2>1, <2>2 DEF Control, Lives, Table
  <2>4. Connected(conn[c]) /\ event.fd \in ClientFds /\ event.fd # NoFd
    BY <2>3, FdsApart DEF ClientsTyped, LoopTyped
  <2>5. /\ conn[c].fd = NoFd => HasUnsent(conn[c])
        /\ conn[c].state = "Closed" => conn[c].fd = NoFd
        /\ conn[c].state \notin {"None", "Destroyed"} \/ conn[c].fd = NoFd
    BY <2>3, <2>4 DEF Lives, Sealed, HasUnsent
  <2>6. /\ Table'
        /\ conn' = [d \in Clients |-> conn'[d]] /\ (\A d \in Clients : Connected(conn'[d]))
        /\ \A d \in Clients \ {c} : conn'[d] = conn[d] /\ peer'[d] = peer[d]
        /\ conn'[c].state # "None"
        /\ conn'[c].state \in {"Closed", "Destroyed"} => conn'[c].fd = NoFd
        /\ peer' = [d \in Clients |-> peer'[d]] /\ (\A d \in Clients : peer'[d] \in Peer(d))
        /\ \A d \in Clients : peer'[d].connected = peer[d].connected
        /\ interest' \in [Fds -> {"none", "in", "inout"}] /\ ready' \subseteq ready
        /\ openFiles' \subseteq openFiles
        /\ pc' \in {"batch", "disarm"}
        /\ pc' = "disarm" => conn'[c].fd = NoFd \/ ~HasUnsent(conn'[c])
        /\ conn'[c].fd \in {conn[c].fd, NoFd}
    BY <2>1, <2>3, <2>4, <2>5, FlushTable
  <2>7. ClientsTyped'
    BY <1>0, <2>1, <2>6 DEF ClientsTyped
  <2>8. /\ pc' \in Labels /\ pc' \notin {"top", "submit", "post", "arm"} /\ ~StartingUp'
        /\ (pc' \in Handling <=> pc' = "disarm")
    BY <2>6 DEF Handling, Labels, StartingUp, Constructing
  <2>9. LoopTyped' /\ Batch'
    BY <1>0, <2>1, <2>8, LoopMoves, SameBatch
  <2>10. PoolTyped'
    BY <1>0, <2>1, <2>6, SamePool
  <2>11. EpollTyped'
    BY <2>1, <2>6 DEF EpollTyped
  <2>12. \A d \in Clients : conn[d].state # "None" => conn'[d].state # "None"
    BY <2>6
  <2>13. Known'
    BY <2>1, <2>12, SameKnown
  <2>14. Control'
    <3>1. ASSUME pc' = "disarm", NEW d \in Clients, conn'[d].fd = event.fd PROVE ~HasUnsent(conn'[d])
      <4>1. d = c
        <5>1. CASE d # c
          <6>1. conn[d].fd = event.fd
            BY <3>1, <5>1, <2>6
          <6>2. connections_[event.fd] = d
            BY <6>1, <2>4 DEF Table
          <6> QED
            BY <6>2, <2>1
        <5> QED
          BY <5>1
      <4> QED
        BY <3>1, <4>1, <2>4, <2>6
    <3>2. pc' = "disarm" => event' = event
      BY <2>1
    <3>3. pc' # "disarm" => event' = NoEvent
      BY <2>1
    <3> QED
      BY <2>1, <2>3, <2>6, <2>8, <3>1, <3>2, <3>3 DEF Control
  <2>15. Lives'
    <3>1. ASSUME NEW x \in batch, x.fd \in ClientFds PROVE Sealed(connections_[x.fd])'
      <4>1. connections_[x.fd] \in Clients \ {c} /\ Sealed(connections_[x.fd])
        BY <3>1, <2>1, <2>3 DEF Batch, LoopTyped, Lives, Table
      <4> QED
        BY <2>1, <2>6, <4>1 DEF Sealed
    <3>2. \A d \in backlog : peer'[d].connected /\ conn'[d].state = "None"
      BY <1>0, <2>3, <2>6 DEF Lives
    <3>3. \A d \in Clients : ~peer'[d].connected => conn'[d].state = "None"
      BY <2>3, <2>6 DEF Lives
    <3>4. \A fd \in DOMAIN connections_ : conn'[connections_[fd]].state # "None"
      BY <2>12 DEF Lives, LoopTyped
    <3>5. \A d \in Clients : conn'[d].state \in {"None", "Closed", "Destroyed"} => conn'[d].fd = NoFd
      BY <2>6 DEF Lives
    <3> QED
      BY <2>1, <2>8, <3>1, <3>2, <3>3, <3>4, <3>5 DEF Lives, Handling
  <2> QED
    BY <2>6, <2>7, <2>9, <2>10, <2>11, <2>13, <2>14, <2>15
<1>2. CASE Disarm
  <2>1. /\ pc = "disarm" /\ event' = NoEvent
        /\ UNCHANGED <<request, connections_, conn, queue_, worker, pending_writes_, openFiles, wakeup,
                       peer, running_, backlog, stop, lost>>
        /\ batch' \subseteq batch /\ closed_' \in {closed_, TRUE}
        /\ \/ /\ pc' = "batch" /\ interest[event.fd] # "none"
              /\ interest' = [interest EXCEPT ![event.fd] = "in"]
              /\ ready' \subseteq ready \cup {event.fd}
           \/ /\ pc' = "unwind" /\ batch' = {} /\ UNCHANGED <<interest, ready>>
    BY <1>2 DEF Disarm, Register, Throw, ClosePool, Goto, LoopKeeps
  <2>2. event.fd \in ClientFds /\ event.fd \in Fds
    BY <2>1, FdsApart DEF Control, Handling, LoopTyped
  <2>3. /\ ~StartingUp /\ ~StartingUp' /\ pc' \in Labels
        /\ pc' \notin Handling \cup {"top", "submit", "post", "arm"}
    BY <2>1 DEF StartingUp, Constructing, Handling, Labels, Control
  <2>4. ClientsTyped' /\ PoolTyped' /\ LoopTyped' /\ Batch' /\ Lives' /\ Known'
    BY <1>0, <2>1, <2>3, SameClients, SamePool, LoopMoves, SameBatch, SameLives, SameKnown
  <2>5. EpollTyped'
    BY <2>1, <2>2 DEF EpollTyped
  <2>6. Control'
    BY <2>1, <2>3 DEF Control, Handling
  <2>7. Table'
    <3>1. CASE pc' = "unwind"
      BY <2>1, <2>3, <3>1, StillTable
    <3>2. CASE pc' = "batch"
      BY <2>1, <2>2, <2>3, <3>2, RegisterTable
    <3> QED
      BY <2>1, <3>1, <3>2
  <2> QED
    BY <2>4, <2>5, <2>6, <2>7
<1> QED
  BY <1>1, <1>2

LEMMA LeaveKeepsTable ==
    ASSUME TableInv, Leave
    PROVE  TableInv'
<1> USE DEF TableInv
<1>1. /\ pc = "top" /\ pc' = "join" /\ closed_' = TRUE
      /\ UNCHANGED <<batch, event, request, connections_, conn, queue_, worker, pending_writes_,
                     openFiles, interest, ready, wakeup, peer, running_, backlog, stop, lost>>
  BY DEF Leave, ClosePool, Goto, epollVars, LoopKeeps
<1>2. /\ backlog \subseteq Clients /\ closed_ \in BOOLEAN /\ running_ \in BOOLEAN
  BY DEF ClientsTyped, PoolTyped, LoopTyped
<1>3. /\ ~StartingUp /\ ~StartingUp' /\ pc' \in Labels /\ pc \notin Handling
      /\ pc' \notin Handling \cup {"top", "submit", "post", "arm"}
  BY <1>1 DEF StartingUp, Constructing, Handling, Labels
<1>4. ClientsTyped' /\ PoolTyped' /\ LoopTyped' /\ Batch' /\ Lives' /\ Known'
  BY <1>1, <1>2, <1>3, SameClients, SamePool, LoopMoves, SameBatch, SameLives, SameKnown
<1>5. Table' /\ EpollTyped'
  BY <1>1, <1>3, StillTable
<1>6. Control'
  BY <1>1, <1>3 DEF Control
<1> QED
  BY <1>4, <1>5, <1>6

LEMMA UnsentTyped ==
    ASSUME PoolTyped
    PROVE  Unsent \subseteq Requests
<1>1. ToSet(pending_writes_) \subseteq Requests
  BY DEF PoolTyped, ToSet
<1> QED
  BY <1>1 DEF Unsent

(* The destructors close every socket that is still open. *)
LEMMA JoinedKeepsTable ==
    ASSUME TableInv, Joined
    PROVE  TableInv'
<1> USE DEF TableInv
<1>1. /\ pc \in {"join", "unwind"} /\ pc' \in {"done", "dead"}
      /\ connections_' = <<>> /\ DOMAIN connections_' = {}
      /\ openFiles' \subseteq openFiles
      /\ interest' = [fd \in Fds |-> "none"] /\ ready' = {} /\ backlog' = {}
      /\ pending_writes_' = <<>> /\ lost' = lost \cup Unsent
      /\ UNCHANGED <<batch, event, request, running_, queue_, closed_, worker, wakeup, peer,
                     stop>>
  <2> DEFINE closed == UNION {FileOf(d, conn[d]) : d \in Clients}
  <2>1. openFiles' = openFiles \ closed
    BY DEF Joined
  <2> HIDE DEF closed
  <2>2. connections_' = <<>>
    BY DEF Joined
  <2>3. DOMAIN connections_' = {}
    BY <2>2
  <2>4. openFiles' \subseteq openFiles
    BY <2>1
  <2> QED
    BY <2>2, <2>3, <2>4 DEF Joined, Goto, poolVars
<1>2. ASSUME NEW d \in Clients
      PROVE  /\ Connected(conn'[d]) /\ conn'[d].fd = NoFd
             /\ conn'[d].state = IF conn[d].fd = NoFd THEN conn[d].state ELSE "Destroyed"
  <2>1. Connected(conn[d])
    BY DEF ClientsTyped
  <2>2. CASE conn[d].fd = NoFd
    BY <2>1, <2>2 DEF Joined
  <2>3. CASE conn[d].fd # NoFd
    <3>1. conn'[d] = [NewConnection(NoFd) EXCEPT !.state = "Destroyed"]
      BY <2>3 DEF Joined
    <3>2. conn'[d] = [fd |-> NoFd, state |-> "Destroyed", keep_alive |-> TRUE,
                      write_buf |-> <<>>, sendfile_op |-> NoSendfile]
      BY <3>1 DEF NewConnection
    <3>3. Operation(NoSendfile) /\ "Destroyed" \in States /\ <<>> \in Seq(Units)
      BY DEF Operation, NoSendfile, States
    <3> QED
      BY <2>3, <3>2, <3>3 DEF Connected, Operation
  <2> QED
    BY <2>2, <2>3
<1>3. conn' = [d \in Clients |-> conn'[d]]
  BY DEF Joined
<1>4. ClientsTyped'
  BY <1>1, <1>2, <1>3 DEF ClientsTyped
<1>5. /\ ~StartingUp /\ ~StartingUp' /\ pc' \in Labels /\ pc \notin Handling
      /\ pc' \notin Handling \cup {"top", "submit", "post", "arm"}
      /\ batch = {} /\ event = NoEvent
  BY <1>1 DEF StartingUp, Constructing, Handling, Labels, Control
<1>6. LoopTyped' /\ PoolTyped' /\ EpollTyped'
  <2>1. Unsent \subseteq Requests
    BY UnsentTyped
  <2>2. <<>> \in Seq(Requests) /\ Len(<<>>) = 0
    OBVIOUS
  <2> QED
    BY <1>1, <1>5, <2>1, <2>2, EventLoopAssumption DEF LoopTyped, PoolTyped, EpollTyped
<1>7. Control'
  BY <1>1, <1>5 DEF Control
<1>8. Table'
  BY <1>1, <1>2, <1>5, FdsApart DEF Table
<1>9. Batch'
  BY <1>1, <1>5 DEF Batch
<1>10. Lives'
  <2>1. \A d \in Clients : ~peer'[d].connected => conn'[d].state = "None"
    BY <1>1, <1>2 DEF Lives
  <2> QED
    BY <1>1, <1>2, <1>5, <2>1 DEF Lives
<1>11. Known'
  <2>1. \A d \in Clients : conn[d].state # "None" => conn'[d].state # "None"
    BY <1>2
  <2> QED
    BY <1>1, <2>1, SameKnown
<1> QED
  BY <1>4, <1>6, <1>7, <1>8, <1>9, <1>10, <1>11

LEMMA InitTable ==
    ASSUME Init
    PROVE  TableInv
<1>1. ClientsTyped
  <2> DEFINE fresh == NewConnection(NoFd)
             unborn == [fresh EXCEPT !.state = "None"]
  <2>1. unborn = [fd |-> NoFd, state |-> "None", keep_alive |-> TRUE, write_buf |-> <<>>,
                  sendfile_op |-> NoSendfile]
    <3>1. fresh = [fd |-> NoFd, state |-> "Reading", keep_alive |-> TRUE, write_buf |-> <<>>,
                   sendfile_op |-> NoSendfile]
      BY DEF NewConnection
    <3> HIDE DEF fresh, NoSendfile
    <3>2. /\ ConnShape(fresh) /\ fresh.fd = NoFd /\ fresh.keep_alive = TRUE
          /\ fresh.write_buf = <<>> /\ fresh.sendfile_op = NoSendfile
      BY <3>1 DEF ConnShape
    <3>3. /\ ConnShape(unborn) /\ unborn.fd = NoFd /\ unborn.keep_alive = TRUE
          /\ unborn.write_buf = <<>> /\ unborn.sendfile_op = NoSendfile /\ unborn.state = "None"
      BY <3>2 DEF ConnShape
    <3> HIDE DEF unborn
    <3> QED
      BY <3>3 DEF ConnShape
  <2>2. conn = [c \in Clients |-> unborn]
    BY DEF Init
  <2>3. Operation(NoSendfile) /\ "None" \in States
    BY DEF Operation, NoSendfile, States
  <2> HIDE DEF unborn, NoSendfile
  <2>4. Connected(unborn)
    BY <2>1, <2>3 DEF Connected, Operation
  <2>5. ASSUME NEW c \in Clients PROVE peer[c] \in Peer(c)
    <3>1. peer[c] = [connected |-> FALSE, asked |-> 0, inbox |-> <<>>, room |-> SockRoom,
                     got |-> <<>>, fin |-> FALSE, rst |-> FALSE]
      BY DEF Init
    <3>2. 0 \in 0 .. Len(Script[c]) /\ SockRoom \in 0 .. SockRoom
      <4>1. Len(Script[c]) \in Nat /\ SockRoom \in Nat
        BY EventLoopAssumption
      <4> QED
        BY <4>1
    <3> QED
      BY <3>1, <3>2 DEF Peer
  <2>6. peer = [c \in Clients |-> peer[c]] /\ backlog = {}
    BY DEF Init
  <2> QED
    BY <2>2, <2>4, <2>5, <2>6 DEF ClientsTyped
<1>2. LoopTyped /\ EpollTyped
  <2>1. DOMAIN connections_ = {}
    BY DEF Init
  <2>2. pc \in Labels /\ pc \notin {"submit", "post", "arm"}
    BY DEF Init, Labels
  <2>3. interest \in [Fds -> {"none", "in", "inout"}]
    BY DEF Init
  <2> QED
    BY <2>1, <2>2, <2>3 DEF Init, LoopTyped, EpollTyped
<1>3. PoolTyped
  <2>1. Len(queue_) = 0 /\ Len(pending_writes_) = 0 /\ TaskCapacity \in Nat /\ PendingCapacity \in Nat
    BY EventLoopAssumption DEF Init
  <2>2. queue_ \in Seq(Requests) /\ pending_writes_ \in Seq(Requests)
    BY DEF Init
  <2>3. /\ worker = [w \in Workers |-> worker[w]]
        /\ \A w \in Workers : worker[w] = [pc |-> "unborn", req |-> NoRequest]
    BY DEF Init
  <2>4. Len(queue_) <= TaskCapacity /\ Len(pending_writes_) <= PendingCapacity
    BY <2>1
  <2> QED
    BY <2>2, <2>3, <2>4 DEF Init, PoolTyped
<1>4. Control
  BY DEF Init, Control, Handling
<1>5. \A c \in Clients : conn[c].fd = NoFd /\ conn[c].state = "None"
  BY DEF Init, NewConnection
<1>6. Table /\ Batch /\ Lives /\ Known
  <2>1. DOMAIN connections_ = {} /\ DOMAIN queue_ = {} /\ DOMAIN pending_writes_ = {}
    BY DEF Init
  <2>2. Table
    BY <1>5, <2>1, FdsApart DEF Init, Table
  <2>3. Batch /\ Lives /\ Known
    BY <1>5, <2>1 DEF Init, Batch, Lives, Known, Handling
  <2> QED
    BY <2>2, <2>3
<1> QED
  BY <1>1, <1>2, <1>3, <1>4, <1>6 DEF TableInv

LEMMA LoopKeepsTable ==
    ASSUME TableInv, LoopStep
    PROVE  TableInv'
<1>1. CASE StartUp \/ Poll \/ Reap
  BY <1>1, StartUpKeepsTable, PollKeepsTable, ReapKeepsTable
<1>2. ASSUME NEW e \in batch, HandleListen(e) \/ HandleWakeup(e) \/ HandleClosed(e) \/ HandleIo(e)
      PROVE  TableInv'
  BY <1>2, HandleKeepsTable
<1>3. CASE AcceptNothing \/ AcceptOne \/ AcceptThrows
  BY <1>3, AcceptKeepsTable
<1>4. CASE (\E c \in Clients : ReadEnds(c) \/ ReadAgain(c)) \/ Submit \/ PostError
  BY <1>4, ReadKeepsTable
<1>5. ASSUME NEW c \in Clients, ReadRequest(c) PROVE TableInv'
  BY <1>5, ReadRequestKeepsTable
<1>6. CASE DrainEnds \/ Arm \/ \E req \in Requests : DrainDead(req) \/ DrainWrite(req)
  BY <1>6, DrainKeepsTable
<1>7. CASE (\E c \in Clients : Write(c)) \/ Disarm
  BY <1>7, WriteKeepsTable
<1>8. CASE Leave \/ Joined
  BY <1>8, LeaveKeepsTable, JoinedKeepsTable
<1> QED
  BY <1>1, <1>2, <1>3, <1>4, <1>5, <1>6, <1>7, <1>8 DEF LoopStep

LEMMA NextKeepsTable ==
    ASSUME TableInv, [Next]_vars
    PROVE  TableInv'
<1>1. CASE LoopStep
  BY <1>1, LoopKeepsTable
<1>2. CASE \E w \in Workers : WorkerStep(w)
  BY <1>2, WorkerKeepsTable
<1>3. CASE Environment
  BY <1>3, EnvironmentKeepsTable
<1>4. CASE UNCHANGED vars
  <2>1. UNCHANGED <<pc, batch, event, request, running_, connections_, conn, queue_, closed_, worker,
                    pending_writes_, openFiles, interest, ready, wakeup, backlog, peer, stop, lost>>
    BY <1>4 DEF vars, loopVars, poolVars, epollVars
  <2>2. ClientsTyped' /\ LoopTyped' /\ PoolTyped' /\ EpollTyped' /\ Batch' /\ Known'
    BY <2>1, SameClients, SamePool, SameBatch, SameKnown
       DEF TableInv, LoopTyped, PoolTyped, EpollTyped
  <2>3. Table' /\ Lives'
    BY <2>1 DEF TableInv, Table, Lives, Sealed
  <2>4. Control'
    BY <2>1 DEF TableInv, Control, StartingUp, Constructing
  <2> QED
    BY <2>2, <2>3, <2>4 DEF TableInv
<1> QED
  BY <1>1, <1>2, <1>3, <1>4 DEF Next, Terminated

LEMMA TableInvariant == Spec => []TableInv
<1>1. Init => TableInv
  BY InitTable
<1>2. TableInv /\ [Next]_vars => TableInv'
  BY NextKeepsTable
<1> QED
  BY <1>1, <1>2, PTL DEF Spec

-----------------------------------------------------------------------------
(* The beginning and the end: nothing is there before the workers run, and   *)
(* nothing moves any more once the loop is gone, however it ended.           *)
Early == pc \in {"socket", "epoll", "pool"}

EndInv ==
    /\ Early => openFiles = {} /\ \A w \in Workers : worker[w].pc = "unborn"
    /\ Ended => \A w \in Workers : worker[w].pc \in {"unborn", "exited"}
    /\ Early \/ Ended => /\ backlog = {} /\ pending_writes_ = <<>>
                         /\ \A c \in Clients : conn[c].fd = NoFd

LEMMA NotLinked ==
    ASSUME EndInv, Early \/ Ended, NEW c \in Clients
    PROVE  ~Linked(c)
BY DEF EndInv, Linked

\* Who stands where before and after a step of the loop
LEMMA LoopPhases ==
    ASSUME LoopStep
    PROVE  /\ ~Ended
           /\ Early' => MakeTcp \/ CreateEpoll
           /\ Ended' => Joined \/ (StartFails /\ Early)
           /\ Early => MakeTcp \/ CreateEpoll \/ StartPool \/ StartFails
<1> USE DEF Early, Ended, Goto
<1>1. CASE StartUp
  BY <1>1 DEF StartUp, MakeTcp, CreateEpoll, StartPool, SetOptions, Bind, Listen, AddListen,
              AddWakeup, InstallHandlers, BuildRouter, StartFails, Run, Pass, Enter,
              StartingUp, Constructing
<1>2. CASE Poll \/ Reap \/ Leave \/ Submit \/ PostError
  BY <1>2 DEF Poll, Reap, Leave, Submit, PostError, NextRecv
<1>3. ASSUME NEW e \in batch, HandleListen(e) \/ HandleWakeup(e) \/ HandleClosed(e) \/ HandleIo(e)
      PROVE  pc = "batch" /\ pc' \in {"batch", "accept", "drain", "read", "write"}
  BY <1>3 DEF HandleListen, HandleWakeup, HandleClosed, HandleIo, Handle
<1>4. CASE AcceptNothing \/ AcceptOne \/ AcceptThrows
  BY <1>4 DEF AcceptNothing, AcceptOne, AcceptThrows, Accepting, Throw
<1>5. ASSUME NEW c \in Clients, ReadRequest(c) \/ ReadEnds(c) \/ ReadAgain(c)
      PROVE  pc = "read" /\ pc' \in {"read", "submit", "post", "batch", "write"}
  BY <1>5 DEF ReadRequest, ReadEnds, ReadAgain, Reading
<1>6. ASSUME NEW c \in Clients, Write(c)
      PROVE  pc = "write" /\ pc' \in {"batch", "disarm"}
  BY <1>6 DEF Write, Flush, IfUnsent
<1>7. CASE DrainEnds \/ Arm \/ Disarm
  BY <1>7 DEF DrainEnds, Arm, Disarm, Draining, Throw
<1>8. ASSUME NEW req \in Requests, DrainDead(req) \/ DrainWrite(req)
      PROVE  pc = "drain" /\ pc' \in {"drain", "arm"}
  BY <1>8 DEF DrainDead, DrainWrite, Draining, Flush, NextPending
<1>9. CASE Joined
  BY <1>9 DEF Joined
<1> QED
  BY <1>1, <1>2, <1>3, <1>4, <1>5, <1>6, <1>7, <1>8, <1>9 DEF LoopStep

(* A loop that has ended leaves nothing to do, for anybody.                  *)
LEMMA NothingAfterTheEnd ==
    ASSUME EndInv, Ended, [Next]_vars
    PROVE  UNCHANGED vars
<1>1. ~LoopStep
  BY LoopPhases
<1>2. ASSUME NEW w \in Workers PROVE ~WorkerStep(w)
  BY DEF EndInv, WorkerStep, WorkerTake, WorkerExit, HandlerThrows, HandlerReturns, WorkerPost,
         WorkerNotify
<1>3. ~Environment
  BY NotLinked DEF Environment, Connect, SendRequest, ReadResponse, Fin, Rst, Signal
<1> QED
  BY <1>1, <1>2, <1>3 DEF Next, Terminated

LEMMA EndInvKept ==
    ASSUME EndInv, [Next]_vars
    PROVE  EndInv'
<1>1. CASE Ended
  BY <1>1, NothingAfterTheEnd DEF EndInv, Early, Ended, vars, loopVars, poolVars
<1>2. CASE Early /\ ~UNCHANGED vars
  <2>1. ASSUME NEW w \in Workers PROVE ~WorkerStep(w)
    BY <1>2 DEF EndInv, WorkerStep, WorkerTake, WorkerExit, HandlerThrows, HandlerReturns,
                WorkerPost, WorkerNotify
  <2>2. ~Environment
    BY <1>2, NotLinked DEF Environment, Connect, SendRequest, ReadResponse, Fin, Rst, Signal,
                           Early, StartingUp, Constructing
  <2>3. MakeTcp \/ CreateEpoll \/ StartPool \/ StartFails
    BY <1>2, <2>1, <2>2, LoopPhases DEF Next, Terminated
  <2>4. CASE StartPool
    BY <2>4 DEF StartPool, Enter, Goto, EndInv, Early, Ended
  <2>5. CASE MakeTcp \/ CreateEpoll \/ StartFails
    <3>1. UNCHANGED <<openFiles, pending_writes_, worker, backlog, conn>>
      BY <2>5 DEF MakeTcp, CreateEpoll, StartFails, Pass, Enter, poolVars
    <3> QED
      BY <1>2, <3>1 DEF EndInv
  <2> QED
    BY <2>3, <2>4, <2>5
<1>3. CASE ~Early /\ ~Ended /\ ~UNCHANGED vars
  <2>1. CASE LoopStep
    <3>1. ~Early'
      BY <1>3, <2>1, LoopPhases DEF MakeTcp, CreateEpoll, Pass, Enter, Early
    <3>2. ASSUME Joined PROVE EndInv'
      <4>1. \A c \in Clients : conn'[c].fd = NoFd
        BY <3>2 DEF Joined, NewConnection
      <4>2. pending_writes_' = <<>> /\ backlog' = {} /\ worker' = worker
        BY <3>2 DEF Joined, poolVars
      <4>3. \A w \in Workers : worker[w].pc = "exited"
        BY <3>2 DEF Joined
      <4> QED
        BY <3>1, <4>1, <4>2, <4>3 DEF EndInv
    <3> QED
      BY <1>3, <2>1, <3>1, <3>2, LoopPhases DEF EndInv
  <2>2. CASE Environment \/ \E w \in Workers : WorkerStep(w)
    <3>1. UNCHANGED pc
      BY <2>2 DEF Environment, Connect, SendRequest, ReadResponse, Fin, Rst, Signal,
                  ServerUntouched, WorkerStep, WorkerTake, WorkerExit, HandlerThrows,
                  HandlerReturns, WorkerPost, WorkerNotify, WorkerMoves, loopVars
    <3> QED
      BY <1>3, <3>1 DEF EndInv, Early, Ended
  <2> QED
    BY <1>3, <2>1, <2>2 DEF Next, Terminated
<1>4. CASE UNCHANGED vars
  BY <1>4 DEF EndInv, Early, Ended, vars, loopVars, poolVars
<1> QED
  BY <1>1, <1>2, <1>3, <1>4

LEMMA EndInvariant == Spec => []EndInv
<1>1. Init => EndInv
  <2> SUFFICES ASSUME Init PROVE EndInv
    OBVIOUS
  <2>1. \A c \in Clients : conn[c].fd = NoFd
    BY DEF Init, NewConnection
  <2>2. \A w \in Workers : worker[w].pc = "unborn"
    BY DEF Init
  <2> QED
    BY <2>1, <2>2 DEF Init, EndInv, Early, Ended
<1>2. EndInv /\ [Next]_vars => EndInv'
  BY EndInvKept
<1> QED
  BY <1>1, <1>2, PTL DEF Spec

(* The types of the whole server: every variable keeps to its values, both   *)
(* queues to their capacities and every send buffer to its size, whatever    *)
(* the clients do; and when the loop is gone, after a stop(), an exception   *)
(* or a start-up that failed, no worker is left running (event_loop.cpp,     *)
(* thread_pool.cpp, task_queue.hpp).                                         *)
THEOREM TypeCorrect == Spec => []TypeOK
<1>1. TableInv /\ EndInv => TypeOK
  <2> SUFFICES ASSUME TableInv, EndInv PROVE TypeOK
    OBVIOUS
  <2> USE DEF TableInv
  <2>1. \A c \in Clients : conn[c].fd \in ClientFds \cup {NoFd} /\ peer[c].room \in 0 .. SockRoom
    BY DEF ClientsTyped, Connected, Peer
  <2>2. StartingUp \/ pc \in {"top", "batch", "accept", "read", "submit", "post", "drain", "arm",
                              "write", "disarm", "join", "unwind", "done", "dead"}
    BY DEF LoopTyped, Labels, StartingUp, Constructing
  <2>3. event.fd \in ClientFds \cup {0} /\ \A e \in batch : e.fd \in Fds
    BY FdsApart DEF LoopTyped, Events, NoFd
  <2>4. \A w \in Workers : worker[w].pc \in {"unborn", "pop", "run", "post", "notify", "exited"}
    BY DEF PoolTyped
  <2> QED
    BY <2>1, <2>2, <2>3, <2>4
       DEF TypeOK, ClientsTyped, LoopTyped, PoolTyped, EpollTyped, EndInv
<1> QED
  BY <1>1, TableInvariant, EndInvariant, PTL

(* The table of connections, the sockets and epoll never disagree, although  *)
(* descriptors are reused, connections die anywhere in a batch and a dead    *)
(* entry stays in the table until the batch ends: an open socket is in the   *)
(* table and registered, nothing else is registered, and an event never      *)
(* finds its descriptor missing (accept_new_connections, on_closed with its  *)
(* callback, remove_connection).                                             *)
THEOREM TableAndEpollAgree == Spec => []TableMatchesEpoll
<1>1. TableInv => TableMatchesEpoll
  BY DEF TableInv, Table, Batch, TableMatchesEpoll
<1> QED
  BY <1>1, TableInvariant, PTL

-----------------------------------------------------------------------------
(* Edges.  What InputIsAnnounced and OutputIsAnnounced say of one client.    *)

InputAnnounced(c) ==
    \/ conn[c].fd \in ready
    \/ \E e \in batch : e.fd = conn[c].fd /\ (e.in \/ e.closed)
    \/ pc \in {"read", "submit", "post"} /\ HandledNow(c)

OutputAnnounced(c) ==
    \/ pc = "arm" /\ request[1] = c
    \/ /\ interest[conn[c].fd] = "inout"
       /\ \/ peer[c].room = 0 \/ conn[c].fd \in ready
          \/ \E e \in batch : e.fd = conn[c].fd /\ (e.out \/ e.closed)
          \/ /\ pc \in {"read", "submit", "post", "write"}
             /\ HandledNow(c) /\ event.out

EdgesFor(c) ==
    conn[c].fd # NoFd => /\ Readable(c) => InputAnnounced(c)
                         /\ HasUnsent(conn[c]) => OutputAnnounced(c)

Edges == Serving => \A c \in Clients : EdgesFor(c)

LEMMA EdgesMean == Edges <=> InputIsAnnounced /\ OutputIsAnnounced
BY DEF Edges, EdgesFor, InputAnnounced, OutputAnnounced, InputIsAnnounced, OutputIsAnnounced

(* Nothing that announces c is lost. *)
LEMMA EdgesStay ==
    ASSUME NEW c \in Clients, EdgesFor(c),
           conn'[c].fd # NoFd =>
               /\ conn'[c].fd = conn[c].fd
               /\ HasUnsent(conn'[c]) => HasUnsent(conn[c])
               /\ Readable(c)' => Readable(c) \/ conn[c].fd \in ready'
               /\ peer'[c].room = peer[c].room
                  \/ (interest[conn[c].fd] = "inout" => conn[c].fd \in ready')
               /\ interest'[conn[c].fd] = interest[conn[c].fd]
               /\ conn[c].fd \in ready => conn[c].fd \in ready'
               /\ \A e \in batch : e.fd = conn[c].fd => e \in batch'
               /\ HandledNow(c) => UNCHANGED <<event, connections_>>
               /\ HandledNow(c) /\ pc \in {"read", "submit", "post"} =>
                      pc' \in {"read", "submit", "post"}
               /\ HandledNow(c) /\ pc = "write" => pc' = "write"
               /\ pc = "arm" => UNCHANGED <<pc, request>>
    PROVE  EdgesFor(c)'
<1> SUFFICES ASSUME conn'[c].fd # NoFd
             PROVE  /\ Readable(c)' => InputAnnounced(c)'
                    /\ HasUnsent(conn'[c]) => OutputAnnounced(c)'
  BY DEF EdgesFor
<1>1. HandledNow(c) => HandledNow(c)'
  BY DEF HandledNow
<1>2. InputAnnounced(c) => InputAnnounced(c)'
  BY <1>1 DEF InputAnnounced
<1>3. Readable(c)' => InputAnnounced(c)'
  BY <1>2 DEF EdgesFor, InputAnnounced
<1>4. HasUnsent(conn'[c]) => OutputAnnounced(c)
  BY DEF EdgesFor
<1>5. pc \in {"read", "submit", "post", "write"} /\ HandledNow(c) =>
          pc' \in {"read", "submit", "post", "write"} /\ HandledNow(c)' /\ event' = event
  BY <1>1
<1>6. OutputAnnounced(c) => OutputAnnounced(c)'
  BY <1>5 DEF OutputAnnounced
<1> QED
  BY <1>3, <1>4, <1>6

(* Most actions leave sockets, the ready list and the batch alone. *)
LEMMA QuietEdges ==
    ASSUME Edges, Serving' => Serving, UNCHANGED <<conn, interest, peer>>, ready \subseteq ready',
           \A e \in batch : e.fd \in ClientFds => e \in batch',
           \A c \in Clients : conn[c].fd \in ClientFds \cup {NoFd},
           event.fd # 0 => UNCHANGED <<event, connections_>>,
           pc \in {"read", "submit", "post"} => pc' \in {"read", "submit", "post"},
           pc \in {"write", "arm"} => UNCHANGED <<pc, request>>
    PROVE  Edges'
<1> SUFFICES ASSUME Serving', NEW c \in Clients PROVE EdgesFor(c)'
  BY DEF Edges
<1>1. EdgesFor(c)
  BY DEF Edges
<1>2. Readable(c)' => Readable(c)
  BY DEF Readable
<1>3. HandledNow(c) => event.fd # 0
  BY DEF HandledNow
<1>4. conn[c].fd # NoFd => \A e \in batch : e.fd = conn[c].fd => e \in batch'
  OBVIOUS
<1> QED
  BY <1>1, <1>2, <1>3, <1>4, EdgesStay

LEMMA OpenIsClientFd ==
    ASSUME TableInv
    PROVE  \A c \in Clients : conn[c].fd \in ClientFds \cup {NoFd}
BY DEF TableInv, ClientsTyped, Connected

LEMMA EnvironmentKeepsEdges ==
    ASSUME TableInv, Edges, Environment
    PROVE  Edges'
<1>1. CASE Signal
  <2>1. UNCHANGED <<pc, batch, event, request, connections_, conn, interest, ready, peer>>
    BY <1>1 DEF Signal, epollVars
  <2> QED
    BY <2>1, QuietEdges, OpenIsClientFd DEF Serving, StartingUp, Constructing
<1>2. ASSUME NEW c \in Clients, Connect(c) \/ SendRequest(c) \/ ReadResponse(c) \/ Fin(c) \/ Rst(c)
      PROVE  Edges'
  <2>1. UNCHANGED <<pc, batch, event, request, connections_, conn, interest>> /\ ready \subseteq ready'
    BY <1>2 DEF Connect, SendRequest, ReadResponse, Fin, Rst, Edge, ServerUntouched, loopVars
  <2>2. \A d \in Clients \ {c} : peer'[d] = peer[d]
    BY <1>2 DEF Connect, SendRequest, ReadResponse, Fin, Rst, TableInv, ClientsTyped
  <2>3. conn[c].fd # NoFd =>
            /\ Readable(c)' => Readable(c) \/ conn[c].fd \in ready'
            /\ peer'[c].room = peer[c].room
               \/ (interest[conn[c].fd] = "inout" => conn[c].fd \in ready')
    <3> SUFFICES ASSUME conn[c].fd # NoFd
                 PROVE  /\ Readable(c)' => Readable(c) \/ conn[c].fd \in ready'
                        /\ peer'[c].room = peer[c].room
                           \/ (interest[conn[c].fd] = "inout" => conn[c].fd \in ready')
      OBVIOUS
    <3>1. interest[conn[c].fd] \in {"in", "inout"}
      <4>1. conn[c].fd \in Fds /\ interest[conn[c].fd] # "none"
        BY OpenIsClientFd, FdsApart DEF TableInv, Table
      <4> QED
        BY <4>1 DEF TableInv, EpollTyped
    <3>2. peer[c] \in Peer(c) /\ peer = [d \in Clients |-> peer[d]]
      BY DEF TableInv, ClientsTyped
    <3>3. CASE Connect(c)
      <4>1. peer'[c] = [peer[c] EXCEPT !.connected = TRUE]
        BY <3>2, <3>3 DEF Connect
      <4>2. /\ peer'[c].room = peer[c].room /\ peer'[c].inbox = peer[c].inbox
            /\ peer'[c].fin = peer[c].fin /\ peer'[c].rst = peer[c].rst
        BY <3>2, <4>1 DEF Peer
      <4> QED
        BY <4>2 DEF Readable
    <3>4. CASE SendRequest(c)
      <4>1. conn[c].fd \in ready'
        BY <3>1, <3>4 DEF SendRequest, Edge
      <4> QED
        BY <4>1
    <3>5. CASE ReadResponse(c)
      <4>1. peer'[c] = [peer[c] EXCEPT !.room = SockRoom]
        BY <3>2, <3>5 DEF ReadResponse
      <4>2. /\ peer'[c].inbox = peer[c].inbox
            /\ peer'[c].fin = peer[c].fin /\ peer'[c].rst = peer[c].rst
        BY <3>2, <4>1 DEF Peer
      <4>3. interest[conn[c].fd] = "inout" => conn[c].fd \in ready'
        BY <3>5 DEF ReadResponse, Edge
      <4> QED
        BY <4>2, <4>3 DEF Readable
    <3>6. CASE Fin(c) \/ Rst(c)
      <4>1. conn[c].fd \in ready'
        BY <3>1, <3>6 DEF Fin, Rst, Edge
      <4> QED
        BY <4>1
    <3> QED
      BY <1>2, <3>3, <3>4, <3>5, <3>6
  <2>4. ASSUME Serving', NEW d \in Clients PROVE EdgesFor(d)'
    <3>1. EdgesFor(d)
      BY <2>1, <2>4 DEF Edges, Serving, StartingUp, Constructing
    <3>2. conn[d].fd # NoFd => /\ Readable(d)' => Readable(d) \/ conn[d].fd \in ready'
                               /\ peer'[d].room = peer[d].room
                                  \/ (interest[conn[d].fd] = "inout" => conn[d].fd \in ready')
      BY <2>2, <2>3 DEF Readable
    <3> QED
      BY <2>1, <3>1, <3>2, EdgesStay
  <2> QED
    BY <2>4 DEF Edges
<1> QED
  BY <1>1, <1>2 DEF Environment

LEMMA WorkerKeepsEdges ==
    ASSUME TableInv, Edges, NEW w \in Workers, WorkerStep(w)
    PROVE  Edges'
<1>1. UNCHANGED <<pc, batch, event, request, connections_, conn, interest, peer>> /\ ready \subseteq ready'
  BY DEF WorkerStep, WorkerTake, WorkerExit, HandlerThrows, HandlerReturns, WorkerPost, WorkerNotify,
         WorkerMoves, WakeLoop, loopVars
<1> QED
  BY <1>1, QuietEdges, OpenIsClientFd DEF Serving, StartingUp, Constructing

(* epoll_wait reports every edge, or keeps it. *)
LEMMA PollKeepsEdges ==
    ASSUME TableInv, Edges, Poll
    PROVE  Edges'
<1>1. PICK some \in SUBSET Reports : batch' = some /\ ready' = {e.fd : e \in Reports \ some}
  BY DEF Poll
<1>2. pc = "top" /\ UNCHANGED <<event, request, connections_, conn, interest, peer>>
      /\ pc' = "batch" /\ batch = {} /\ event = NoEvent
  BY DEF Poll, Goto, TableInv, Control, Handling
<1>3. ASSUME Serving', NEW c \in Clients PROVE EdgesFor(c)'
  <2> DEFINE fd == conn[c].fd
             r == Report(fd)
  <2> SUFFICES ASSUME fd # NoFd
               PROVE  /\ Readable(c) => InputAnnounced(c)'
                      /\ HasUnsent(conn[c]) => OutputAnnounced(c)'
    BY <1>2 DEF EdgesFor, Readable
  <2>1. fd \in ClientFds /\ fd \in Fds /\ interest[fd] # "none" /\ SocketOf(fd) = c
    <3>1. fd \in ClientFds /\ interest[fd] # "none" /\ connections_[fd] = c
      BY OpenIsClientFd DEF TableInv, Table
    <3> QED
      BY <3>1, RegisteredIsOpen, FdsApart DEF TableInv
  <2>2. EdgesFor(c)
    BY <1>2 DEF Edges, Serving, StartingUp, Constructing
  <2>3. event.fd = 0
    BY <1>2 DEF NoEvent
  <2>4. /\ Readable(c) => fd \in ready
        /\ HasUnsent(conn[c]) => interest[fd] = "inout" /\ (peer[c].room = 0 \/ fd \in ready)
    BY <1>2, <2>2, <2>3 DEF EdgesFor, InputAnnounced, OutputAnnounced
  <2>5. /\ r.fd = fd /\ (r.in <=> Readable(c))
        /\ (r.out <=> interest[fd] = "inout" /\ (peer[c].room > 0 \/ peer[c].rst))
    BY <2>1 DEF Report
  <2>6. fd \in ready /\ (Readable(c) \/ r.out) => r \in Reports
    BY <2>1, <2>5 DEF Reports
  <2> HIDE DEF r
  <2>7. ASSUME r \in Reports PROVE r \in batch' \/ fd \in ready'
    BY <1>1, <2>5, <2>7
  <2>8. peer[c].room \in Nat
    BY EventLoopAssumption DEF TableInv, ClientsTyped, Peer
  <2>9. Readable(c) => InputAnnounced(c)'
    BY <1>2, <2>4, <2>5, <2>6, <2>7 DEF InputAnnounced
  <2>10. HasUnsent(conn[c]) => OutputAnnounced(c)'
    <3> SUFFICES ASSUME HasUnsent(conn[c]), peer[c].room # 0
                 PROVE  OutputAnnounced(c)'
      BY <1>2, <2>4 DEF OutputAnnounced
    <3>1. fd \in ready /\ interest[fd] = "inout" /\ r.out
      BY <2>4, <2>5, <2>8
    <3>2. r \in batch' \/ fd \in ready'
      BY <2>6, <2>7, <3>1
    <3> QED
      BY <1>2, <2>5, <3>1, <3>2 DEF OutputAnnounced
  <2> QED
    BY <2>9, <2>10
<1> QED
  BY <1>3 DEF Edges

(* A step of the loop that is about one client does nothing to the others. *)
LEMMA OthersEdges ==
    ASSUME TableInv, NEW c \in Clients, NEW d \in Clients \ {c}, EdgesFor(d), UNCHANGED connections_,
           conn'[d] = conn[d], peer'[d] = peer[d],
           conn[d].fd # NoFd => /\ interest'[conn[d].fd] = interest[conn[d].fd]
                                /\ conn[d].fd \in ready => conn[d].fd \in ready',
           \A e \in batch : e \in batch' \/ e.fd \notin ClientFds \/ connections_[e.fd] = c,
           event.fd # 0 => connections_[event.fd] = c,
           pc = "arm" => request[1] = c
    PROVE  EdgesFor(d)'
<1> SUFFICES ASSUME conn[d].fd # NoFd
             PROVE  /\ Readable(d) => InputAnnounced(d)'
                    /\ HasUnsent(conn[d]) => OutputAnnounced(d)'
  BY DEF EdgesFor, Readable
<1>1. conn[d].fd \in ClientFds /\ connections_[conn[d].fd] = d
  BY OpenIsClientFd DEF TableInv, Table
<1>2. \A e \in batch : e.fd = conn[d].fd => e \in batch'
  BY <1>1
<1>3. ~HandledNow(d)
  BY DEF HandledNow
<1> QED
  BY <1>2, <1>3 DEF EdgesFor, InputAnnounced, OutputAnnounced

(* A connection whose socket is closed waits for nothing. *)
LEMMA ShutEdges ==
    ASSUME TableInv, Edges, Serving' => Serving, NEW c \in Clients, NEW cn, NEW dropped, cn.fd = NoFd,
           ConnBecomes(c, cn, dropped), UNCHANGED connections_,
           \A d \in Clients \ {c} : peer'[d] = peer[d],
           \A e \in batch : e \in batch' \/ e.fd \notin ClientFds \/ connections_[e.fd] = c,
           event.fd # 0 => connections_[event.fd] = c,
           pc # "arm"
    PROVE  Edges'
<1> DEFINE fd == conn[c].fd
<1>1. /\ conn'[c].fd = NoFd
      /\ \A d \in Clients \ {c} : conn'[d] = conn[d]
      /\ interest' \in {interest, [interest EXCEPT ![fd] = "none"]} /\ ready \ {fd} \subseteq ready'
      /\ fd = NoFd => UNCHANGED <<interest, ready>>
  BY DEF ConnBecomes, TableInv, ClientsTyped
<1>2. ASSUME NEW d \in Clients \ {c}, conn[d].fd # NoFd
      PROVE  /\ interest'[conn[d].fd] = interest[conn[d].fd]
             /\ conn[d].fd \in ready => conn[d].fd \in ready'
  <2>1. conn[d].fd \in Fds /\ (fd # NoFd => conn[d].fd # fd)
    BY <1>2, OpenIsClientFd, OneSocketEach, FdsApart DEF TableInv
  <2> QED
    BY <1>1, <2>1 DEF TableInv, EpollTyped
<1>3. ASSUME Serving', NEW d \in Clients PROVE EdgesFor(d)'
  <2>1. EdgesFor(d)
    BY <1>3 DEF Edges
  <2>2. CASE d = c
    BY <1>1, <2>2 DEF EdgesFor
  <2>3. CASE d # c
    BY <1>1, <1>2, <2>1, <2>3, OthersEdges
  <2> QED
    BY <2>2, <2>3
<1> QED
  BY <1>3 DEF Edges

LEMMA StartUpKeepsEdges ==
    ASSUME TableInv, StartUp
    PROVE  Edges'
<1>1. StartingUp /\ UNCHANGED conn
  <2>1. CASE StartFails
    BY <2>1 DEF StartFails
  <2>2. CASE ~StartFails
    BY <2>2 DEF StartUp, MakeTcp, CreateEpoll, StartPool, SetOptions, Bind, Listen, AddListen, AddWakeup,
                InstallHandlers, BuildRouter, Run, Pass, Enter, StartingUp, Constructing
  <2> QED
    BY <2>1, <2>2
<1>2. \A c \in Clients : conn'[c].fd = NoFd
  BY <1>1 DEF TableInv, Control, Table
<1> QED
  BY <1>2 DEF Edges, EdgesFor

LEMMA HandleKeepsEdges ==
    ASSUME TableInv, Edges, NEW e \in batch,
           HandleListen(e) \/ HandleWakeup(e) \/ HandleClosed(e) \/ HandleIo(e)
    PROVE  Edges'
<1>1. /\ pc = "batch" /\ batch' = batch \ {e} /\ UNCHANGED <<connections_, peer>>
      /\ event = NoEvent /\ event.fd = 0 /\ Serving
  <2>1. pc = "batch" /\ batch' = batch \ {e} /\ UNCHANGED <<connections_, peer>>
    BY DEF HandleListen, HandleWakeup, HandleClosed, HandleIo, Handle
  <2> QED
    BY <2>1 DEF TableInv, Control, Handling, NoEvent, Serving, StartingUp, Constructing
<1>2. CASE HandleListen(e) \/ HandleWakeup(e)
  <2>1. UNCHANGED <<conn, interest, ready>> /\ e.fd \notin ClientFds
    BY <1>2, FdsApart DEF HandleListen, HandleWakeup, epollVars
  <2> QED
    BY <1>1, <2>1, QuietEdges, OpenIsClientFd
<1>3. CASE HandleClosed(e)
  <2> DEFINE c == connections_[e.fd]
  <2>1. ConnBecomes(c, OnClosed(conn[c]), {}) /\ e.fd \in DOMAIN connections_ /\ UNCHANGED pc
    BY <1>3 DEF HandleClosed
  <2>2. c \in Clients /\ OnClosed(conn[c]).fd = NoFd
    <3>1. c \in Clients /\ Connected(conn[c])
      BY <2>1 DEF TableInv, LoopTyped, ClientsTyped
    <3>2. conn[c].state = "Closed" => conn[c].fd = NoFd
      BY <3>1 DEF TableInv, Lives
    <3> QED
      BY <3>1, <3>2, OnClosedTyped
  <2> QED
    BY <1>1, <2>1, <2>2, ShutEdges
<1>4. CASE HandleIo(e)
  <2>1. /\ event' = e /\ ~e.closed /\ e.fd \in DOMAIN connections_
        /\ pc' = IF e.in THEN "read" ELSE "write"
        /\ UNCHANGED <<conn, interest, ready>>
    BY <1>4 DEF HandleIo, Goto, epollVars
  <2>2. ASSUME NEW c \in Clients, conn[c].fd # NoFd
        PROVE  /\ Readable(c) => InputAnnounced(c)'
               /\ HasUnsent(conn[c]) => OutputAnnounced(c)'
    <3>1. EdgesFor(c)
      BY <1>1 DEF Edges
    <3>2. ~HandledNow(c)
      BY <1>1 DEF HandledNow
    <3>3. CASE e.fd # conn[c].fd
      BY <1>1, <2>1, <2>2, <3>1, <3>2, <3>3 DEF EdgesFor, InputAnnounced, OutputAnnounced
    <3>4. CASE e.fd = conn[c].fd
      <4>1. HandledNow(c)'
        BY <1>1, <2>1, <2>2, <3>4 DEF HandledNow, NoFd, TableInv, Table
      <4>2. \A x \in batch : x.fd = conn[c].fd => x = e
        BY <3>4 DEF TableInv, Batch
      <4>3. Readable(c) => conn[c].fd \in ready \/ e.in
        BY <1>1, <2>1, <2>2, <3>1, <3>2, <4>2 DEF EdgesFor, InputAnnounced
      <4>4. HasUnsent(conn[c]) => /\ interest[conn[c].fd] = "inout"
                                  /\ peer[c].room = 0 \/ conn[c].fd \in ready \/ e.out
        BY <1>1, <2>1, <2>2, <3>1, <3>2, <4>2 DEF EdgesFor, OutputAnnounced
      <4> QED
        BY <1>1, <2>1, <4>1, <4>3, <4>4 DEF InputAnnounced, OutputAnnounced
    <3> QED
      BY <3>3, <3>4
  <2> QED
    BY <1>1, <2>1, <2>2 DEF Edges, EdgesFor, Readable
<1> QED
  BY <1>2, <1>3, <1>4

LEMMA ReapKeepsEdges ==
    ASSUME TableInv, Edges, Reap
    PROVE  Edges'
<1>1. /\ pc = "batch" /\ batch = {} /\ event = NoEvent /\ event.fd = 0 /\ Serving
      /\ interest' = [fd \in Fds |-> IF fd \in Dead THEN "none" ELSE interest[fd]]
      /\ ready' = ready \ Dead /\ UNCHANGED <<conn, peer>>
  <2>1. pc = "batch" /\ batch = {}
    BY DEF Reap
  <2> QED
    BY <2>1 DEF Reap, TableInv, Control, Handling, NoEvent, Serving, StartingUp, Constructing
<1>2. ASSUME NEW c \in Clients PROVE EdgesFor(c)'
  <2>1. EdgesFor(c)
    BY <1>1 DEF Edges
  <2>2. conn[c].fd # NoFd => conn[c].fd \in Fds \ Dead
    BY OpenIsClientFd, FdsApart DEF TableInv, Table, Lives, Dead, IsAlive
  <2>3. ~HandledNow(c)
    BY <1>1 DEF HandledNow
  <2>4. Readable(c)' => Readable(c)
    BY <1>1 DEF Readable
  <2> QED
    BY <1>1, <2>1, <2>2, <2>3, <2>4, EdgesStay
<1> QED
  BY <1>2 DEF Edges

(* Adding a socket to epoll announces what has already arrived on it. *)
LEMMA AcceptKeepsEdges ==
    ASSUME TableInv, Edges, AcceptNothing \/ AcceptOne \/ AcceptThrows
    PROVE  Edges'
<1>1. pc = "accept" /\ event = NoEvent /\ event.fd = 0 /\ Serving /\ UNCHANGED <<event, request, peer>>
  <2>1. pc = "accept" /\ UNCHANGED <<event, request, peer>>
    BY DEF AcceptNothing, AcceptOne, AcceptThrows, Accepting
  <2> QED
    BY <2>1 DEF TableInv, Control, Handling, NoEvent, Serving, StartingUp, Constructing
<1>2. CASE AcceptNothing
  <2>1. UNCHANGED <<batch, conn, interest, ready>>
    BY <1>2 DEF AcceptNothing
  <2> QED
    BY <1>1, <2>1, QuietEdges, OpenIsClientFd
<1>3. CASE AcceptThrows
  BY <1>3 DEF AcceptThrows, Throw, Goto, Edges, Serving
<1>4. CASE AcceptOne
  <2>1. PICK c \in backlog :
            IF LowestFree \in DOMAIN connections_
            THEN conn' = [conn EXCEPT ![c].state = "Destroyed"] /\ UNCHANGED <<connections_, interest, ready>>
            ELSE /\ conn' = [conn EXCEPT ![c] = NewConnection(LowestFree)]
                 /\ Register(LowestFree, c, "in")
    BY <1>4 DEF AcceptOne
  <2>2. /\ c \in Clients /\ conn[c].fd = NoFd /\ LowestFree \in FreeFds /\ UNCHANGED <<pc, batch>>
    <3>1. c \in Clients /\ conn[c].fd = NoFd
      BY DEF TableInv, ClientsTyped, Lives
    <3>2. FreeFds # {} /\ UNCHANGED <<pc, batch>>
      BY <1>4 DEF AcceptOne
    <3> QED
      BY <3>1, <3>2, LowestIsFree
  <2>3. \A d \in Clients \ {c} : conn'[d] = conn[d]
    BY <2>1 DEF TableInv, ClientsTyped
  <2>4. ASSUME NEW d \in Clients \ {c} PROVE EdgesFor(d)'
    <3>1. EdgesFor(d)
      BY <1>1 DEF Edges
    <3>2. conn[d].fd # NoFd => /\ interest'[conn[d].fd] = interest[conn[d].fd]
                               /\ conn[d].fd \in ready => conn[d].fd \in ready'
      <4>1. conn[d].fd # LowestFree
        BY <2>2 DEF FreeFds
      <4>2. /\ interest' \in {interest, [interest EXCEPT ![LowestFree] = "in"]}
            /\ ready \subseteq ready'
        BY <2>1 DEF Register
      <4>3. conn[d].fd # NoFd => conn[d].fd \in Fds
        BY OpenIsClientFd, FdsApart
      <4> HIDE DEF LowestFree
      <4> QED
        BY <4>1, <4>2, <4>3 DEF TableInv, EpollTyped
    <3>3. ~HandledNow(d)
      BY <1>1 DEF HandledNow
    <3>4. Readable(d)' => Readable(d)
      BY <1>1 DEF Readable
    <3> QED
      BY <1>1, <2>2, <2>3, <3>1, <3>2, <3>3, <3>4, EdgesStay
  <2>5. EdgesFor(c)'
    <3>1. CASE LowestFree \in DOMAIN connections_
      <4>1. conn'[c] = [conn[c] EXCEPT !.state = "Destroyed"]
        BY <2>1, <2>2, <3>1 DEF TableInv, ClientsTyped
      <4>2. conn'[c].fd = NoFd
        BY <2>2, <4>1 DEF TableInv, ClientsTyped, Connected
      <4> QED
        BY <4>2 DEF EdgesFor
    <3>2. CASE LowestFree \notin DOMAIN connections_
      <4>1. conn'[c] = NewConnection(LowestFree) /\ (Readable(c) => LowestFree \in ready')
        BY <2>1, <2>2, <3>2 DEF TableInv, ClientsTyped, Register
      <4>2. conn'[c].fd = LowestFree /\ ~HasUnsent(conn'[c])
        BY <4>1 DEF NewConnection, HasUnsent, Deliverable, Active, NoSendfile
      <4>3. Readable(c)' => Readable(c)
        BY <1>1 DEF Readable
      <4> QED
        BY <4>1, <4>2, <4>3 DEF EdgesFor, InputAnnounced
    <3> QED
      BY <3>1, <3>2
  <2> QED
    BY <2>4, <2>5 DEF Edges
<1> QED
  BY <1>2, <1>3, <1>4

(* on_readable() reads until there is nothing more to read. *)
LEMMA ReadKeepsEdges ==
    ASSUME TableInv, Edges,
           (\E c \in Clients : ReadRequest(c) \/ ReadEnds(c) \/ ReadAgain(c)) \/ Submit \/ PostError
    PROVE  Edges'
<1>1. ASSUME NEW c \in Clients, ReadRequest(c) PROVE Edges'
  <2>1. /\ pc = "read" /\ c = connections_[event.fd] /\ pc' \in {"post", "submit"} /\ Serving
        /\ UNCHANGED <<batch, connections_, event, interest, ready>>
        /\ peer[c].inbox # <<>>
    BY <1>1 DEF ReadRequest, Reading, Goto, Serving, StartingUp, Constructing
  <2>2. PICK k \in BOOLEAN : conn' = [conn EXCEPT ![c].keep_alive = k]
    BY <1>1 DEF ReadRequest
  <2>3. \A d \in Clients : conn'[d].fd = conn[d].fd /\ HasUnsent(conn'[d]) = HasUnsent(conn[d])
    <3>1. conn'[c] = [conn[c] EXCEPT !.keep_alive = k] /\ \A d \in Clients \ {c} : conn'[d] = conn[d]
      BY <2>2 DEF TableInv, ClientsTyped
    <3>2. Connected(conn[c])
      BY DEF TableInv, ClientsTyped
    <3>3. conn'[c].fd = conn[c].fd /\ HasUnsent(conn'[c]) = HasUnsent(conn[c])
      BY <3>1, <3>2 DEF Connected, Operation, HasUnsent
    <3> QED
      BY <3>1, <3>3
  <2>4. PICK left : peer' = [peer EXCEPT ![c].inbox = left]
    BY <1>1 DEF ReadRequest
  <2>5. \A d \in Clients : peer'[d].room = peer[d].room /\ (Readable(d)' => Readable(d))
    <3>1. peer'[c] = [peer[c] EXCEPT !.inbox = left] /\ \A d \in Clients \ {c} : peer'[d] = peer[d]
      BY <2>4 DEF TableInv, ClientsTyped
    <3>2. peer[c] \in Peer(c)
      BY DEF TableInv, ClientsTyped
    <3>3. peer'[c].room = peer[c].room
      BY <3>1, <3>2 DEF Peer
    <3> QED
      BY <2>1, <3>1, <3>3 DEF Readable
  <2>6. ASSUME NEW d \in Clients PROVE EdgesFor(d)'
    <3>1. EdgesFor(d)
      BY <2>1 DEF Edges
    <3> QED
      BY <2>1, <2>3, <2>5, <3>1, EdgesStay
  <2> QED
    BY <2>6 DEF Edges
<1>2. ASSUME NEW c \in Clients, ReadEnds(c) PROVE Edges'
  <2>1. /\ pc = "read" /\ c = connections_[event.fd] /\ ConnBecomes(c, OnClosed(conn[c]), {}) /\ Serving
        /\ UNCHANGED <<batch, connections_, peer>>
    BY <1>2 DEF ReadEnds, Reading, Serving, StartingUp, Constructing
  <2>2. OnClosed(conn[c]).fd = NoFd
    <3>1. Connected(conn[c]) /\ (conn[c].state = "Closed" => conn[c].fd = NoFd)
      BY DEF TableInv, ClientsTyped, Lives
    <3> QED
      BY <3>1, OnClosedTyped
  <2> QED
    BY <2>1, <2>2, ShutEdges
<1>3. ASSUME NEW c \in Clients, ReadAgain(c) PROVE Edges'
  <2>1. /\ pc = "read" /\ c = connections_[event.fd] /\ ~Readable(c) /\ Serving
        /\ event.out => pc' = "write" /\ UNCHANGED event
        /\ UNCHANGED <<batch, connections_, conn, interest, ready, peer>>
    BY <1>3 DEF ReadAgain, Reading, Goto, Serving, StartingUp, Constructing
  <2>2. ASSUME NEW d \in Clients PROVE EdgesFor(d)'
    <3>1. EdgesFor(d)
      BY <2>1 DEF Edges
    <3>2. CASE d # c
      BY <2>1, <3>1, <3>2, OthersEdges
    <3>3. CASE d = c
      <4>1. ~Readable(d)'
        BY <2>1, <3>3 DEF Readable
      <4>2. HasUnsent(conn[d]) /\ conn[d].fd # NoFd => OutputAnnounced(d)'
        BY <2>1, <3>1 DEF EdgesFor, OutputAnnounced, HandledNow
      <4> QED
        BY <2>1, <4>1, <4>2 DEF EdgesFor
    <3> QED
      BY <3>2, <3>3
  <2> QED
    BY <2>2 DEF Edges
<1>4. CASE Submit \/ PostError
  <2>1. /\ pc \in {"submit", "post"} /\ pc' = "read" /\ ready \subseteq ready'
        /\ UNCHANGED <<batch, event, connections_, conn, interest, peer>>
    BY <1>4 DEF Submit, PostError, NextRecv, Goto, epollVars, WakeLoop
  <2> QED
    BY <2>1, QuietEdges, OpenIsClientFd DEF Serving, StartingUp, Constructing
<1> QED
  BY <1>1, <1>2, <1>3, <1>4

(* flush_write() leaves something only on a full socket. *)
LEMMA FlushEdges ==
    ASSUME TableInv, Edges, Serving, NEW c \in Clients, NEW cn, NEW left, NEW done,
           Connected(cn), cn.fd = conn[c].fd, conn[c].state # "None",
           cn.state \notin {"None", "Destroyed"} \/ conn[c].fd = NoFd,
           conn[c].fd = NoFd => HasUnsent(cn), cn.state = "Closed" => cn.fd = NoFd,
           Flush(c, cn, left, done), UNCHANGED <<batch, connections_>>, left # "top", done # "top",
           pc \notin {"arm", "read", "submit", "post"}, event.fd # 0 => connections_[event.fd] = c,
           HasUnsent(cn) /\ pc' = left /\ conn[c].fd # NoFd =>
               \/ pc' = "arm" /\ request'[1] = c
               \/ interest[conn[c].fd] = "inout"
    PROVE  Edges'
<1>1. /\ \A d \in Clients \ {c} : conn'[d] = conn[d] /\ peer'[d] = peer[d]
      /\ \A d \in Clients : /\ peer'[d].inbox = peer[d].inbox
                            /\ peer'[d].fin = peer[d].fin /\ peer'[d].rst = peer[d].rst
      /\ IF conn'[c].fd = NoFd THEN pc' = done
         ELSE /\ conn'[c].fd = conn[c].fd /\ UNCHANGED <<interest, ready>>
              /\ pc' \in {left, done}
              /\ HasUnsent(conn'[c]) => HasUnsent(cn) /\ peer'[c].room = 0 /\ pc' = left
  BY FlushTable
<1>2. CASE conn'[c].fd = NoFd
  <2> DEFINE f == FlushWrite(cn, Room(c), Broken(c))
             dropped == FileOf(c, cn) \ FileOf(c, f.conn)
  <2>1. ConnBecomes(c, f.conn, dropped)
    BY DEF Flush
  <2>2. conn'[c] = f.conn
    BY <2>1 DEF ConnBecomes, TableInv, ClientsTyped
  <2> HIDE DEF f, dropped
  <2>3. f.conn.fd = NoFd
    BY <1>2, <2>2
  <2> QED
    BY <1>1, <2>1, <2>3, ShutEdges
<1>3. CASE conn'[c].fd # NoFd
  <2>1. ASSUME NEW d \in Clients \ {c} PROVE EdgesFor(d)'
    <3>1. EdgesFor(d)
      BY DEF Edges
    <3> QED
      BY <1>1, <1>3, <3>1, OthersEdges
  <2>2. EdgesFor(c)'
    <3>1. conn'[c].fd = conn[c].fd /\ EdgesFor(c) /\ conn[c].fd # NoFd
      BY <1>1, <1>3 DEF Edges
    <3>2. Readable(c)' => InputAnnounced(c)
      BY <1>1, <3>1 DEF EdgesFor, Readable
    <3>3. Readable(c)' => InputAnnounced(c)'
      BY <1>1, <1>3, <3>1, <3>2 DEF InputAnnounced
    <3>4. HasUnsent(conn'[c]) => OutputAnnounced(c)'
      BY <1>1, <1>3, <3>1 DEF OutputAnnounced
    <3> QED
      BY <3>3, <3>4 DEF EdgesFor
  <2> QED
    BY <2>1, <2>2 DEF Edges
<1> QED
  BY <1>2, <1>3

LEMMA DrainKeepsEdges ==
    ASSUME TableInv, Edges, DrainEnds \/ Arm \/ \E req \in Requests : DrainDead(req) \/ DrainWrite(req)
    PROVE  Edges'
<1>1. /\ pc \in {"drain", "arm"} /\ event = NoEvent /\ event.fd = 0 /\ Serving
      /\ UNCHANGED <<batch, event, connections_>>
  <2>1. pc \in {"drain", "arm"} /\ UNCHANGED <<batch, event, connections_>>
    BY DEF DrainEnds, Arm, DrainDead, DrainWrite, Draining
  <2> QED
    BY <2>1 DEF TableInv, Control, Handling, NoEvent, Serving, StartingUp, Constructing
<1>2. CASE DrainEnds \/ \E req \in Requests : DrainDead(req)
  <2>1. pc = "drain" /\ UNCHANGED <<conn, interest, ready, peer>>
    BY <1>2 DEF DrainEnds, DrainDead, Draining
  <2> QED
    BY <1>1, <2>1, QuietEdges, OpenIsClientFd
<1>3. ASSUME NEW req \in Requests, DrainWrite(req) PROVE Edges'
  <2> DEFINE c == req[1]
             cn == Prepared(req)
  <2>1. /\ pc = "drain" /\ TakePending(req) /\ Flush(c, cn, "arm", "drain")
        /\ pc' = "arm" => request' = req
    BY <1>3 DEF DrainWrite, Draining, NextPending
  <2>2. c \in Clients /\ conn[c].state # "None"
    <3>1. pending_writes_ # <<>> /\ req = Head(pending_writes_) /\ pending_writes_ \in Seq(Requests)
      BY <2>1 DEF TakePending, TableInv, PoolTyped
    <3>2. Opened(req)
      BY <3>1, TailSeq DEF TableInv, Known
    <3> QED
      BY <3>2, RequestIsSome DEF Opened
  <2>3. /\ Connected(cn) /\ cn.fd = conn[c].fd /\ cn.state = "Writing" /\ HasUnsent(cn)
    <3>1. Connected(conn[c])
      BY <2>2 DEF TableInv, ClientsTyped
    <3> QED
      BY <3>1, PreparedTyped
  <2>4. pc' = "arm" => request'[1] = c
    BY <2>1
  <2> HIDE DEF cn, c
  <2> QED
    BY <1>1, <2>1, <2>2, <2>3, <2>4, FlushEdges
<1>4. CASE Arm
  <2>0. PICK c \in Clients : c = request[1]
    BY <1>4, ClientOfRequest DEF Arm, TableInv, LoopTyped
  <2> DEFINE fd == conn[c].fd
  <2>1. pc = "arm" /\ Register(fd, c, "inout") /\ UNCHANGED <<conn, peer>>
    BY <1>4, <2>0 DEF Arm
  <2>2. fd # NoFd /\ fd \in Fds
    <3>1. fd # NoFd
      BY <2>0, <2>1 DEF TableInv, Control
    <3> QED
      BY <3>1, OpenIsClientFd, FdsApart
  <2> HIDE DEF fd
  <2>3. /\ interest' = [interest EXCEPT ![fd] = "inout"] /\ ready \subseteq ready'
        /\ peer[c].room > 0 => fd \in ready'
    BY <2>1 DEF Register
  <2>4. ASSUME NEW d \in Clients \ {c} PROVE EdgesFor(d)'
    <3>1. EdgesFor(d)
      BY <1>1 DEF Edges
    <3>2. conn[d].fd # NoFd => conn[d].fd # fd /\ conn[d].fd \in Fds
      BY <2>2, OneSocketEach, OpenIsClientFd, FdsApart DEF TableInv, fd
    <3>3. conn[d].fd # NoFd => interest'[conn[d].fd] = interest[conn[d].fd]
      BY <2>3, <3>2 DEF TableInv, EpollTyped
    <3> QED
      BY <1>1, <2>1, <2>2, <2>3, <3>1, <3>3, <2>0, OthersEdges
  <2>5. EdgesFor(c)'
    <3>1. EdgesFor(c)
      BY <1>1, <2>2 DEF Edges
    <3>2. Readable(c)' => InputAnnounced(c)'
      BY <1>1, <2>1, <2>2, <2>3, <3>1 DEF EdgesFor, Readable, InputAnnounced, fd
    <3>3. peer[c].room \in Nat
      BY <2>2, EventLoopAssumption DEF TableInv, ClientsTyped, Peer
    <3>4. interest'[fd] = "inout"
      BY <2>2, <2>3 DEF TableInv, EpollTyped
    <3>5. OutputAnnounced(c)'
      BY <2>1, <2>3, <3>3, <3>4 DEF OutputAnnounced, fd
    <3> QED
      BY <3>2, <3>5 DEF EdgesFor
  <2> QED
    BY <2>4, <2>5 DEF Edges
<1> QED
  BY <1>2, <1>3, <1>4

LEMMA WriteKeepsEdges ==
    ASSUME TableInv, Edges, (\E c \in Clients : Write(c)) \/ Disarm
    PROVE  Edges'
<1>1. ASSUME NEW c \in Clients, Write(c) PROVE Edges'
  <2>1. /\ pc = "write" /\ c = connections_[event.fd] /\ Flush(c, conn[c], "batch", "disarm") /\ Serving
        /\ UNCHANGED <<batch, connections_>>
    BY <1>1 DEF Write, IfUnsent, Serving, StartingUp, Constructing
  <2>2. event.fd \in DOMAIN connections_ /\ Sealed(c) /\ conn[c].state # "None"
        /\ (conn[c].fd = event.fd \/ conn[c].state = "Closed")
    BY <2>1 DEF TableInv, Control, Handling, Lives, Table
  <2>3. Connected(conn[c]) /\ event.fd # NoFd
    BY <2>2, FdsApart DEF TableInv, ClientsTyped, LoopTyped
  <2>4. /\ conn[c].fd = NoFd => HasUnsent(conn[c])
        /\ conn[c].state = "Closed" => conn[c].fd = NoFd
        /\ conn[c].state \notin {"None", "Destroyed"} \/ conn[c].fd = NoFd
    BY <2>2, <2>3 DEF TableInv, Lives, Sealed, HasUnsent
  <2>5. HasUnsent(conn[c]) /\ conn[c].fd # NoFd => interest[conn[c].fd] = "inout"
    BY <2>1 DEF Edges, EdgesFor, OutputAnnounced
  <2> QED
    BY <2>1, <2>2, <2>3, <2>4, <2>5, FlushEdges
<1>2. CASE Disarm
  <2>1. pc = "disarm" /\ Serving /\ UNCHANGED <<connections_, conn, peer>>
    BY <1>2 DEF Disarm, Serving, StartingUp, Constructing
  <2>2. CASE interest[event.fd] = "none"
    BY <1>2, <2>2 DEF Disarm, Throw, Goto, Edges, Serving
  <2>3. CASE interest[event.fd] # "none"
    <3> DEFINE fd == event.fd
    <3>1. fd \in ClientFds /\ fd \in Fds /\ fd # 0
      BY <2>1, FdsApart DEF TableInv, Control, Handling, LoopTyped, NoFd
    <3>2. PICK c \in Clients : conn[c].fd = fd /\ c = connections_[fd]
      BY <2>3, <3>1, RegisteredIsOpen DEF TableInv
    <3>3. Register(fd, SocketOf(fd), "in") /\ UNCHANGED batch
      BY <1>2, <2>3 DEF Disarm
    <3>4. ~HasUnsent(conn[c])
      BY <2>1, <3>2 DEF TableInv, Control
    <3>5. interest' = [interest EXCEPT ![fd] = "in"] /\ ready \subseteq ready'
      BY <3>3 DEF Register
    <3>6. ASSUME NEW d \in Clients \ {c} PROVE EdgesFor(d)'
      <4>1. EdgesFor(d)
        BY <2>1 DEF Edges
      <4>2. conn[d].fd # NoFd => conn[d].fd # fd /\ conn[d].fd \in Fds
        BY <3>2, OneSocketEach, OpenIsClientFd, FdsApart DEF TableInv
      <4>3. conn[d].fd # NoFd => interest'[conn[d].fd] = interest[conn[d].fd]
        BY <3>5, <4>2 DEF TableInv, EpollTyped
      <4> QED
        BY <2>1, <3>2, <3>3, <3>5, <4>1, <4>3, OthersEdges
    <3>7. EdgesFor(c)'
      <4>1. EdgesFor(c)
        BY <2>1, <3>2 DEF Edges
      <4> QED
        BY <2>1, <3>2, <3>3, <3>4, <3>5, <4>1 DEF EdgesFor, Readable, InputAnnounced
    <3> QED
      BY <3>6, <3>7 DEF Edges
  <2> QED
    BY <2>2, <2>3
<1> QED
  BY <1>1, <1>2

LEMMA NextKeepsEdges ==
    ASSUME TableInv, Edges, [Next]_vars
    PROVE  Edges'
<1>1. CASE StartUp \/ Poll \/ Reap
  BY <1>1, StartUpKeepsEdges, PollKeepsEdges, ReapKeepsEdges
<1>2. ASSUME NEW e \in batch, HandleListen(e) \/ HandleWakeup(e) \/ HandleClosed(e) \/ HandleIo(e)
      PROVE  Edges'
  BY <1>2, HandleKeepsEdges
<1>3. CASE AcceptNothing \/ AcceptOne \/ AcceptThrows
  BY <1>3, AcceptKeepsEdges
<1>4. CASE (\E c \in Clients : ReadRequest(c) \/ ReadEnds(c) \/ ReadAgain(c)) \/ Submit \/ PostError
  BY <1>4, ReadKeepsEdges
<1>5. CASE DrainEnds \/ Arm \/ \E req \in Requests : DrainDead(req) \/ DrainWrite(req)
  BY <1>5, DrainKeepsEdges
<1>6. CASE (\E c \in Clients : Write(c)) \/ Disarm
  BY <1>6, WriteKeepsEdges
<1>7. CASE Leave \/ Joined
  <2>1. pc' \in {"join", "done", "dead"}
    BY <1>7 DEF Leave, Joined, Goto
  <2> QED
    BY <2>1 DEF Edges, Serving
<1>8. CASE LoopStep
  BY <1>1, <1>2, <1>3, <1>4, <1>5, <1>6, <1>7, <1>8 DEF LoopStep
<1>9. CASE \E w \in Workers : WorkerStep(w)
  BY <1>9, WorkerKeepsEdges
<1>10. CASE Environment
  BY <1>10, EnvironmentKeepsEdges
<1>11. CASE UNCHANGED vars
  <2>1. UNCHANGED <<pc, batch, event, request, connections_, conn, interest, ready, peer>>
    BY <1>11 DEF vars, loopVars, epollVars
  <2> QED
    BY <2>1, QuietEdges, OpenIsClientFd DEF Serving, StartingUp, Constructing
<1> QED
  BY <1>8, <1>9, <1>10, <1>11 DEF Next, Terminated

LEMMA EdgesInvariant == Spec => []Edges
<1>1. Init => Edges
  BY DEF Init, Edges, Serving, StartingUp, Constructing
<1>2. TableInv /\ Edges /\ [Next]_vars => Edges'
  BY NextKeepsEdges
<1> QED
  BY <1>1, <1>2, TableInvariant, PTL DEF Spec

(* Input that has arrived on a socket is being read, or an edge for it is     *)
(* still to come: with EPOLLET on_readable() has to read until EAGAIN, and it *)
(* does, whatever happens while submit() or post_response() blocks it         *)
(* (connection.cpp:39-63, event_loop.cpp:86-113, main.cpp:91-136).            *)
THEOREM InputNeverStuck == Spec => []InputIsAnnounced
BY EdgesInvariant, EdgesMean, PTL

(* Nothing is left unsent on a socket without EPOLLOUT being armed, and on a  *)
(* socket with room an edge is still to come: a partial write always resumes  *)
(* (connection.cpp:65-121, event_loop.cpp:63-84 and 115-136).                 *)
THEOREM OutputNeverStuck == Spec => []OutputIsAnnounced
BY EdgesInvariant, EdgesMean, PTL

-----------------------------------------------------------------------------
(* The listening socket *)

LEMMA WaitersAnnounced ==
    ASSUME BacklogIsAnnounced, backlog' \subseteq backlog, AcceptAborted => AcceptAborted',
           interest'[ListenFd] = interest[ListenFd],
           pc \in {"join", "unwind"} => pc' = pc, pc # "accept",
           ListenFd \in ready => ListenFd \in ready',
           \A e \in batch : e.fd = ListenFd => e \in batch'
    PROVE  BacklogIsAnnounced'
<1> SUFFICES ASSUME interest'[ListenFd] # "none", pc' \notin {"join", "unwind"}, backlog' # {}, ~AcceptAborted'
             PROVE  ListenFd \in ready' \/ (\E e \in batch' : e.fd = ListenFd) \/ pc' = "accept"
  BY DEF BacklogIsAnnounced
<1>1. backlog # {} /\ ~AcceptAborted /\ pc \notin {"join", "unwind"}
  OBVIOUS
<1>2. ListenFd \in ready \/ (\E e \in batch : e.fd = ListenFd)
  BY <1>1 DEF BacklogIsAnnounced
<1> QED
  BY <1>2

(* accept4 never sees again what it has taken out. *)
LEMMA AbortedStays ==
    ASSUME AcceptAborted, backlog' \subseteq backlog,
           \A c \in Clients : peer'[c].connected = peer[c].connected,
           \A c \in Clients : conn[c].state = "None" => conn'[c].state = "None"
    PROVE  AcceptAborted'
BY DEF AcceptAborted

LEMMA QuietBacklog ==
    ASSUME TableInv, BacklogIsAnnounced, UNCHANGED <<conn, backlog, peer>>,
           interest'[ListenFd] = interest[ListenFd],
           pc \in {"join", "unwind"} => pc' = pc, pc # "accept",
           ListenFd \in ready => ListenFd \in ready',
           \A e \in batch : e.fd = ListenFd => e \in batch'
    PROVE  BacklogIsAnnounced'
BY WaitersAnnounced, AbortedStays

(* What happens to a connection is nothing to the listening socket. *)
LEMMA ConnBacklog ==
    ASSUME TableInv, BacklogIsAnnounced, NEW c \in Clients, NEW cn, NEW dropped,
           conn[c].state # "None", ConnBecomes(c, cn, dropped), UNCHANGED backlog,
           \A d \in Clients : peer'[d].connected = peer[d].connected,
           pc \notin {"join", "unwind", "accept"},
           \A e \in batch : e.fd = ListenFd => e \in batch'
    PROVE  BacklogIsAnnounced'
<1> DEFINE fd == conn[c].fd
<1>1. /\ \A d \in Clients \ {c} : conn'[d] = conn[d]
      /\ interest' \in {interest, [interest EXCEPT ![fd] = "none"]} /\ ready \ {fd} \subseteq ready'
  BY DEF ConnBecomes, TableInv, ClientsTyped
<1>2. ListenFd # fd /\ ListenFd \in Fds
  BY OpenIsClientFd, FdsApart DEF ListenFd, NoFd
<1>3. interest'[ListenFd] = interest[ListenFd] /\ (ListenFd \in ready => ListenFd \in ready')
  BY <1>1, <1>2 DEF TableInv, EpollTyped
<1>4. \A d \in Clients : conn[d].state = "None" => conn'[d].state = "None"
  BY <1>1
<1> QED
  BY <1>3, <1>4, WaitersAnnounced, AbortedStays

LEMMA EnvironmentKeepsBacklog ==
    ASSUME TableInv, BacklogIsAnnounced, Environment
    PROVE  BacklogIsAnnounced'
<1>1. CASE Signal
  <2>1. UNCHANGED <<pc, batch, conn, interest, ready, backlog, peer>>
    BY <1>1 DEF Signal, epollVars
  <2> QED
    BY <2>1 DEF BacklogIsAnnounced, AcceptAborted
<1>2. ASSUME NEW c \in Clients, Connect(c) PROVE BacklogIsAnnounced'
  <2>1. /\ UNCHANGED <<pc, conn, interest>> /\ backlog' = backlog \cup {c}
        /\ interest[ListenFd] # "none" => ListenFd \in ready'
    BY <1>2 DEF Connect, ServerUntouched, loopVars
  <2> QED
    BY <2>1 DEF BacklogIsAnnounced
<1>3. ASSUME NEW c \in Clients, SendRequest(c) \/ ReadResponse(c) \/ Fin(c) \/ Rst(c)
      PROVE  BacklogIsAnnounced'
  <2>1. UNCHANGED <<pc, batch, conn, interest, backlog>> /\ ready \subseteq ready'
    BY <1>3 DEF SendRequest, ReadResponse, Fin, Rst, Edge, ServerUntouched, loopVars
  <2>2. \A d \in Clients : peer'[d].connected = peer[d].connected
    <3>1. peer[c] \in Peer(c)
      BY DEF TableInv, ClientsTyped
    <3>2. \A d \in Clients \ {c} : peer'[d] = peer[d]
      BY <1>3 DEF SendRequest, ReadResponse, Fin, Rst, TableInv, ClientsTyped
    <3>3. peer'[c].connected = peer[c].connected
      <4>1. CASE SendRequest(c)
        <5> DEFINE i == peer[c].asked + 1
                   inbox == Append(peer[c].inbox, i)
                   q == [peer[c] EXCEPT !.asked = i]
        <5>1. peer'[c] = [q EXCEPT !.inbox = inbox]
          BY <4>1 DEF SendRequest, TableInv, ClientsTyped
        <5> HIDE DEF i, inbox
        <5>2. q = [connected |-> peer[c].connected, asked |-> i, inbox |-> peer[c].inbox,
                   room |-> peer[c].room, got |-> peer[c].got, fin |-> peer[c].fin, rst |-> peer[c].rst]
          BY <3>1, PeerFields
        <5> HIDE DEF q
        <5> QED
          BY <5>1, <5>2
      <4>2. CASE ReadResponse(c) \/ Fin(c) \/ Rst(c)
        <5>1. peer'[c] \in {[peer[c] EXCEPT !.room = SockRoom], [peer[c] EXCEPT !.fin = TRUE],
                            [peer[c] EXCEPT !.rst = TRUE]}
          BY <4>2 DEF ReadResponse, Fin, Rst, TableInv, ClientsTyped
        <5> QED
          BY <3>1, <5>1 DEF Peer
      <4> QED
        BY <1>3, <4>1, <4>2
    <3> QED
      BY <3>2, <3>3
  <2>3. AcceptAborted => AcceptAborted'
    BY <2>1, <2>2, AbortedStays
  <2> QED
    BY <2>1, <2>3 DEF BacklogIsAnnounced
<1> QED
  BY <1>1, <1>2, <1>3 DEF Environment

LEMMA WorkerKeepsBacklog ==
    ASSUME BacklogIsAnnounced, NEW w \in Workers, WorkerStep(w)
    PROVE  BacklogIsAnnounced'
<1>1. UNCHANGED <<pc, batch, conn, interest, backlog, peer>> /\ ready \subseteq ready'
  BY DEF WorkerStep, WorkerTake, WorkerExit, HandlerThrows, HandlerReturns, WorkerPost, WorkerNotify,
         WorkerMoves, WakeLoop, loopVars
<1> QED
  BY <1>1 DEF BacklogIsAnnounced, AcceptAborted

(* epoll_.add() announces a client that came before it. *)
LEMMA StartUpKeepsBacklog ==
    ASSUME TableInv, BacklogIsAnnounced, StartUp
    PROVE  BacklogIsAnnounced'
<1>1. /\ UNCHANGED <<batch, conn, backlog, peer>> /\ StartingUp
      /\ pc \notin {"join", "unwind", "accept"}
  <2>1. CASE StartFails
    BY <2>1 DEF StartFails, StartingUp, Constructing
  <2>2. CASE ~StartFails
    BY <2>2 DEF StartUp, MakeTcp, CreateEpoll, StartPool, SetOptions, Bind, Listen, AddListen, AddWakeup,
                InstallHandlers, BuildRouter, Run, Pass, Enter, StartingUp, Constructing
  <2> QED
    BY <2>1, <2>2
<1>2. CASE AddListen
  <2>1. backlog # {} => ListenFd \in ready'
    BY <1>2 DEF AddListen, Add
  <2> QED
    BY <1>1, <2>1 DEF BacklogIsAnnounced
<1>3. CASE AddWakeup
  <2>1. interest'[ListenFd] = interest[ListenFd] /\ UNCHANGED ready
    BY <1>3, FdsApart DEF AddWakeup, Add, TableInv, EpollTyped
  <2> QED
    BY <1>1, <2>1, QuietBacklog
<1>4. CASE ~AddListen /\ ~AddWakeup
  <2>1. UNCHANGED <<interest, ready>>
    BY <1>4 DEF StartUp, MakeTcp, CreateEpoll, StartPool, SetOptions, Bind, Listen,
                InstallHandlers, BuildRouter, StartFails, Run, Pass, epollVars
  <2> QED
    BY <1>1, <2>1, QuietBacklog
<1> QED
  BY <1>2, <1>3, <1>4

LEMMA PollKeepsBacklog ==
    ASSUME TableInv, BacklogIsAnnounced, Poll
    PROVE  BacklogIsAnnounced'
<1>1. PICK some \in SUBSET Reports : batch' = some /\ ready' = {e.fd : e \in Reports \ some}
  BY DEF Poll
<1>2. pc = "top" /\ batch = {} /\ UNCHANGED <<conn, interest, backlog, peer>>
  BY DEF Poll, LoopKeeps, TableInv, Control
<1> DEFINE r == [NoEvent EXCEPT !.fd = ListenFd, !.in = TRUE]
<1>3. r.fd = ListenFd
  BY DEF NoEvent
<1>4. ListenFd \in ready /\ backlog # {} => r \in Reports
  BY DEF Reports
<1> HIDE DEF r
<1>5. AcceptAborted <=> AcceptAborted'
  BY <1>2 DEF AcceptAborted
<1> QED
  BY <1>1, <1>2, <1>3, <1>4, <1>5 DEF BacklogIsAnnounced

LEMMA HandleKeepsBacklog ==
    ASSUME TableInv, BacklogIsAnnounced, NEW e \in batch,
           HandleListen(e) \/ HandleWakeup(e) \/ HandleClosed(e) \/ HandleIo(e)
    PROVE  BacklogIsAnnounced'
<1>1. pc = "batch" /\ batch' = batch \ {e} /\ UNCHANGED <<connections_, backlog, peer>>
  BY DEF HandleListen, HandleWakeup, HandleClosed, HandleIo, Handle, LoopKeeps
<1>2. CASE HandleListen(e)
  BY <1>2 DEF HandleListen, Goto, BacklogIsAnnounced
<1>3. CASE HandleWakeup(e) \/ HandleIo(e)
  <2>1. UNCHANGED <<conn, interest, ready>> /\ e.fd # ListenFd
    BY <1>3, FdsApart DEF HandleWakeup, HandleIo, epollVars, TableInv, LoopTyped
  <2> QED
    BY <1>1, <2>1, QuietBacklog
<1>4. CASE HandleClosed(e)
  <2> DEFINE c == connections_[e.fd]
  <2>1. ConnBecomes(c, OnClosed(conn[c]), {}) /\ e.fd \in DOMAIN connections_
    BY <1>4 DEF HandleClosed
  <2>2. c \in Clients /\ conn[c].state # "None" /\ e.fd # ListenFd
    BY <2>1, FdsApart DEF TableInv, LoopTyped, Lives
  <2> QED
    BY <1>1, <2>1, <2>2, ConnBacklog
<1> QED
  BY <1>2, <1>3, <1>4

(* The loop leaves accept_new_connections() once accept4 has found nothing -  *)
(* or a connection that is gone, which leaves the others where they are.      *)
LEMMA AcceptKeepsBacklog ==
    ASSUME TableInv, BacklogIsAnnounced, AcceptNothing \/ AcceptOne \/ AcceptThrows
    PROVE  BacklogIsAnnounced'
<1>1. CASE AcceptOne
  BY <1>1 DEF AcceptOne, Accepting, BacklogIsAnnounced
<1>2. CASE AcceptThrows
  BY <1>2 DEF AcceptThrows, Throw, Goto, BacklogIsAnnounced
<1>3. CASE AcceptNothing
  <2>1. UNCHANGED <<conn, peer>>
    BY <1>3 DEF AcceptNothing, Accepting
  <2>2. CASE backlog = {} /\ UNCHANGED backlog
    BY <2>2 DEF BacklogIsAnnounced
  <2>3. ASSUME NEW c \in backlog, backlog' = backlog \ {c} PROVE BacklogIsAnnounced'
    <3>1. c \in Clients /\ peer[c].connected /\ conn[c].state = "None"
      BY DEF TableInv, ClientsTyped, Lives
    <3>2. AcceptAborted'
      BY <2>1, <2>3, <3>1 DEF AcceptAborted
    <3> QED
      BY <3>2 DEF BacklogIsAnnounced
  <2> QED
    BY <1>3, <2>2, <2>3 DEF AcceptNothing
<1> QED
  BY <1>1, <1>2, <1>3

LEMMA ServeKeepsBacklog ==
    ASSUME TableInv, BacklogIsAnnounced,
           \/ \E c \in Clients : ReadRequest(c) \/ ReadEnds(c) \/ ReadAgain(c) \/ Write(c)
           \/ Submit \/ PostError \/ DrainEnds \/ Arm \/ Disarm
           \/ \E req \in Requests : DrainDead(req) \/ DrainWrite(req)
    PROVE  BacklogIsAnnounced'
<1>1. ASSUME NEW c \in Clients, ReadRequest(c) PROVE BacklogIsAnnounced'
  <2>1. UNCHANGED <<batch, backlog, interest, ready>> /\ pc = "read"
    BY <1>1 DEF ReadRequest, Reading
  <2>2. PICK k \in BOOLEAN : conn' = [conn EXCEPT ![c].keep_alive = k]
    BY <1>1 DEF ReadRequest
  <2>3. \A d \in Clients : conn'[d].state = conn[d].state
    BY <2>2 DEF TableInv, ClientsTyped, Connected
  <2>4. PICK left : peer' = [peer EXCEPT ![c].inbox = left]
    BY <1>1 DEF ReadRequest
  <2>5. \A d \in Clients : peer'[d].connected = peer[d].connected
    BY <2>4 DEF TableInv, ClientsTyped, Peer
  <2> QED
    BY <2>1, <2>3, <2>5, WaitersAnnounced, AbortedStays
<1>2. ASSUME NEW c \in Clients, ReadEnds(c) PROVE BacklogIsAnnounced'
  <2>1. /\ pc = "read" /\ c = connections_[event.fd] /\ ConnBecomes(c, OnClosed(conn[c]), {})
        /\ UNCHANGED <<batch, backlog, peer>>
    BY <1>2 DEF ReadEnds, Reading
  <2>2. conn[c].state # "None"
    BY <2>1 DEF TableInv, Control, Handling, Lives
  <2> QED
    BY <2>1, <2>2, ConnBacklog
<1>3. CASE (\E c \in Clients : ReadAgain(c)) \/ Submit \/ PostError
           \/ DrainEnds \/ \E req \in Requests : DrainDead(req)
  <2>1. /\ UNCHANGED <<batch, conn, interest, backlog, peer>> /\ ready \subseteq ready'
        /\ pc \in {"read", "submit", "post", "drain"}
    BY <1>3 DEF ReadAgain, Reading, Submit, PostError, DrainEnds, DrainDead, Draining, LoopKeeps,
                epollVars, WakeLoop
  <2> QED
    BY <2>1, QuietBacklog
<1>4. ASSUME NEW req \in Requests, DrainWrite(req) PROVE BacklogIsAnnounced'
  <2> DEFINE c == req[1]
             cn == Prepared(req)
  <2>1. /\ pc = "drain" /\ TakePending(req) /\ Flush(c, cn, "arm", "drain")
        /\ UNCHANGED <<batch, backlog, connections_>>
    BY <1>4 DEF DrainWrite, Draining, NextPending, LoopKeeps
  <2>2. c \in Clients /\ conn[c].state # "None"
    <3>1. pending_writes_ # <<>> /\ req = Head(pending_writes_) /\ pending_writes_ \in Seq(Requests)
      BY <2>1 DEF TakePending, TableInv, PoolTyped
    <3>2. Opened(req)
      BY <3>1, TailSeq DEF TableInv, Known
    <3> QED
      BY <3>2, RequestIsSome DEF Opened
  <2>3. Connected(cn) /\ cn.fd = conn[c].fd /\ cn.state = "Writing" /\ HasUnsent(cn)
    <3>1. Connected(conn[c])
      BY <2>2 DEF TableInv, ClientsTyped
    <3> QED
      BY <3>1, PreparedTyped
  <2> HIDE DEF cn, c
  <2>4. \A d \in Clients : peer'[d].connected = peer[d].connected
    BY <2>1, <2>2, <2>3, FlushTable
  <2> DEFINE f == FlushWrite(cn, Room(c), Broken(c))
             dropped == FileOf(c, cn) \ FileOf(c, f.conn)
  <2>5. ConnBecomes(c, f.conn, dropped)
    BY <2>1 DEF Flush
  <2> HIDE DEF f, dropped
  <2> QED
    BY <2>1, <2>2, <2>4, <2>5, ConnBacklog
<1>5. ASSUME NEW c \in Clients, Write(c) PROVE BacklogIsAnnounced'
  <2>1. /\ pc = "write" /\ c = connections_[event.fd] /\ Flush(c, conn[c], "batch", "disarm")
        /\ UNCHANGED <<batch, backlog, connections_>>
    BY <1>5 DEF Write, IfUnsent, LoopKeeps
  <2>2. event.fd \in DOMAIN connections_ /\ Sealed(c) /\ conn[c].state # "None"
        /\ (conn[c].fd = event.fd \/ conn[c].state = "Closed")
    BY <2>1 DEF TableInv, Control, Handling, Lives, Table
  <2>3. Connected(conn[c]) /\ event.fd # NoFd
    BY <2>2, FdsApart DEF TableInv, ClientsTyped, LoopTyped
  <2>4. /\ conn[c].fd = NoFd => HasUnsent(conn[c])
        /\ conn[c].state = "Closed" => conn[c].fd = NoFd
        /\ conn[c].state \notin {"None", "Destroyed"} \/ conn[c].fd = NoFd
    BY <2>2, <2>3 DEF TableInv, Lives, Sealed, HasUnsent
  <2>5. \A d \in Clients : peer'[d].connected = peer[d].connected
    BY <2>1, <2>2, <2>3, <2>4, FlushTable
  <2> DEFINE f == FlushWrite(conn[c], Room(c), Broken(c))
             dropped == FileOf(c, conn[c]) \ FileOf(c, f.conn)
  <2>6. ConnBecomes(c, f.conn, dropped)
    BY <2>1 DEF Flush
  <2> HIDE DEF f, dropped
  <2> QED
    BY <2>1, <2>2, <2>5, <2>6, ConnBacklog
<1>6. CASE Arm \/ Disarm
  <2>1. pc \in {"arm", "disarm"} /\ UNCHANGED <<conn, backlog, peer>>
    BY <1>6 DEF Arm, Disarm, LoopKeeps
  <2>2. PICK fd : fd # ListenFd /\ ((pc = "arm" /\ fd = conn[request[1]].fd)
                                    \/ (pc = "disarm" /\ fd = event.fd))
    <3>1. pc = "arm" => conn[request[1]].fd # ListenFd
      BY ClientOfRequest, OpenIsClientFd, FdsApart DEF TableInv, LoopTyped, NoFd, ListenFd
    <3>2. pc = "disarm" => event.fd # ListenFd
      BY FdsApart DEF TableInv, LoopTyped, Control, Handling
    <3> QED
      BY <2>1, <3>1, <3>2
  <2>3. pc' # "unwind" =>
            /\ interest' \in {[interest EXCEPT ![fd] = "in"], [interest EXCEPT ![fd] = "inout"]}
            /\ ready \subseteq ready' /\ batch' = batch
    BY <1>6, <2>2 DEF Arm, Disarm, Register, Throw, Goto
  <2>4. CASE pc' = "unwind"
    BY <2>4 DEF BacklogIsAnnounced
  <2>5. CASE pc' # "unwind"
    <3>1. interest'[ListenFd] = interest[ListenFd]
      BY <2>2, <2>3, <2>5, FdsApart DEF TableInv, EpollTyped
    <3>2. batch' = batch /\ ready \subseteq ready'
      BY <2>3, <2>5
    <3> QED
      BY <2>1, <3>1, <3>2, QuietBacklog
  <2> QED
    BY <2>4, <2>5
<1> QED
  BY <1>1, <1>2, <1>3, <1>4, <1>5, <1>6

LEMMA NextKeepsBacklog ==
    ASSUME TableInv, BacklogIsAnnounced, [Next]_vars
    PROVE  BacklogIsAnnounced'
<1>1. CASE Reap
  <2>1. /\ pc = "batch" /\ batch = {} /\ UNCHANGED <<batch, conn, backlog, peer>>
        /\ interest' = [fd \in Fds |-> IF fd \in Dead THEN "none" ELSE interest[fd]]
        /\ ready' = ready \ Dead
    BY <1>1 DEF Reap, LoopKeeps
  <2>2. ListenFd \in Fds \ Dead
    BY FdsApart DEF Dead, TableInv, LoopTyped
  <2> QED
    BY <2>1, <2>2, QuietBacklog
<1>2. CASE Leave \/ Joined
  <2>1. pc' = "join" \/ interest'[ListenFd] = "none"
    BY <1>2, FdsApart DEF Leave, Joined, Goto
  <2> QED
    BY <2>1 DEF BacklogIsAnnounced
<1>3. CASE UNCHANGED vars
  <2>1. UNCHANGED <<pc, batch, conn, interest, ready, backlog, peer>>
    BY <1>3 DEF vars, loopVars, epollVars
  <2> QED
    BY <2>1 DEF BacklogIsAnnounced, AcceptAborted
<1>4. ASSUME NEW e \in batch, HandleListen(e) \/ HandleWakeup(e) \/ HandleClosed(e) \/ HandleIo(e)
      PROVE  BacklogIsAnnounced'
  BY <1>4, HandleKeepsBacklog
<1>5. CASE LoopStep
  BY <1>1, <1>2, <1>4, <1>5, StartUpKeepsBacklog, PollKeepsBacklog, AcceptKeepsBacklog,
     ServeKeepsBacklog DEF LoopStep
<1> QED
  BY <1>3, <1>5, EnvironmentKeepsBacklog, WorkerKeepsBacklog DEF Next, Terminated

(* No client is forgotten in the backlog: the listening socket is watched     *)
(* edge-triggered from after listen() on, and a connection that waits is      *)
(* announced or being accepted - unless accept4 has once failed with          *)
(* ECONNABORTED, after which accept_new_connections() has stopped early       *)
(* (event_loop.cpp:19-34 and 63-84, socket.cpp, Socket::accept).              *)
THEOREM BacklogNeverStuck == Spec => []BacklogIsAnnounced
<1>1. Init => BacklogIsAnnounced
  BY DEF Init, BacklogIsAnnounced
<1>2. TableInv /\ BacklogIsAnnounced /\ [Next]_vars => BacklogIsAnnounced'
  BY NextKeepsBacklog
<1> QED
  BY <1>1, <1>2, TableInvariant, PTL DEF Spec

=============================================================================
