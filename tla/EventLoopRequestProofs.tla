----------------------- MODULE EventLoopRequestProofs -----------------------
(***************************************************************************)
(* The way of a request and of its file through the running server, for    *)
(* any clients and scripts, numbers of workers and descriptors, and all    *)
(* capacities: one place at a time, one owner of the open file, and the    *)
(* units of every answer in order at the client.                           *)
(***************************************************************************)
EXTENDS EventLoopTableProofs, FiniteSetTheorems

(* The pool and the way out *)
Ends ==
    /\ closed_ => pc \in {"join", "unwind", "done", "dead"}
    /\ \A w \in Workers : worker[w].pc = "exited" => closed_ /\ queue_ = <<>>
    /\ Ended => queue_ = <<>>

(* The loop answers a malformed request itself, and no other. *)
AnswersBad == pc = "post" => Kind(request) = "bad"

(* What is queued on a connection, and what its client has got of it. *)
Wanted(c) == 1 .. Len(Script[c])
Headers(r) == <<r, 0>>

Queued(cn, c) == \A k \in DOMAIN cn.write_buf : \E r \in Wanted(c) : cn.write_buf[k] = Headers(r)

Ordered(got) ==
    /\ \A p, q \in DOMAIN got : p < q /\ got[p][1] = got[q][1] => got[p][2] < got[q][2]
    /\ \A p \in DOMAIN got : \E q \in DOMAIN got : got[q] = Headers(got[p][1])

Sending(cn, c, got) ==
    cn.sendfile_op.r # 0 =>
        /\ cn.sendfile_op.r \in Wanted(c) /\ IsFile(<<c, cn.sendfile_op.r>>)
        /\ Count(cn.write_buf, Headers(cn.sendfile_op.r)) + Count(got, Headers(cn.sendfile_op.r)) > 0
        /\ \A p \in DOMAIN got : got[p][1] = cn.sendfile_op.r => got[p][2] <= cn.sendfile_op.offset

Streams ==
    \A c \in Clients :
        /\ Queued(conn[c], c) /\ Ordered(peer[c].got) /\ Sending(conn[c], c, peer[c].got)
        /\ conn[c].state = "None" => conn[c].write_buf = <<>>
        /\ conn[c].fd = NoFd => conn[c].sendfile_op.r = 0
        /\ conn[c].fd = NoFd /\ conn[c].state # "Closed" => conn[c].write_buf = <<>>

(* The sum of Places, by name, and with the copies counted that a closed      *)
(* socket or a dead connection's buffer still has.                            *)
Copies(req) ==
    LET c == req[1]
        headers == Headers(req[2])
    IN  Count(peer[c].inbox, req[2])
        + (IF pc \in {"submit", "post"} /\ request = req THEN 1 ELSE 0)
        + (IF Ended THEN 0 ELSE Count(queue_, req))
        + Cardinality({w \in Workers : worker[w].pc \in {"run", "post"} /\ worker[w].req = req})
        + Count(pending_writes_, req)
        + Count(conn[c].write_buf, headers) + Count(peer[c].got, headers)

(* There is one copy of a request, or none and for one of the reasons. *)
PlacedAt(req) ==
    /\ \/ Copies(req) = 1 /\ req \notin lost
       \/ /\ req[2] > peer[req[1]].asked \/ req \in lost
             \/ Kind(req) = "throw" \/ conn[req[1]].state = "Closed"
          /\ Copies(req) = 0
    /\ req[2] > peer[req[1]].asked => Copies(req) = 0 /\ req \notin lost

Placed == \A req \in Requests : PlacedAt(req)

Arrived(req) == Count(peer[req[1]].inbox, req[2])
InHands(req) == IF pc \in {"submit", "post"} /\ request = req THEN 1 ELSE 0
AtWorkers(req) ==
    Cardinality({w \in Workers : worker[w].pc \in {"run", "post"} /\ worker[w].req = req})
Answered(req) ==
    Count(conn[req[1]].write_buf, Headers(req[2])) + Count(peer[req[1]].got, Headers(req[2]))

(* An open file has one owner as long as the loop lives; what is open when it *)
(* is gone belongs to a response destroyed unsent.                            *)
Owned ==
    \A req \in Requests :
        IsFile(req) => FileOwners(req) = IF req \in openFiles THEN 1 ELSE 0

Abandoned ==
    \A req \in Requests :
        IsFile(req) => FileOwners(req) = 0 /\ (req \in openFiles => req \in lost)

RequestInv ==
    Ends /\ AnswersBad /\ Streams /\ Placed /\ (IF Ended THEN Abandoned ELSE Owned)
-----------------------------------------------------------------------------
(* Counting *)

LEMMA CountFinite ==
    ASSUME NEW S, NEW s \in Seq(S), NEW x
    PROVE  /\ IsFiniteSet({k \in DOMAIN s : s[k] = x})
           /\ Count(s, x) \in Nat
           /\ Count(s, x) = 0 <=> \A k \in DOMAIN s : s[k] # x
<1> DEFINE at == {k \in DOMAIN s : s[k] = x}
<1>1. IsFiniteSet(1 .. Len(s)) /\ at \in SUBSET (1 .. Len(s))
  BY FS_Interval
<1>2. IsFiniteSet(at)
  BY <1>1, FS_Subset
<1>3. Cardinality(at) \in Nat /\ (Cardinality(at) = 0 <=> at = {})
  BY <1>2, FS_CardinalityType, FS_EmptySet
<1>4. Count(s, x) = Cardinality(at)
  BY DEF Count
<1>5. at = {} <=> \A k \in DOMAIN s : s[k] # x
  OBVIOUS
<1> HIDE DEF at
<1>6. /\ IsFiniteSet(at) /\ Count(s, x) \in Nat
      /\ Count(s, x) = 0 <=> \A k \in DOMAIN s : s[k] # x
  BY <1>2, <1>3, <1>4, <1>5
<1> QED
  BY <1>6 DEF at

LEMMA CountShifted ==
    ASSUME NEW S, NEW t \in Seq(S), NEW x, NEW n \in Nat
    PROVE  /\ IsFiniteSet({n + k : k \in {j \in DOMAIN t : t[j] = x}})
           /\ Cardinality({n + k : k \in {j \in DOMAIN t : t[j] = x}}) = Count(t, x)
<1> DEFINE at == {j \in DOMAIN t : t[j] = x}
           moved == {n + k : k \in at}
           move == [k \in at |-> n + k]
<1>0. IsFiniteSet({j \in DOMAIN t : t[j] = x})
  BY CountFinite
<1>1. IsFiniteSet(at) /\ at \subseteq Nat
  BY <1>0
<1> HIDE DEF at
<1>2. move \in Bijection(at, moved)
  <2>1. move \in [at -> moved] /\ \A y \in moved : \E k \in at : move[k] = y
    <3>1. move \in [at -> moved] /\ \A k \in at : move[k] = n + k
      OBVIOUS
    <3>2. ASSUME NEW y \in moved PROVE \E k \in at : move[k] = y
      BY <3>1
    <3> QED
      BY <3>1, <3>2
  <2>2. \A i, k \in at : move[i] = move[k] => i = k
    BY <1>1
  <2> HIDE DEF move, moved
  <2> QED
    BY <2>1, <2>2 DEF Bijection, Injection, Surjection, IsInjective
<1>3. IsFiniteSet(moved) /\ Cardinality(moved) = Cardinality(at)
  BY <1>1, <1>2, FS_Bijection DEF ExistsBijection
<1> QED
  BY <1>3 DEF at, Count

LEMMA CountConcat ==
    ASSUME NEW S, NEW s \in Seq(S), NEW t \in Seq(S), NEW x
    PROVE  Count(s \o t, x) = Count(s, x) + Count(t, x)
<1> DEFINE left == {k \in DOMAIN s : s[k] = x}
           right == {Len(s) + k : k \in {j \in DOMAIN t : t[j] = x}}
           all == {k \in DOMAIN (s \o t) : (s \o t)[k] = x}
<1>1. IsFiniteSet(left) /\ IsFiniteSet(right) /\ Cardinality(right) = Count(t, x)
  <2>1. Len(s) \in Nat
    OBVIOUS
  <2>2. IsFiniteSet({k \in DOMAIN s : s[k] = x})
    BY CountFinite
  <2>3. /\ IsFiniteSet({Len(s) + k : k \in {j \in DOMAIN t : t[j] = x}})
        /\ Cardinality({Len(s) + k : k \in {j \in DOMAIN t : t[j] = x}}) = Count(t, x)
    BY <2>1, CountShifted
  <2> QED
    BY <2>2, <2>3
<1>2. all = left \cup right
  <2>1. /\ DOMAIN (s \o t) = 1 .. (Len(s) + Len(t)) /\ Len(s) \in Nat /\ Len(t) \in Nat
        /\ DOMAIN s = 1 .. Len(s) /\ DOMAIN t = 1 .. Len(t)
    OBVIOUS
  <2>2. \A k \in DOMAIN s : (s \o t)[k] = s[k]
    OBVIOUS
  <2>3. \A k \in DOMAIN t : (s \o t)[Len(s) + k] = t[k]
    OBVIOUS
  <2>4. \A k \in DOMAIN (s \o t) : k \in DOMAIN s \/ (k - Len(s) \in DOMAIN t /\ k = Len(s) + (k - Len(s)))
    BY <2>1
  <2>5. all \subseteq left \cup right
    <3> SUFFICES ASSUME NEW k \in all PROVE k \in left \cup right
      OBVIOUS
    <3>1. CASE k \in DOMAIN s
      BY <3>1, <2>2
    <3>2. CASE k - Len(s) \in DOMAIN t /\ k = Len(s) + (k - Len(s))
      <4>1. t[k - Len(s)] = x
        BY <3>2, <2>3
      <4> QED
        BY <3>2, <4>1
    <3> QED
      BY <3>1, <3>2, <2>4
  <2>6. left \subseteq all
    BY <2>1, <2>2
  <2>7. right \subseteq all
    <3> SUFFICES ASSUME NEW j \in DOMAIN t, t[j] = x PROVE Len(s) + j \in all
      OBVIOUS
    <3> QED
      BY <2>1, <2>3
  <2> QED
    BY <2>5, <2>6, <2>7
<1>3. left \cap right = {}
  OBVIOUS
<1> HIDE DEF left, right, all
<1>4. Cardinality(all) = Cardinality(left) + Cardinality(right) - Cardinality({})
  BY <1>1, <1>2, <1>3, FS_Union
<1>5. Cardinality({}) = 0 /\ Cardinality(left) \in Nat /\ Cardinality(right) \in Nat
  BY <1>1, FS_EmptySet, FS_CardinalityType
<1>6. Cardinality(left) = Count(s, x) /\ Cardinality(all) = Count(s \o t, x)
  BY DEF left, all, Count
<1> QED
  BY <1>1, <1>4, <1>5, <1>6

LEMMA CountOne ==
    ASSUME NEW e, NEW x
    PROVE  Count(<<e>>, x) = IF e = x THEN 1 ELSE 0
<1>1. {k \in DOMAIN <<e>> : <<e>>[k] = x} = IF e = x THEN {1} ELSE {}
  OBVIOUS
<1> QED
  BY <1>1, FS_Singleton, FS_EmptySet DEF Count

LEMMA CountAppend ==
    ASSUME NEW S, NEW s \in Seq(S), NEW e \in S, NEW x
    PROVE  Count(Append(s, e), x) = Count(s, x) + (IF e = x THEN 1 ELSE 0)
<1>1. Append(s, e) = s \o <<e>> /\ <<e>> \in Seq(S)
  OBVIOUS
<1>2. Count(s \o <<e>>, x) = Count(s, x) + Count(<<e>>, x)
  BY <1>1, CountConcat
<1>3. Count(<<e>>, x) = IF e = x THEN 1 ELSE 0
  BY CountOne
<1> QED
  BY <1>1, <1>2, <1>3

LEMMA CountSplit ==
    ASSUME NEW S, NEW s \in Seq(S), NEW n \in 0 .. Len(s), NEW x
    PROVE  Count(s, x) = Count(SubSeq(s, 1, n), x) + Count(SubSeq(s, n + 1, Len(s)), x)
<1> DEFINE front == SubSeq(s, 1, n)
           rest == SubSeq(s, n + 1, Len(s))
<1>1. /\ front \in Seq(S) /\ Len(front) = n /\ (\A i \in 1 .. n : front[i] = s[i])
      /\ rest \in Seq(S) /\ Len(rest) = Len(s) - n /\ (\A i \in 1 .. (Len(s) - n) : rest[i] = s[n + i])
  BY SplitSeq
<1> HIDE DEF front, rest
<1>2. front \o rest = s
  <2>1. /\ front \o rest \in Seq(S) /\ Len(front \o rest) = Len(front) + Len(rest)
        /\ \A j \in 1 .. Len(front) : (front \o rest)[j] = front[j]
        /\ \A j \in 1 .. Len(rest) : (front \o rest)[Len(front) + j] = rest[j]
    BY <1>1
  <2> DEFINE both == front \o rest
             len == Len(s)
  <2> HIDE DEF both
  <2>2. /\ both \in Seq(S) /\ Len(both) = Len(s) /\ n \in Nat /\ len \in Nat
        /\ \A j \in 1 .. n : both[j] = s[j]
        /\ \A j \in 1 .. (len - n) : both[n + j] = s[n + j]
    BY <1>1, <2>1 DEF both
  <2> HIDE DEF len
  <2>3. ASSUME NEW i \in 1 .. len PROVE both[i] = s[i]
    <3>1. CASE i <= n
      BY <2>2, <3>1
    <3>2. CASE i > n
      <4>1. i - n \in 1 .. (len - n) /\ n + (i - n) = i
        BY <2>2, <3>2
      <4>2. both[n + (i - n)] = s[n + (i - n)]
        BY <2>2, <4>1
      <4> QED
        BY <4>1, <4>2
    <3> QED
      BY <2>2, <3>1, <3>2
  <2>4. both = s
    BY <2>2, <2>3 DEF len
  <2> QED
    BY <2>4 DEF both
<1>3. Count(front \o rest, x) = Count(front, x) + Count(rest, x)
  BY <1>1, CountConcat
<1> QED
  BY <1>2, <1>3 DEF front, rest

LEMMA CountTail ==
    ASSUME NEW S, NEW s \in Seq(S), s # <<>>, NEW x
    PROVE  Count(s, x) = Count(Tail(s), x) + (IF Head(s) = x THEN 1 ELSE 0)
<1> DEFINE h == Head(s)
           t == Tail(s)
<1>1. s = <<h>> \o t /\ t \in Seq(S) /\ <<h>> \in Seq(S)
  OBVIOUS
<1> HIDE DEF h, t
<1>2. Count(<<h>> \o t, x) = Count(<<h>>, x) + Count(t, x)
  BY <1>1, CountConcat
<1>3. Count(t, x) \in Nat
  BY <1>1, CountFinite
<1>4. Count(<<h>>, x) = IF h = x THEN 1 ELSE 0
  BY CountOne
<1>5. Count(s, x) = Count(<<h>> \o t, x)
  BY <1>1
<1>6. Count(s, x) = Count(t, x) + (IF h = x THEN 1 ELSE 0)
  BY <1>2, <1>3, <1>4, <1>5
<1> QED
  BY <1>6 DEF h, t

LEMMA CountTwice ==
    ASSUME NEW S, NEW s \in Seq(S), NEW j \in DOMAIN s, NEW k \in DOMAIN s, j # k, s[j] = s[k]
    PROVE  Count(s, s[j]) > 1
<1> DEFINE at == {i \in DOMAIN s : s[i] = s[j]}
           one == {j}
<1>1. IsFiniteSet(at) /\ {j, k} \in SUBSET at
  BY CountFinite
<1>2. IsFiniteSet(one) /\ Cardinality(one) = 1 /\ k \notin one
  BY FS_Singleton
<1>3. {j, k} = one \cup {k}
  OBVIOUS
<1> HIDE DEF at, one
<1>4. Cardinality(one \cup {k}) = 2
  <2>1. Cardinality(one \cup {k}) = IF k \in one THEN Cardinality(one) ELSE Cardinality(one) + 1
    BY <1>2, FS_AddElement
  <2> DEFINE both == Cardinality(one \cup {k})
             single == Cardinality(one)
  <2>2. both = IF k \in one THEN single ELSE single + 1
    BY <2>1
  <2>3. single = 1
    BY <1>2
  <2> HIDE DEF both, single
  <2>4. both = 2
    BY <1>2, <2>2, <2>3
  <2> QED
    BY <2>4 DEF both
<1>5. 2 <= Cardinality(at) /\ Cardinality(at) \in Nat
  BY <1>1, <1>3, <1>4, FS_Subset, FS_CardinalityType
<1> QED
  BY <1>5 DEF at, Count

-----------------------------------------------------------------------------
(* The way out *)

LEMMA SomeWorker == 1 \in Workers
BY EventLoopAssumption DEF Workers

LEMMA StartUpEnters ==
    ASSUME StartUp, ~StartFails
    PROVE  \E from, to : /\ Enter(from, to) /\ StartingUp
                         /\ to \notin {"done", "dead", "submit", "post"}
                         /\ worker' = worker \/ worker' = [w \in Workers |-> [pc |-> "pop", req |-> NoRequest]]
<1>1. CASE StartPool
  BY <1>1 DEF StartPool, Enter, StartingUp, Constructing
<1>2. CASE ~StartPool
  BY <1>2 DEF StartUp, MakeTcp, CreateEpoll, SetOptions, Bind, Listen, AddListen,
     AddWakeup, InstallHandlers, BuildRouter, Run, Pass, Enter, StartingUp, Constructing
<1> QED
  BY <1>1, <1>2

LEMMA LoopKeepsEnds ==
    ASSUME TableInv, Ends, LoopStep
    PROVE  Ends'
<1>1. CASE StartUp
  <2>1. CASE StartFails
    <3>1. StartingUp /\ ~closed_ /\ queue_ = <<>> /\ queue_' = queue_ /\ worker' = worker
      BY <2>1 DEF StartFails, TableInv, Control, Ends, StartingUp, Constructing
    <3>2. pc' \in {"dead", "unwind"}
      BY <2>1 DEF StartFails, Goto
    <3> QED
      BY <3>1, <3>2 DEF Ends
  <2>2. CASE ~StartFails
    <3>0. PICK from, to : /\ Enter(from, to) /\ StartingUp /\ to \notin {"done", "dead"}
                          /\ worker' = worker \/ worker' = [w \in Workers |-> [pc |-> "pop", req |-> NoRequest]]
      BY <1>1, <2>2, StartUpEnters
    <3>1. /\ UNCHANGED <<closed_, queue_>> /\ StartingUp /\ pc' \notin {"done", "dead"}
          /\ worker' = worker \/ \A w \in Workers : worker'[w].pc = "pop"
      BY <3>0 DEF Enter, Goto
    <3>2. ~closed_
      BY <3>1 DEF Ends, StartingUp, Constructing
    <3> QED
      BY <3>1, <3>2 DEF Ends, Ended
  <2> QED
    BY <2>1, <2>2
<1>2. ASSUME pc \notin {"join", "unwind", "done", "dead"}, UNCHANGED <<queue_, worker>>,
             \/ closed_' = closed_ /\ pc' \notin {"done", "dead"}
             \/ pc' \in {"join", "unwind"}
      PROVE  Ends'
  BY <1>2 DEF Ends, Ended
<1>3. CASE Poll \/ Reap \/ AcceptNothing \/ AcceptOne \/ AcceptThrows
  BY <1>2, <1>3 DEF Poll, Reap, AcceptNothing, AcceptOne, AcceptThrows, Accepting, Throw, ClosePool,
                    Goto, poolVars
<1>4. ASSUME NEW e \in batch, HandleListen(e) \/ HandleWakeup(e) \/ HandleClosed(e) \/ HandleIo(e)
      PROVE  Ends'
  BY <1>2, <1>4 DEF Handle, HandleListen, HandleWakeup, HandleClosed, HandleIo, Goto, poolVars
<1>5. ASSUME NEW c \in Clients, ReadRequest(c) \/ ReadEnds(c) \/ ReadAgain(c) PROVE Ends'
  BY <1>2, <1>5 DEF Reading, ReadRequest, ReadEnds, ReadAgain, Goto, poolVars
<1>6. ASSUME NEW c \in Clients, Write(c) PROVE Ends'
  <2>1. /\ pc = "write" /\ UNCHANGED <<queue_, worker, closed_>> /\ pc' \in {"batch", "disarm"}
    BY <1>6 DEF Write, Flush, Goto, IfUnsent, poolVars
  <2> QED
    BY <1>2, <2>1
<1>7. CASE Submit
  <2>1. pc = "submit" /\ UNCHANGED <<closed_, worker>> /\ pc' = "read"
    BY <1>7 DEF Submit, NextRecv, Goto
  <2> QED
    BY <2>1 DEF Ends, Ended
<1>8. CASE PostError \/ DrainEnds \/ Arm \/ Disarm \/ Leave
  BY <1>2, <1>8 DEF PostError, DrainEnds, Draining, Arm, Disarm, Leave, Throw, ClosePool, NextRecv,
                    Goto, poolVars
<1>9. ASSUME NEW req \in Requests, DrainDead(req) \/ DrainWrite(req) PROVE Ends'
  <2>1. pc = "drain" /\ UNCHANGED <<queue_, worker, closed_>> /\ pc' \in {"arm", "drain"}
    BY <1>9 DEF DrainDead, DrainWrite, Draining, Flush, Goto, NextPending, poolVars
  <2> QED
    BY <1>2, <2>1
<1>10. CASE Joined
  <2>1. /\ pc' \in {"done", "dead"} /\ UNCHANGED <<queue_, closed_, worker>>
        /\ \A w \in Workers : worker[w].pc = "exited"
    BY <1>10 DEF Joined, Goto, poolVars
  <2>2. queue_ = <<>>
    BY <2>1, SomeWorker DEF Ends
  <2> QED
    BY <2>1, <2>2 DEF Ends
<1> QED
  BY <1>1, <1>3, <1>4, <1>5, <1>6, <1>7, <1>8, <1>9, <1>10 DEF LoopStep

LEMMA NextKeepsEnds ==
    ASSUME TableInv, Ends, [Next]_vars
    PROVE  Ends'
<1>1. ASSUME NEW w \in Workers, WorkerStep(w) PROVE Ends'
  <2> DEFINE moves(label) == \E req : WorkerMoves(w, label, req)
  <2>1. pc' = pc /\ closed_' = closed_
    BY <1>1 DEF WorkerStep, WorkerTake, WorkerExit, HandlerThrows, HandlerReturns, WorkerPost,
                WorkerNotify, WorkerMoves, loopVars
  <2>2. CASE WorkerTake(w)
    <3>1. queue_ # <<>> /\ moves("run")
      BY <2>2 DEF WorkerTake
    <3>2. \A v \in Workers : worker'[v].pc # "exited"
      BY <3>1 DEF WorkerMoves, Ends, TableInv, PoolTyped
    <3> QED
      BY <2>1, <3>1, <3>2 DEF Ends, Ended
  <2>3. CASE WorkerExit(w)
    <3>1. closed_ /\ queue_ = <<>> /\ queue_' = queue_
      BY <2>3 DEF WorkerExit, PopEnds
    <3> QED
      BY <2>1, <3>1 DEF Ends, Ended
  <2>4. CASE ~WorkerTake(w) /\ ~WorkerExit(w)
    <3>1. queue_' = queue_ /\ (moves("pop") \/ moves("post") \/ moves("notify"))
      BY <1>1, <2>4 DEF WorkerStep, HandlerThrows, HandlerReturns, WorkerPost, WorkerNotify
    <3>2. \A v \in Workers : worker'[v].pc = "exited" => worker[v].pc = "exited"
      BY <3>1 DEF WorkerMoves, TableInv, PoolTyped
    <3> QED
      BY <2>1, <3>1, <3>2 DEF Ends, Ended
  <2> QED
    BY <2>2, <2>3, <2>4
<1>2. CASE Environment \/ UNCHANGED vars
  <2>1. UNCHANGED <<pc, closed_, worker, queue_>>
    BY <1>2 DEF Environment, Connect, SendRequest, ReadResponse, Fin, Rst, Signal, ServerUntouched,
                vars, loopVars, poolVars
  <2> QED
    BY <2>1 DEF Ends, Ended
<1> QED
  BY <1>1, <1>2, LoopKeepsEnds DEF Next, Terminated

LEMMA NextKeepsAnswersBad ==
    ASSUME TableInv, AnswersBad, [Next]_vars
    PROVE  AnswersBad'
<1>1. ASSUME NEW c \in Clients, ReadRequest(c) PROVE AnswersBad'
  <2> DEFINE req == <<c, Head(peer[c].inbox)>>
  <2>1. request' = req /\ pc' = IF Kind(req) = "bad" THEN "post" ELSE "submit"
    BY <1>1 DEF ReadRequest, Goto
  <2> HIDE DEF req
  <2>2. Kind(request)' = Kind(req)
    BY <2>1 DEF Kind
  <2> QED
    BY <2>1, <2>2 DEF AnswersBad
<1>2. ASSUME pc' # "post" \/ (pc' = pc /\ request' = request)
      PROVE  AnswersBad'
  <2>1. CASE pc' # "post"
    BY <2>1 DEF AnswersBad
  <2>2. CASE pc' = pc /\ request' = request
    <3>1. Kind(request)' = Kind(request)
      BY <2>2 DEF Kind
    <3> QED
      BY <2>2, <3>1 DEF AnswersBad
  <2> QED
    BY <1>2, <2>1, <2>2
<1>3. CASE StartUp
  <2>1. CASE StartFails
    BY <1>2, <2>1 DEF StartFails, Goto
  <2>2. CASE ~StartFails
    <3>1. PICK from, to : Enter(from, to) /\ to \notin {"submit", "post"}
      BY <1>3, <2>2, StartUpEnters
    <3> QED
      BY <1>2, <3>1 DEF Enter, Goto
  <2> QED
    BY <2>1, <2>2
<1>4. CASE \/ Poll \/ Reap \/ AcceptNothing \/ AcceptOne \/ AcceptThrows
           \/ Submit \/ PostError \/ DrainEnds \/ Arm \/ Disarm \/ Leave \/ Joined
  <2>1. pc' # "post"
    BY <1>4 DEF Poll, Reap, AcceptNothing, AcceptOne, AcceptThrows, Accepting, Throw, Submit, PostError,
                NextRecv, DrainEnds, Draining, Arm, Disarm, Leave, Joined, Goto
  <2> QED
    BY <1>2, <2>1
<1>5. ASSUME NEW e \in batch, HandleListen(e) \/ HandleWakeup(e) \/ HandleClosed(e) \/ HandleIo(e)
      PROVE  AnswersBad'
  <2>1. pc' # "post"
    BY <1>5 DEF Handle, HandleListen, HandleWakeup, HandleClosed, HandleIo, Goto
  <2> QED
    BY <1>2, <2>1
<1>6. ASSUME NEW c \in Clients, ReadEnds(c) \/ ReadAgain(c) \/ Write(c) PROVE AnswersBad'
  <2>1. pc' # "post"
    BY <1>6 DEF ReadEnds, ReadAgain, Write, Flush, IfUnsent, Goto
  <2> QED
    BY <1>2, <2>1
<1>7. ASSUME NEW req \in Requests, DrainDead(req) \/ DrainWrite(req) PROVE AnswersBad'
  <2>1. pc' # "post"
    BY <1>7 DEF DrainDead, DrainWrite, Draining, Flush, NextPending, Goto
  <2> QED
    BY <1>2, <2>1
<1>8. CASE (\E w \in Workers : WorkerStep(w)) \/ Environment \/ UNCHANGED vars
  <2>1. pc' = pc /\ request' = request
    BY <1>8 DEF WorkerStep, WorkerTake, WorkerExit, HandlerThrows, HandlerReturns, WorkerPost,
                WorkerNotify, WorkerMoves, Environment, Connect, SendRequest, ReadResponse, Fin, Rst,
                Signal, ServerUntouched, vars, loopVars
  <2> QED
    BY <1>2, <2>1
<1> QED
  BY <1>1, <1>3, <1>4, <1>5, <1>6, <1>7, <1>8 DEF Next, LoopStep, Terminated

-----------------------------------------------------------------------------
(* The units of an answer, through flush_write() *)

Once(cn, c, got) ==
    \A r \in Wanted(c) : Count(cn.write_buf, Headers(r)) + Count(got, Headers(r)) <= 1

(* What is sent: a piece of the buffer, then, if that was all, of the file. *)
(* What flush_write() makes of a connection when it takes n of the queued *)
(* headers and m of the file's units.                                      *)
FlushedParts(cn, f, n, m) ==
    LET op == cn.sendfile_op
    IN  /\ f.conn.write_buf = SubSeq(cn.write_buf, n + 1, Len(cn.write_buf))
        /\ f.sent = SubSeq(cn.write_buf, 1, n) \o FileUnits(op, m)
        /\ m > 0 => op.r # 0 /\ n = Len(cn.write_buf)
        /\ m <= op.remaining
        /\ f.conn.sendfile_op.r # 0 =>
               /\ f.conn.sendfile_op.r = op.r /\ f.conn.sendfile_op.offset = op.offset + m
               /\ f.conn.sendfile_op.remaining = op.remaining - m
               /\ f.conn.write_buf = <<>> => f.conn.sendfile_op.remaining > 0

LEMMA FlushParts ==
    ASSUME NEW cn, Connected(cn), NEW room \in Nat, NEW broken, ~(broken /\ HasUnsent(cn))
    PROVE  \E n \in 0 .. Len(cn.write_buf), m \in Nat :
               FlushedParts(cn, FlushWrite(cn, room, broken), n, m)
<1> DEFINE op == cn.sendfile_op
           all == Len(cn.write_buf)
           fromBuf == Smaller(all, room)
           buf == SubSeq(cn.write_buf, fromBuf + 1, all)
           fromFile == IF buf = <<>> THEN Smaller(Deliverable(op), room - fromBuf) ELSE 0
           rest == [op EXCEPT !.offset = @ + fromFile, !.remaining = @ - fromFile]
           drained == buf = <<>> /\ ~Active(rest)
           sendfile == IF drained THEN NoSendfile ELSE rest
           state == IF drained THEN IF cn.keep_alive THEN "Reading" ELSE "Closing" ELSE cn.state
           sent == SubSeq(cn.write_buf, 1, fromBuf) \o FileUnits(op, fromFile)
           f == FlushWrite(cn, room, broken)
<1>1. /\ f.conn = [cn EXCEPT !.write_buf = buf, !.sendfile_op = sendfile, !.state = state]
      /\ f.sent = sent
  BY DEF FlushWrite
<1>2. /\ cn.write_buf \in Seq(Units) /\ all \in Nat
      /\ op \in [r : Nat, offset : Nat, remaining : Nat, length : Nat] /\ op.offset <= op.length
  BY DEF Connected, Operation
<1>3. fromBuf \in 0 .. all /\ fromBuf <= room
  BY <1>2 DEF Smaller
<1> HIDE DEF fromBuf
<1>4. buf = <<>> => fromBuf = all
  <2>1. Len(buf) = all - fromBuf
    BY <1>2, <1>3, SplitSeq
  <2> HIDE DEF buf, all
  <2>2. buf = <<>> => Len(buf) = 0
    OBVIOUS
  <2> QED
    BY <1>2, <1>3, <2>1, <2>2
<1> HIDE DEF all, buf, op
<1>5. Deliverable(op) \in Nat /\ (Deliverable(op) > 0 => op.r # 0) /\ Deliverable(op) <= op.remaining
  BY <1>2 DEF Deliverable, Active, Smaller
<1>6. fromFile \in Nat /\ (fromFile > 0 => op.r # 0 /\ fromBuf = all) /\ fromFile <= op.remaining
  BY <1>2, <1>3, <1>4, <1>5 DEF Smaller
<1> HIDE DEF fromFile
<1>7. rest.r = op.r /\ rest.offset = op.offset + fromFile /\ rest.remaining = op.remaining - fromFile
  <2> DEFINE q == [op EXCEPT !.offset = op.offset + fromFile]
             left == op.remaining - fromFile
  <2>1. rest = [q EXCEPT !.remaining = left]
    BY <1>2
  <2>2. q = [r |-> op.r, offset |-> op.offset + fromFile, remaining |-> op.remaining,
             length |-> op.length]
    BY <1>2
  <2> HIDE DEF rest, q, left
  <2>3. rest = [r |-> op.r, offset |-> op.offset + fromFile, remaining |-> left, length |-> op.length]
    BY <2>1, <2>2
  <2>4. rest.r = op.r /\ rest.offset = op.offset + fromFile /\ rest.remaining = left
    BY <2>3
  <2> QED
    BY <2>4 DEF left
<1> HIDE DEF rest
<1>8. sendfile.r # 0 => /\ sendfile.r = op.r /\ sendfile.offset = op.offset + fromFile
                        /\ sendfile.remaining = op.remaining - fromFile
                        /\ buf = <<>> => sendfile.remaining > 0
  <2>1. CASE drained
    BY <2>1 DEF NoSendfile
  <2>2. CASE ~drained
    <3>1. sendfile = rest /\ (buf = <<>> => Active(rest))
      BY <2>2
    <3> QED
      BY <1>7, <3>1 DEF Active
  <2> QED
    BY <2>1, <2>2
<1> HIDE DEF sendfile, state, drained, sent
<1>9. f.conn = [fd |-> cn.fd, state |-> state, keep_alive |-> cn.keep_alive,
                write_buf |-> buf, sendfile_op |-> sendfile]
  BY <1>1 DEF Connected
<1> HIDE DEF f
<1>10. f.conn.write_buf = buf /\ f.conn.sendfile_op = sendfile
  BY <1>9
<1>11. FlushedParts(cn, f, fromBuf, fromFile)
  BY <1>1, <1>6, <1>8, <1>10 DEF FlushedParts, op, all, buf, sent
<1> QED
  BY <1>3, <1>6, <1>11 DEF f, all

LEMMA FileUnitsAre ==
    ASSUME NEW op, op.r \in Nat, op.offset \in Nat, NEW m \in Nat
    PROVE  /\ FileUnits(op, m) \in Seq(Units) /\ Len(FileUnits(op, m)) = m
           /\ \A k \in 1 .. m : FileUnits(op, m)[k] = <<op.r, op.offset + k>>
BY DEF FileUnits, Units

LEMMA FlushUnits ==
    ASSUME NEW c, NEW cn, Connected(cn), NEW got \in Seq(Units), NEW room \in Nat, NEW broken,
           Queued(cn, c), Ordered(got), Sending(cn, c, got), Once(cn, c, got), Wanted(c) \subseteq Nat
    PROVE  LET f == FlushWrite(cn, room, broken)
               all == got \o f.sent
           IN  /\ Queued(f.conn, c) /\ Ordered(all) /\ Sending(f.conn, c, all)
               /\ \A r : Count(f.conn.write_buf, Headers(r)) + Count(all, Headers(r))
                         = Count(cn.write_buf, Headers(r)) + Count(got, Headers(r))
               /\ f.conn.sendfile_op.r \in {0, cn.sendfile_op.r}
<1> DEFINE f == FlushWrite(cn, room, broken)
           fails == broken /\ HasUnsent(cn)
<1>1. CASE fails
  <2>1. f.conn = OnClosed(cn) /\ f.sent = <<>>
    BY <1>1, FlushFails
  <2>2. f.conn.write_buf = cn.write_buf /\ (f.conn = cn \/ f.conn.sendfile_op = NoSendfile)
    BY <2>1, OnClosedTyped
  <2> HIDE DEF f
  <2>3. got \o f.sent = got
    BY <2>1
  <2>4. f.conn.sendfile_op.r # 0 => f.conn = cn
    BY <2>2 DEF NoSendfile
  <2>5. Queued(f.conn, c)
    BY <2>2 DEF Queued
  <2>6. Sending(f.conn, c, got)
    BY <2>4 DEF Sending
  <2> QED
    BY <2>2, <2>3, <2>4, <2>5, <2>6 DEF f
<1>2. CASE ~fails
  <2> DEFINE op == cn.sendfile_op
             buf == cn.write_buf
             len == Len(buf)
             g == Len(got)
  <2>1. PICK n \in 0 .. len, m \in Nat :
                   /\ f.conn.write_buf = SubSeq(buf, n + 1, len)
                   /\ f.sent = SubSeq(buf, 1, n) \o FileUnits(op, m)
                   /\ m > 0 => op.r # 0 /\ n = len
                   /\ f.conn.sendfile_op.r # 0 =>
                          f.conn.sendfile_op.r = op.r /\ f.conn.sendfile_op.offset = op.offset + m
    <3>1. \E n \in 0 .. len, m \in Nat : FlushedParts(cn, f, n, m)
      BY <1>2, FlushParts
    <3> QED
      BY <3>1 DEF FlushedParts
  <2> DEFINE front == SubSeq(buf, 1, n)
             rest == SubSeq(buf, n + 1, len)
             units == FileUnits(op, m)
             all == got \o f.sent
  <2>2. buf \in Seq(Units) /\ len \in Nat /\ op.r \in Nat /\ op.offset \in Nat /\ g \in Nat
        /\ DOMAIN buf = 1 .. len /\ DOMAIN got = 1 .. g /\ n \in Nat
    BY DEF Connected
  <2>3. /\ front \in Seq(Units) /\ Len(front) = n /\ (\A i \in 1 .. n : front[i] = buf[i])
        /\ rest \in Seq(Units) /\ Len(rest) = len - n
        /\ (\A i \in 1 .. (len - n) : rest[i] = buf[n + i])
    BY <2>2, SplitSeq
  <2>4. /\ units \in Seq(Units) /\ Len(units) = m
        /\ \A k \in 1 .. m : units[k] = <<op.r, op.offset + k>>
    BY <2>2, FileUnitsAre
  <2>5. \A r : Count(buf, Headers(r)) = Count(front, Headers(r)) + Count(rest, Headers(r))
    BY <2>2, CountSplit
  <2> HIDE DEF front, rest, units
  <2>6. all \in Seq(Units) /\ all = got \o (front \o units)
    BY <2>1, <2>3, <2>4 DEF front, units
  <2>7. \A r : Count(all, Headers(r)) = Count(got, Headers(r)) + Count(front, Headers(r))
    <3> TAKE r
    <3>1. Count(all, Headers(r)) = Count(got, Headers(r)) + Count(front \o units, Headers(r))
      <4> DEFINE both == front \o units
      <4>1. both \in Seq(Units)
        BY <2>3, <2>4
      <4>2. all = got \o both
        BY <2>6
      <4> HIDE DEF both, all
      <4>3. Count(got \o both, Headers(r)) = Count(got, Headers(r)) + Count(both, Headers(r))
        BY <4>1, CountConcat
      <4>4. Count(all, Headers(r)) = Count(got, Headers(r)) + Count(both, Headers(r))
        BY <4>2, <4>3
      <4> QED
        BY <4>4 DEF both
    <3>2. Count(front \o units, Headers(r)) = Count(front, Headers(r)) + Count(units, Headers(r))
      BY <2>3, <2>4, CountConcat
    <3>3. \A k \in DOMAIN units : units[k] # Headers(r)
      BY <2>2, <2>4 DEF Headers
    <3>4. Count(units, Headers(r)) = 0 /\ Count(front, Headers(r)) \in Nat
      BY <2>3, <2>4, <3>3, CountFinite
    <3> QED
      BY <3>1, <3>2, <3>4
  <2>8. \A r : Count(rest, Headers(r)) + Count(all, Headers(r)) = Count(buf, Headers(r)) + Count(got, Headers(r))
    <3> TAKE r
    <3>1. /\ Count(rest, Headers(r)) \in Nat /\ Count(front, Headers(r)) \in Nat
          /\ Count(got, Headers(r)) \in Nat
      BY <2>3, CountFinite
    <3> QED
      BY <3>1, <2>5, <2>7
  <2>9. /\ DOMAIN all = 1 .. (g + n + m)
        /\ \A p \in 1 .. g : all[p] = got[p]
        /\ \A i \in 1 .. n : all[g + i] = buf[i]
        /\ \A k \in 1 .. m : all[g + n + k] = <<op.r, op.offset + k>>
    <3> DEFINE both == front \o units
    <3>1. /\ both \in Seq(Units) /\ Len(both) = n + m
          /\ (\A i \in 1 .. n : both[i] = front[i]) /\ (\A k \in 1 .. m : both[n + k] = units[k])
      <4>1. front \in Seq(Units) /\ units \in Seq(Units) /\ Len(front) = n /\ Len(units) = m
        BY <2>3, <2>4
      <4> DEFINE k == Len(front)
                 l == Len(units)
      <4>2. both \in Seq(Units)
        BY <4>1
      <4>3. Len(both) = k + l
        BY <4>1
      <4>4. \A i \in 1 .. k : both[i] = front[i]
        BY <4>1
      <4>5. \A j \in 1 .. l : both[k + j] = units[j]
        BY <4>1
      <4> HIDE DEF both
      <4> QED
        BY <4>1, <4>2, <4>3, <4>4, <4>5
    <3> HIDE DEF both
    <3>2. /\ Len(got \o both) = g + (n + m)
          /\ (\A p \in 1 .. g : (got \o both)[p] = got[p])
          /\ \A j \in 1 .. (n + m) : (got \o both)[g + j] = both[j]
      BY <3>1
    <3>3. all = got \o both
      BY <2>6 DEF both
    <3> HIDE DEF all, g
    <3>4. /\ Len(all) = g + (n + m)
          /\ (\A p \in 1 .. g : all[p] = got[p])
          /\ \A j \in 1 .. (n + m) : all[g + j] = both[j]
      BY <3>2, <3>3
    <3>5. DOMAIN all = 1 .. Len(all)
      BY <2>6
    <3>6. g + (n + m) = g + n + m /\ \A k \in 1 .. m : n + k \in 1 .. (n + m) /\ g + (n + k) = g + n + k
      BY <2>2
    <3>7. \A i \in 1 .. n : i \in 1 .. (n + m)
      BY <2>2
    <3>8. DOMAIN all = 1 .. (g + n + m)
      BY <3>4, <3>5, <3>6
    <3>9. ASSUME NEW i \in 1 .. n PROVE all[g + i] = buf[i]
      BY <2>3, <3>1, <3>4, <3>7
    <3>10. ASSUME NEW k \in 1 .. m PROVE all[g + n + k] = <<op.r, op.offset + k>>
      <4>1. all[g + (n + k)] = both[n + k] /\ g + (n + k) = g + n + k
        BY <3>4, <3>6
      <4>2. both[n + k] = units[k] /\ units[k] = <<op.r, op.offset + k>>
        BY <2>4, <3>1
      <4> QED
        BY <4>1, <4>2
    <3> QED
      BY <3>4, <3>8, <3>9, <3>10
  <2>10. ASSUME NEW p \in DOMAIN all
         PROVE  \/ p \in 1 .. g /\ all[p] = got[p]
                \/ \E i \in 1 .. n : p = g + i /\ all[p] = buf[i]
                \/ \E k \in 1 .. m : p = g + n + k /\ all[p] = <<op.r, op.offset + k>>
    <3> HIDE DEF all, g, len
    <3>1. p \in 1 .. (g + n + m)
      BY <2>9
    <3>2. p <= g \/ p - g \in 1 .. n \/ p - g - n \in 1 .. m
      BY <2>2, <3>1
    <3>3. p = g + (p - g) /\ p = g + n + (p - g - n)
      BY <2>2, <3>1
    <3> QED
      BY <2>9, <3>1, <3>2, <3>3
  <2> HIDE DEF all, g, len, f
  <2>11. ASSUME NEW i \in DOMAIN buf
         PROVE  \E r \in Wanted(c) : buf[i] = Headers(r) /\ buf[i][1] = r /\ buf[i][2] = 0
                                     /\ (\A j \in DOMAIN buf : buf[j] = buf[i] => j = i)
                                     /\ \A p \in DOMAIN got : got[p][1] # r
    <3>1. PICK r \in Wanted(c) : buf[i] = Headers(r)
      BY DEF Queued
    <3>2. Count(buf, Headers(r)) \in Nat /\ Count(buf, Headers(r)) # 0 /\ Count(got, Headers(r)) \in Nat
      BY <2>2, <3>1, CountFinite
    <3>3. Count(buf, Headers(r)) + Count(got, Headers(r)) <= 1
      BY DEF Once
    <3>4. \A j \in DOMAIN buf : buf[j] = buf[i] => j = i
      <4> SUFFICES ASSUME NEW j \in DOMAIN buf, buf[j] = buf[i], j # i PROVE FALSE
        OBVIOUS
      <4>1. Count(buf, buf[i]) > 1
        BY <2>2, CountTwice
      <4> QED
        BY <3>1, <3>2, <3>3, <4>1
    <3>8. Count(got, Headers(r)) = 0
      BY <3>2, <3>3
    <3>5. \A p \in DOMAIN got : got[p] # Headers(r)
      BY <3>8, CountFinite
    <3>6. \A p \in DOMAIN got : got[p][1] # r
      BY <3>5 DEF Ordered
    <3>7. buf[i][1] = r /\ buf[i][2] = 0
      BY <3>1 DEF Headers
    <3> QED
      BY <3>1, <3>4, <3>6, <3>7
  <2>12. \A p \in DOMAIN got : got[p][1] \in Nat /\ got[p][2] \in Nat
    BY DEF Units
  <2>13. ASSUME m > 0
         PROVE  /\ \A p \in DOMAIN got : got[p][1] = op.r => got[p][2] <= op.offset
                /\ \E q \in DOMAIN all : all[q] = Headers(op.r)
    <3>1. op.r # 0 /\ n = len
      BY <2>1, <2>13
    <3>2. Count(buf, Headers(op.r)) + Count(got, Headers(op.r)) > 0
      BY <3>1 DEF Sending
    <3>3. Count(buf, Headers(op.r)) # 0 \/ Count(got, Headers(op.r)) # 0
      BY <3>2
    <3>4. (\E i \in DOMAIN buf : buf[i] = Headers(op.r)) \/ (\E p \in DOMAIN got : got[p] = Headers(op.r))
      BY <2>2, <3>3, CountFinite
    <3>5. \A i \in 1 .. n : g + i \in DOMAIN all
      BY <2>2, <2>9
    <3>6. \A p \in 1 .. g : p \in DOMAIN all
      BY <2>2, <2>9
    <3>7. \E q \in DOMAIN all : all[q] = Headers(op.r)
      BY <2>2, <2>9, <3>1, <3>4, <3>5, <3>6
    <3> QED
      BY <3>1, <3>7 DEF Sending
  <2>14. \A p, q \in DOMAIN all : p < q /\ all[p][1] = all[q][1] => all[p][2] < all[q][2]
    <3> SUFFICES ASSUME NEW p \in DOMAIN all, NEW q \in DOMAIN all, p < q, all[p][1] = all[q][1]
                 PROVE  all[p][2] < all[q][2]
      OBVIOUS
    <3>1. \A i \in 1 .. n : i \in DOMAIN buf
      BY <2>2
    <3>2. CASE q \in 1 .. g
      <4>1. p \in 1 .. g
        BY <2>2, <2>9, <3>2
      <4> QED
        BY <2>2, <2>9, <3>2, <4>1 DEF Ordered
    <3>3. ASSUME NEW j \in 1 .. n, q = g + j, all[q] = buf[j] PROVE FALSE
      <4>1. PICK r \in Wanted(c) : /\ buf[j][1] = r /\ \A i \in DOMAIN buf : buf[i] = buf[j] => i = j
                                   /\ \A x \in DOMAIN got : got[x][1] # r
                                   /\ buf[j] = Headers(r)
        BY <2>11, <3>1
      <4>2. ~(p \in 1 .. g /\ all[p] = got[p])
        BY <2>2, <3>3, <4>1
      <4>3. ASSUME NEW i \in 1 .. n, p = g + i, all[p] = buf[i] PROVE FALSE
        <5>1. buf[i] = Headers(buf[i][1])
          BY <2>11, <3>1
        <5>2. buf[i] = buf[j]
          BY <3>3, <4>1, <4>3, <5>1
        <5>3. i = j
          BY <3>1, <4>1, <5>2
        <5> QED
          BY <2>2, <3>3, <4>3, <5>3
      <4>4. ~\E k \in 1 .. m : p = g + n + k
        BY <2>2, <3>3
      <4> QED
        BY <2>10, <4>2, <4>3, <4>4
    <3>4. ASSUME NEW k \in 1 .. m, q = g + n + k, all[q] = <<op.r, op.offset + k>>
          PROVE  all[p][2] < all[q][2]
      <4>1. m > 0 /\ k > 0 /\ k \in Nat
        OBVIOUS
      <4>2. all[q][1] = op.r /\ all[q][2] = op.offset + k
        BY <3>4
      <4>3. CASE p \in 1 .. g /\ all[p] = got[p]
        <5>1. p \in DOMAIN got /\ got[p][1] = op.r
          BY <2>2, <4>2, <4>3
        <5>2. got[p][2] <= op.offset /\ got[p][2] \in Nat
          BY <2>12, <2>13, <4>1, <5>1
        <5> QED
          BY <2>2, <4>1, <4>2, <4>3, <5>2
      <4>4. ASSUME NEW i \in 1 .. n, all[p] = buf[i] PROVE all[p][2] < all[q][2]
        <5>1. all[p][2] = 0
          BY <2>11, <3>1, <4>4
        <5> QED
          BY <2>2, <4>1, <4>2, <5>1
      <4>5. ASSUME NEW i \in 1 .. m, p = g + n + i, all[p] = <<op.r, op.offset + i>>
            PROVE  all[p][2] < all[q][2]
        <5>1. i < k
          BY <2>2, <3>4, <4>5
        <5>2. all[p][2] = op.offset + i
          BY <4>5
        <5> QED
          BY <2>2, <4>1, <4>2, <5>1, <5>2
      <4> QED
        BY <2>10, <4>3, <4>4, <4>5
    <3> QED
      BY <2>10, <3>2, <3>3, <3>4
  <2>15. \A p \in DOMAIN all : \E q \in DOMAIN all : all[q] = Headers(all[p][1])
    <3> SUFFICES ASSUME NEW p \in DOMAIN all PROVE \E q \in DOMAIN all : all[q] = Headers(all[p][1])
      OBVIOUS
    <3>1. CASE p \in 1 .. g /\ all[p] = got[p]
      <4>1. PICK q \in 1 .. g : got[q] = Headers(got[p][1])
        BY <2>2, <3>1 DEF Ordered
      <4>2. q \in DOMAIN all /\ all[q] = got[q]
        BY <2>2, <2>9
      <4> QED
        BY <3>1, <4>1, <4>2
    <3>2. ASSUME NEW i \in 1 .. n, all[p] = buf[i] PROVE \E q \in DOMAIN all : all[q] = Headers(all[p][1])
      <4>1. i \in DOMAIN buf
        BY <2>2
      <4> QED
        BY <2>11, <3>2, <4>1
    <3>3. ASSUME NEW k \in 1 .. m, all[p] = <<op.r, op.offset + k>>
          PROVE  \E q \in DOMAIN all : all[q] = Headers(all[p][1])
      <4>1. m > 0 /\ all[p][1] = op.r
        BY <3>3
      <4> QED
        BY <2>13, <4>1
    <3> QED
      BY <2>10, <3>1, <3>2, <3>3
  <2>16. Ordered(all)
    BY <2>14, <2>15 DEF Ordered
  <2>17. Queued(f.conn, c)
    <3>1. f.conn.write_buf = rest
      BY <2>1 DEF rest, len
    <3>2. \A k \in DOMAIN rest : n + k \in DOMAIN buf /\ rest[k] = buf[n + k]
      <4>1. DOMAIN rest = 1 .. (len - n)
        BY <2>3
      <4> QED
        BY <2>2, <2>3, <4>1
    <3> QED
      BY <3>1, <3>2 DEF Queued
  <2>18. Sending(f.conn, c, all)
    <3> SUFFICES ASSUME f.conn.sendfile_op.r # 0
                 PROVE  /\ op.r \in Wanted(c) /\ IsFile(<<c, op.r>>)
                        /\ Count(f.conn.write_buf, Headers(op.r)) + Count(all, Headers(op.r)) > 0
                        /\ \A p \in DOMAIN all : all[p][1] = op.r => all[p][2] <= op.offset + m
      BY <2>1 DEF Sending
    <3>1. op.r # 0
      BY <2>1
    <3>2. /\ op.r \in Wanted(c) /\ IsFile(<<c, op.r>>)
          /\ Count(buf, Headers(op.r)) + Count(got, Headers(op.r)) > 0
          /\ \A p \in DOMAIN got : got[p][1] = op.r => got[p][2] <= op.offset
      BY <3>1 DEF Sending
    <3>3. Count(f.conn.write_buf, Headers(op.r)) + Count(all, Headers(op.r)) > 0
      BY <2>1, <2>8, <3>2 DEF rest, len
    <3>4. ASSUME NEW p \in DOMAIN all, all[p][1] = op.r PROVE all[p][2] <= op.offset + m
      <4>1. CASE p \in 1 .. g /\ all[p] = got[p]
        <5>1. got[p][2] <= op.offset /\ got[p][2] \in Nat
          BY <2>2, <2>12, <3>2, <3>4, <4>1
        <5> QED
          BY <2>2, <4>1, <5>1
      <4>2. ASSUME NEW i \in 1 .. n, all[p] = buf[i] PROVE all[p][2] <= op.offset + m
        <5>1. i \in DOMAIN buf
          BY <2>2
        <5>2. all[p][2] = 0
          BY <2>11, <4>2, <5>1
        <5> QED
          BY <2>2, <5>2
      <4>3. ASSUME NEW k \in 1 .. m, all[p] = <<op.r, op.offset + k>> PROVE all[p][2] <= op.offset + m
        <5>1. all[p][2] = op.offset + k
          BY <4>3
        <5> QED
          BY <2>2, <5>1
      <4> QED
        BY <2>10, <4>1, <4>2, <4>3
    <3> QED
      BY <3>2, <3>3, <3>4
  <2>19. f.conn.sendfile_op.r \in {0, op.r}
    BY <2>1
  <2>20. f.conn.write_buf = rest
    BY <2>1 DEF rest, len
  <2> QED
    BY <2>8, <2>16, <2>17, <2>18, <2>19, <2>20 DEF all, f
<1> QED
  BY <1>1, <1>2

-----------------------------------------------------------------------------
(* Who holds a request, and who its file *)

Holders(labels, req) == {w \in Workers : worker[w].pc \in labels /\ worker[w].req = req}

LEMMA WorkersFinite ==
    ASSUME NEW labels, NEW req
    PROVE  /\ IsFiniteSet(Holders(labels, req)) /\ Cardinality(Holders(labels, req)) \in Nat
           /\ \A w \in Holders(labels, req) : Cardinality(Holders(labels, req)) > 0
<1>1. IsFiniteSet(1 .. NWorkers) /\ Holders(labels, req) \in SUBSET (1 .. NWorkers)
  BY EventLoopAssumption, FS_Interval DEF Holders, Workers
<1>2. IsFiniteSet(Holders(labels, req)) /\ Cardinality(Holders(labels, req)) \in Nat
  BY <1>1, FS_Subset, FS_CardinalityType
<1>3. Cardinality(Holders(labels, req)) = 0 <=> Holders(labels, req) = {}
  BY <1>2, FS_EmptySet
<1> QED
  BY <1>2, <1>3

(* One worker moves. *)
LEMMA HolderMoves ==
    ASSUME NEW w \in Workers, \A v \in Workers \ {w} : worker'[v] = worker[v], NEW labels, NEW req
    PROVE  Cardinality(Holders(labels, req))' + (IF worker[w].pc \in labels /\ worker[w].req = req THEN 1 ELSE 0)
           = Cardinality(Holders(labels, req)) + (IF worker'[w].pc \in labels /\ worker'[w].req = req THEN 1 ELSE 0)
<1> DEFINE H == Holders(labels, req)
           after == worker'[w].pc \in labels /\ worker'[w].req = req
<1>2. H' = IF after THEN H \cup {w} ELSE H \ {w}
  BY DEF Holders
<1> HIDE DEF after
<1>3. w \in H <=> worker[w].pc \in labels /\ worker[w].req = req
  BY DEF Holders
<1>4. IsFiniteSet(H) /\ Cardinality(H) \in Nat /\ (w \in H => Cardinality(H) > 0)
  BY WorkersFinite
<1> HIDE DEF H
<1>5. /\ Cardinality(H \cup {w}) = IF w \in H THEN Cardinality(H) ELSE Cardinality(H) + 1
      /\ Cardinality(H \ {w}) = IF w \in H THEN Cardinality(H) - 1 ELSE Cardinality(H)
  BY <1>4, FS_AddElement, FS_RemoveElement
<1>6. Cardinality(H)' = IF after THEN Cardinality(H \cup {w}) ELSE Cardinality(H \ {w})
  BY <1>2
<1>7. Cardinality(H)' + (IF worker[w].pc \in labels /\ worker[w].req = req THEN 1 ELSE 0)
      = Cardinality(H) + (IF after THEN 1 ELSE 0)
  BY <1>3, <1>4, <1>5, <1>6
<1> QED
  BY <1>7 DEF H, after

(* The sum, every term a number. *)
LEMMA CopiesSum ==
    ASSUME TableInv, Ends, NEW req \in Requests
    PROVE  /\ Copies(req) = Arrived(req) + InHands(req) + Count(queue_, req) + AtWorkers(req)
                            + Count(pending_writes_, req) + Answered(req)
           /\ Arrived(req) \in Nat /\ InHands(req) \in {0, 1} /\ Count(queue_, req) \in Nat
           /\ AtWorkers(req) \in Nat /\ Count(pending_writes_, req) \in Nat /\ Answered(req) \in Nat
           /\ Count(conn[req[1]].write_buf, Headers(req[2])) \in Nat
           /\ Count(peer[req[1]].got, Headers(req[2])) \in Nat
<1> DEFINE c == req[1]
           arrived == Count(peer[c].inbox, req[2])
           hands == IF pc \in {"submit", "post"} /\ request = req THEN 1 ELSE 0
           workers == Cardinality({w \in Workers : worker[w].pc \in {"run", "post"} /\ worker[w].req = req})
           queue == Count(queue_, req)
           pending == Count(pending_writes_, req)
           written == Count(conn[c].write_buf, Headers(req[2]))
           got == Count(peer[c].got, Headers(req[2]))
<1>1. c \in Clients
  BY RequestIsSome
<1>2. /\ peer[c].inbox \in Seq(1 .. Len(Script[c])) /\ peer[c].got \in Seq(Units)
      /\ conn[c].write_buf \in Seq(Units)
      /\ queue_ \in Seq(Requests) /\ pending_writes_ \in Seq(Requests)
  BY <1>1 DEF TableInv, ClientsTyped, Peer, Connected, PoolTyped
<1>3. /\ arrived \in Nat /\ queue \in Nat /\ pending \in Nat /\ written \in Nat /\ got \in Nat
  BY <1>2, CountFinite
<1>4. workers \in Nat /\ workers = AtWorkers(req)
  BY WorkersFinite DEF Holders, AtWorkers
<1>5. (IF Ended THEN 0 ELSE Count(queue_, req)) = queue
  <2>1. \A k \in DOMAIN <<>> : FALSE
    OBVIOUS
  <2>2. queue_ = <<>> => queue = 0
    BY <1>2, <2>1, CountFinite
  <2> QED
    BY <2>2 DEF Ends
<1>6. Copies(req) = arrived + hands + (IF Ended THEN 0 ELSE Count(queue_, req)) + workers + pending + written + got
  BY DEF Copies
<1>7. Arrived(req) = arrived /\ InHands(req) = hands /\ Answered(req) = written + got
  BY DEF Arrived, InHands, Answered
<1>8. hands \in {0, 1}
  OBVIOUS
<1> HIDE DEF c, arrived, hands, workers, queue, pending, written, got
<1>9. Copies(req) = arrived + hands + queue + workers + pending + (written + got)
  <2>1. Copies(req) = arrived + hands + queue + workers + pending + written + got
    BY <1>5, <1>6
  <2> QED
    BY <1>3, <1>4, <1>8, <2>1
<1> QED
  BY <1>3, <1>4, <1>7, <1>8, <1>9 DEF queue, pending, written, got, c

LEMMA OwnersSum ==
    ASSUME TableInv, NEW req \in Requests
    PROVE  LET posting == Cardinality(Holders({"post"}, req))
               pending == Count(pending_writes_, req)
               sending == IF conn[req[1]].sendfile_op.r = req[2] THEN 1 ELSE 0
           IN  /\ FileOwners(req) = posting + pending + sending
               /\ posting \in Nat /\ pending \in Nat /\ sending \in {0, 1}
<1> DEFINE c == req[1]
           senders == {d \in Clients : req \in FileOf(d, conn[d])}
           sending == IF conn[c].sendfile_op.r = req[2] THEN 1 ELSE 0
           posting == Cardinality(Holders({"post"}, req))
           pending == Count(pending_writes_, req)
<1>1. c \in Clients /\ req = <<c, req[2]>> /\ req[2] # 0
  BY RequestIsSome DEF Requests
<1>2. senders = IF conn[c].sendfile_op.r = req[2] THEN {c} ELSE {}
  <2>1. \A d \in Clients : req \in FileOf(d, conn[d]) <=> d = c /\ conn[c].sendfile_op.r = req[2]
    BY <1>1 DEF FileOf
  <2> QED
    BY <1>1, <2>1
<1> HIDE DEF senders
<1>3. Cardinality(senders) = sending
  BY <1>2, FS_Singleton, FS_EmptySet
<1>4. posting \in Nat /\ pending \in Nat
  BY WorkersFinite, CountFinite DEF TableInv, PoolTyped
<1>5. FileOwners(req) = Cardinality({w \in Workers : worker[w].pc = "post" /\ worker[w].req = req})
                        + Cardinality({k \in DOMAIN pending_writes_ : pending_writes_[k] = req})
                        + Cardinality(senders)
  BY DEF FileOwners, senders
<1>6. {w \in Workers : worker[w].pc = "post" /\ worker[w].req = req} = Holders({"post"}, req)
  BY DEF Holders
<1>7. Cardinality({k \in DOMAIN pending_writes_ : pending_writes_[k] = req}) = pending
  BY DEF Count
<1>8. FileOwners(req) = posting + pending + sending
  BY <1>3, <1>5, <1>6, <1>7
<1> QED
  BY <1>4, <1>8

CopiesAdd ==
    \A req \in Requests :
        /\ Copies(req) = Arrived(req) + InHands(req) + Count(queue_, req) + AtWorkers(req)
                         + Count(pending_writes_, req) + Answered(req)
        /\ Arrived(req) \in Nat /\ InHands(req) \in {0, 1} /\ Count(queue_, req) \in Nat
        /\ AtWorkers(req) \in Nat /\ Count(pending_writes_, req) \in Nat /\ Answered(req) \in Nat

OwnersAdd ==
    \A req \in Requests :
        /\ FileOwners(req) = Cardinality(Holders({"post"}, req)) + Count(pending_writes_, req)
                             + (IF conn[req[1]].sendfile_op.r = req[2] THEN 1 ELSE 0)
        /\ Cardinality(Holders({"post"}, req)) \in Nat /\ Count(pending_writes_, req) \in Nat

LEMMA Sums == TableInv /\ Ends => CopiesAdd /\ OwnersAdd
<1>1. TableInv /\ Ends => CopiesAdd
  BY CopiesSum DEF CopiesAdd
<1>2. TableInv => OwnersAdd
  BY OwnersSum DEF OwnersAdd
<1> QED
  BY <1>1, <1>2

LEMMA SumsNext == (TableInv /\ Ends)' => (CopiesAdd /\ OwnersAdd)'
BY Sums, PTL

Settled == TableInv /\ Ends /\ AnswersBad /\ CopiesAdd /\ OwnersAdd

LEMMA SettledNext ==
    ASSUME TableInv, Ends, AnswersBad, [Next]_vars
    PROVE  Settled /\ Settled'
<1>1. TableInv' /\ Ends' /\ AnswersBad'
  BY NextKeepsTable, NextKeepsEnds, NextKeepsAnswersBad
<1> QED
  BY <1>1, Sums, SumsNext DEF Settled

(* What keeps its place, or leaves it for one of the reasons *)
LEMMA PlaceStays ==
    ASSUME NEW req, PlacedAt(req), Copies(req)' = Copies(req),
           peer'[req[1]].asked = peer[req[1]].asked, req \in lost' <=> req \in lost,
           conn[req[1]].state = "Closed" => conn'[req[1]].state = "Closed"
    PROVE  PlacedAt(req)'
BY DEF PlacedAt

LEMMA PlaceLeft ==
    ASSUME NEW req, PlacedAt(req), Copies(req)' = 0, Copies(req) # 0,
           peer'[req[1]].asked = peer[req[1]].asked,
           req \in lost' \/ Kind(req) = "throw" \/ conn'[req[1]].state = "Closed"
    PROVE  PlacedAt(req)'
BY DEF PlacedAt

(* The workers that have a request keep it, and no other gets one. *)
SameWorkers ==
    \A w \in Workers : worker'[w] = worker[w] \/ {worker[w].pc, worker'[w].pc} \cap {"run", "post"} = {}

(* Nothing on the way moves. *)
LEMMA QuietPlaces ==
    ASSUME Settled, Settled', Placed, UNCHANGED <<queue_, pending_writes_, lost>>, SameWorkers,
           \A c \in Clients : /\ conn'[c].write_buf = conn[c].write_buf
                              /\ peer'[c].inbox = peer[c].inbox /\ peer'[c].asked = peer[c].asked
                              /\ peer'[c].got = peer[c].got
                              /\ conn[c].state = "Closed" => conn'[c].state = "Closed",
           (pc \in {"submit", "post"} <=> pc' \in {"submit", "post"}),
           pc \in {"submit", "post"} => request' = request
    PROVE  Placed'
<1> SUFFICES ASSUME NEW req \in Requests PROVE PlacedAt(req)'
  BY DEF Placed
<1>1. req[1] \in Clients
  BY RequestIsSome
<1>2. /\ Arrived(req)' = Arrived(req) /\ InHands(req)' = InHands(req)
      /\ Answered(req)' = Answered(req) /\ Count(queue_, req)' = Count(queue_, req)
      /\ Count(pending_writes_, req)' = Count(pending_writes_, req)
  BY <1>1 DEF Arrived, InHands, Answered
<1>4. AtWorkers(req)' = AtWorkers(req)
  BY DEF AtWorkers, SameWorkers
<1>3. Copies(req)' = Copies(req)
  BY <1>2, <1>4 DEF Settled, CopiesAdd
<1> QED
  BY <1>1, <1>3, PlaceStays DEF Placed

(* No connection is flushed. *)
LEMMA QuietStreams ==
    ASSUME Streams,
           \A c \in Clients :
               /\ conn'[c].write_buf = conn[c].write_buf /\ peer'[c].got = peer[c].got
               /\ conn'[c].sendfile_op \in {conn[c].sendfile_op, NoSendfile}
               /\ conn'[c].state = "None" => conn[c].state = "None"
               /\ conn'[c].fd = NoFd => conn[c].fd = NoFd \/ conn'[c].sendfile_op = NoSendfile
               /\ conn'[c].fd = NoFd /\ conn'[c].state # "Closed" =>
                      conn'[c].write_buf = <<>> \/ (conn[c].fd = NoFd /\ conn[c].state # "Closed")
    PROVE  Streams'
<1>1. NoSendfile.r = 0
  BY DEF NoSendfile
<1> SUFFICES ASSUME NEW c \in Clients
             PROVE  /\ Queued(conn'[c], c) /\ Ordered(peer'[c].got) /\ Sending(conn'[c], c, peer'[c].got)
                    /\ conn'[c].state = "None" => conn'[c].write_buf = <<>>
                    /\ conn'[c].fd = NoFd => conn'[c].sendfile_op.r = 0
                    /\ conn'[c].fd = NoFd /\ conn'[c].state # "Closed" => conn'[c].write_buf = <<>>
  BY DEF Streams
<1>2. /\ Queued(conn[c], c) /\ Ordered(peer[c].got) /\ Sending(conn[c], c, peer[c].got)
      /\ conn[c].state = "None" => conn[c].write_buf = <<>>
      /\ conn[c].fd = NoFd => conn[c].sendfile_op.r = 0
      /\ conn[c].fd = NoFd /\ conn[c].state # "Closed" => conn[c].write_buf = <<>>
  BY DEF Streams
<1>3. Queued(conn'[c], c)
  BY <1>2 DEF Queued
<1>4. Sending(conn'[c], c, peer'[c].got)
  <2>1. CASE conn'[c].sendfile_op = conn[c].sendfile_op
    BY <1>2, <2>1 DEF Sending
  <2>2. CASE conn'[c].sendfile_op = NoSendfile
    BY <1>1, <2>2 DEF Sending
  <2> QED
    BY <2>1, <2>2
<1>5. conn'[c].fd = NoFd => conn'[c].sendfile_op.r = 0
  BY <1>1, <1>2
<1> QED
  BY <1>2, <1>3, <1>4, <1>5

(* A connection becomes cn, which may have let go of its file. *)
LEMMA ShedsFile ==
    ASSUME Settled, Settled', Owned, NEW c \in Clients, NEW cn, NEW dropped,
           cn.sendfile_op.r \in {0, conn[c].sendfile_op.r}, ConnBecomes(c, cn, dropped),
           dropped \subseteq FileOf(c, conn[c]) \ FileOf(c, cn), UNCHANGED <<worker, pending_writes_>>
    PROVE  Owned'
<1>1. /\ conn'[c] = cn /\ (\A d \in Clients \ {c} : conn'[d] = conn[d])
      /\ openFiles' = openFiles \ (FileOf(c, conn[c]) \ FileOf(c, cn))
  BY DEF ConnBecomes, Settled, TableInv, ClientsTyped
<1> SUFFICES ASSUME NEW req \in Requests, IsFile(req)
             PROVE  FileOwners(req)' = IF req \in openFiles' THEN 1 ELSE 0
  BY DEF Owned, IsFile
<1> DEFINE posting == Cardinality(Holders({"post"}, req))
           pending == Count(pending_writes_, req)
           sending == IF conn[req[1]].sendfile_op.r = req[2] THEN 1 ELSE 0
<1>2. /\ FileOwners(req) = posting + pending + sending /\ posting \in Nat /\ pending \in Nat
      /\ FileOwners(req)' = posting' + pending' + sending'
  BY DEF Settled, OwnersAdd
<1>3. posting' = posting /\ pending' = pending
  BY DEF Holders
<1>4. FileOwners(req) = IF req \in openFiles THEN 1 ELSE 0
  BY DEF Owned
<1>5. req = <<req[1], req[2]>> /\ req[2] # 0 /\ req[1] \in Clients
  BY RequestIsSome
<1>6. /\ req \in FileOf(c, conn[c]) <=> req[1] = c /\ conn[c].sendfile_op.r = req[2]
      /\ req \in FileOf(c, cn) <=> req[1] = c /\ cn.sendfile_op.r = req[2]
  BY <1>5 DEF FileOf
<1> HIDE DEF posting, pending
<1>7. CASE req \in FileOf(c, conn[c]) \ FileOf(c, cn)
  <2>1. sending = 1 /\ sending' = 0
    BY <1>1, <1>6, <1>7
  <2>2. req \notin openFiles'
    BY <1>1, <1>7
  <2> HIDE DEF sending
  <2> QED
    BY <1>2, <1>3, <1>4, <2>1, <2>2
<1>8. CASE req \notin FileOf(c, conn[c]) \ FileOf(c, cn)
  <2>1. sending' = sending
    BY <1>1, <1>5, <1>6, <1>8
  <2>2. req \in openFiles' <=> req \in openFiles
    BY <1>1, <1>8
  <2> HIDE DEF sending
  <2> QED
    BY <1>2, <1>3, <1>4, <2>1, <2>2
<1> QED
  BY <1>7, <1>8

(* Files stay with whom they are. *)
LEMMA QuietFiles ==
    ASSUME Settled, Settled', Owned, UNCHANGED <<pending_writes_, openFiles>>, SameWorkers,
           \A c \in Clients : conn'[c].sendfile_op.r = conn[c].sendfile_op.r
    PROVE  Owned'
<1> SUFFICES ASSUME NEW req \in Requests, IsFile(req)
             PROVE  FileOwners(req)' = IF req \in openFiles' THEN 1 ELSE 0
  BY DEF Owned, IsFile
<1>1. req[1] \in Clients
  BY RequestIsSome
<1>2. Holders({"post"}, req)' = Holders({"post"}, req)
  BY DEF Holders, SameWorkers
<1>3. FileOwners(req)' = FileOwners(req)
  BY <1>1, <1>2 DEF Settled, OwnersAdd
<1> QED
  BY <1>3 DEF Owned

Kept == Streams /\ Placed /\ Owned

LEMMA QuietKept ==
    ASSUME Settled, Settled', Kept, SameWorkers,
           UNCHANGED <<queue_, pending_writes_, lost, conn, openFiles>>,
           \A c \in Clients : /\ peer'[c].inbox = peer[c].inbox /\ peer'[c].asked = peer[c].asked
                              /\ peer'[c].got = peer[c].got,
           (pc \in {"submit", "post"} <=> pc' \in {"submit", "post"}),
           pc \in {"submit", "post"} => request' = request
    PROVE  Kept'
BY QuietStreams, QuietPlaces, QuietFiles DEF Kept

-----------------------------------------------------------------------------
(* Steps on which no request moves *)

LEMMA ClosesKept ==
    ASSUME Settled, Settled', Kept, NEW c \in Clients, ConnBecomes(c, OnClosed(conn[c]), {}),
           UNCHANGED <<queue_, worker, pending_writes_, lost, peer>>,
           pc \notin {"submit", "post"}, pc' \notin {"submit", "post"}
    PROVE  Kept'
<1> DEFINE cn == OnClosed(conn[c])
<1>1. /\ Connected(cn) /\ cn.write_buf = conn[c].write_buf
      /\ cn = conn[c] \/ (cn.sendfile_op = NoSendfile /\ cn.state = "Closed")
      /\ conn[c].state = "Closed" => cn = conn[c]
  BY OnClosedTyped DEF Settled, TableInv, ClientsTyped
<1>2. NoSendfile.r = 0
  BY DEF NoSendfile
<1> HIDE DEF cn
<1>3. conn'[c] = cn /\ \A d \in Clients \ {c} : conn'[d] = conn[d]
  BY DEF cn, ConnBecomes, Settled, TableInv, ClientsTyped
<1>4. Owned'
  <2>1. cn.sendfile_op.r \in {0, conn[c].sendfile_op.r} /\ ConnBecomes(c, cn, {})
    BY <1>1, <1>2 DEF cn
  <2> QED
    BY <2>1, ShedsFile DEF Kept
<1>5. \A d \in Clients :
          /\ conn'[d].write_buf = conn[d].write_buf
          /\ conn'[d].sendfile_op \in {conn[d].sendfile_op, NoSendfile}
          /\ conn'[d].state = "None" => conn[d].state = "None"
          /\ conn'[d].fd = NoFd => conn[d].fd = NoFd \/ conn'[d].sendfile_op = NoSendfile
          /\ conn'[d].fd = NoFd /\ conn'[d].state # "Closed" =>
                 conn[d].fd = NoFd /\ conn[d].state # "Closed"
          /\ conn[d].state = "Closed" => conn'[d].state = "Closed"
  BY <1>1, <1>3
<1> QED
  BY <1>4, <1>5, QuietStreams, QuietPlaces DEF Kept, SameWorkers

LEMMA ClientsKept ==
    ASSUME Settled, Settled', Kept,
           Signal \/ \E c \in Clients : Connect(c) \/ ReadResponse(c) \/ Fin(c) \/ Rst(c)
    PROVE  Kept'
<1>1. UNCHANGED <<pc, request, conn, queue_, worker, pending_writes_, openFiles, lost>>
  BY DEF Signal, Connect, ReadResponse, Fin, Rst, ServerUntouched, loopVars, poolVars
<1>2. ASSUME NEW d \in Clients
      PROVE  peer'[d].inbox = peer[d].inbox /\ peer'[d].asked = peer[d].asked /\ peer'[d].got = peer[d].got
  <2>1. peer[d] \in Peer(d)
    BY DEF Settled, TableInv, ClientsTyped
  <2>2. \/ peer' = peer
        \/ \E c \in Clients : peer' = [peer EXCEPT ![c].connected = TRUE]
        \/ \E c \in Clients : peer' = [peer EXCEPT ![c].room = SockRoom]
        \/ \E c \in Clients : peer' = [peer EXCEPT ![c].fin = TRUE]
        \/ \E c \in Clients : peer' = [peer EXCEPT ![c].rst = TRUE]
    BY DEF Signal, Connect, ReadResponse, Fin, Rst
  <2>3. peer = [c \in Clients |-> peer[c]]
    BY DEF Settled, TableInv, ClientsTyped
  <2>4. CASE \E c \in Clients : peer' = [peer EXCEPT ![c].connected = TRUE]
    BY <2>1, <2>3, <2>4 DEF Peer
  <2>5. CASE \E c \in Clients : peer' = [peer EXCEPT ![c].room = SockRoom]
    BY <2>1, <2>3, <2>5 DEF Peer
  <2>6. CASE \E c \in Clients : peer' = [peer EXCEPT ![c].fin = TRUE]
    BY <2>1, <2>3, <2>6 DEF Peer
  <2>7. CASE \E c \in Clients : peer' = [peer EXCEPT ![c].rst = TRUE]
    BY <2>1, <2>3, <2>7 DEF Peer
  <2> QED
    BY <2>2, <2>4, <2>5, <2>6, <2>7
<1> QED
  BY <1>1, <1>2, QuietKept DEF SameWorkers

LEMMA StartUpKept ==
    ASSUME Settled, Settled', Kept, StartUp
    PROVE  Kept'
<1>1. /\ UNCHANGED <<request, conn, queue_, pending_writes_, openFiles, lost, peer>>
      /\ pc \notin {"submit", "post"} /\ pc' \notin {"submit", "post"}
  <2>1. CASE StartFails
    BY <2>1 DEF StartFails, StartingUp, Constructing, Goto
  <2>2. CASE ~StartFails
    <3>1. PICK from, to : Enter(from, to) /\ StartingUp /\ to \notin {"submit", "post"}
      BY <2>2, StartUpEnters
    <3> QED
      BY <3>1 DEF Enter, Goto, StartingUp, Constructing
  <2> QED
    BY <2>1, <2>2
<1>2. SameWorkers
  <2>1. CASE StartPool
    <3>1. \A w \in Workers : worker[w].pc \notin {"run", "post"}
      BY <2>1 DEF StartPool, Enter, Settled, TableInv, Control, StartingUp, Constructing
    <3>2. \A w \in Workers : worker'[w].pc = "pop"
      BY <2>1 DEF StartPool
    <3> QED
      BY <3>1, <3>2 DEF SameWorkers
  <2>2. CASE ~StartPool
    <3>1. worker' = worker
      BY <2>2 DEF StartUp, MakeTcp, CreateEpoll, SetOptions, Bind, Listen, AddListen, AddWakeup,
         InstallHandlers, BuildRouter, Run, Pass, StartFails
    <3> QED
      BY <3>1 DEF SameWorkers
  <2> QED
    BY <2>1, <2>2
<1> QED
  BY <1>1, <1>2, QuietKept

LEMMA LoopKept ==
    ASSUME Settled, Settled', Kept,
           \/ Poll \/ Reap \/ AcceptNothing \/ AcceptThrows \/ DrainEnds \/ Arm \/ Disarm \/ Leave
           \/ \E c \in Clients : ReadAgain(c)
           \/ \E e \in batch : HandleListen(e) \/ HandleWakeup(e) \/ HandleIo(e)
    PROVE  Kept'
<1>1. UNCHANGED <<conn, queue_, worker, pending_writes_, openFiles, lost, peer>>
  BY DEF Poll, Reap, AcceptNothing, AcceptThrows, Accepting, DrainEnds, Draining, Arm, Disarm, Leave,
         ReadAgain, Reading, Handle, HandleListen, HandleWakeup, HandleIo, LoopKeeps, poolVars
<1>2. pc \notin {"submit", "post"} /\ pc' \notin {"submit", "post"}
  <2>1. CASE Poll \/ Reap \/ AcceptNothing \/ AcceptThrows \/ DrainEnds \/ Arm \/ Disarm \/ Leave
    BY <2>1 DEF Poll, Reap, AcceptNothing, AcceptThrows, Accepting, DrainEnds, Draining, Arm, Disarm,
                Leave, Throw, Goto
  <2>2. CASE \E c \in Clients : ReadAgain(c)
    BY <2>2 DEF ReadAgain, Reading, Goto
  <2>3. CASE \E e \in batch : HandleListen(e) \/ HandleWakeup(e) \/ HandleIo(e)
    BY <2>3 DEF Handle, HandleListen, HandleWakeup, HandleIo, Goto
  <2> QED
    BY <2>1, <2>2, <2>3
<1> QED
  BY <1>1, <1>2, QuietKept DEF SameWorkers

LEMMA ShutKept ==
    ASSUME Settled, Settled', Kept,
           (\E e \in batch : HandleClosed(e)) \/ \E c \in Clients : ReadEnds(c)
    PROVE  Kept'
<1>1. ASSUME NEW e \in batch, HandleClosed(e) PROVE Kept'
  <2> DEFINE c == connections_[e.fd]
  <2>1. /\ ConnBecomes(c, OnClosed(conn[c]), {}) /\ e.fd \in DOMAIN connections_
        /\ UNCHANGED <<pc, queue_, worker, pending_writes_, lost, peer>> /\ pc = "batch"
    BY <1>1 DEF HandleClosed, Handle, LoopKeeps, poolVars
  <2>2. c \in Clients
    BY <2>1 DEF Settled, TableInv, LoopTyped
  <2> QED
    BY <2>1, <2>2, ClosesKept
<1>2. ASSUME NEW c \in Clients, ReadEnds(c) PROVE Kept'
  <2>1. /\ ConnBecomes(c, OnClosed(conn[c]), {}) /\ pc = "read" /\ pc' = "batch"
        /\ UNCHANGED <<queue_, worker, pending_writes_, lost, peer>>
    BY <1>2 DEF ReadEnds, Reading, Goto, poolVars
  <2> QED
    BY <2>1, ClosesKept
<1> QED
  BY <1>1, <1>2

LEMMA AcceptKept ==
    ASSUME Settled, Settled', Kept, AcceptOne
    PROVE  Kept'
<1>1. PICK c \in backlog :
          \/ conn' = [conn EXCEPT ![c].state = "Destroyed"]
          \/ conn' = [conn EXCEPT ![c] = NewConnection(LowestFree)]
  BY DEF AcceptOne
<1>2. /\ c \in Clients /\ conn[c].state = "None" /\ conn[c].fd = NoFd /\ conn[c].write_buf = <<>>
      /\ conn[c].sendfile_op.r = 0 /\ Connected(conn[c])
  BY DEF Settled, TableInv, ClientsTyped, Lives, Kept, Streams
<1>3. /\ \A d \in Clients \ {c} : conn'[d] = conn[d]
      /\ \/ conn'[c] = [conn[c] EXCEPT !.state = "Destroyed"]
         \/ conn'[c] = NewConnection(LowestFree)
  BY <1>1, <1>2 DEF Settled, TableInv, ClientsTyped
<1>4. /\ conn'[c].write_buf = <<>> /\ conn'[c].state # "None"
      /\ conn'[c].sendfile_op \in {conn[c].sendfile_op, NoSendfile} /\ conn'[c].sendfile_op.r = 0
      /\ conn'[c].fd = NoFd => conn[c].fd = NoFd
  BY <1>2, <1>3 DEF NewConnection, NoSendfile, Connected
<1>5. /\ UNCHANGED <<pc, request, queue_, worker, pending_writes_, openFiles, lost, peer>>
      /\ pc \notin {"submit", "post"}
  BY DEF AcceptOne, Accepting
<1>6. \A d \in Clients :
          /\ conn'[d].write_buf = conn[d].write_buf
          /\ conn'[d].sendfile_op \in {conn[d].sendfile_op, NoSendfile}
          /\ conn'[d].sendfile_op.r = conn[d].sendfile_op.r
          /\ conn'[d].state = "None" => conn[d].state = "None"
          /\ conn'[d].fd = NoFd => conn[d].fd = NoFd
          /\ conn'[d].fd = NoFd /\ conn'[d].state # "Closed" =>
                 conn[d].fd = NoFd /\ conn[d].state # "Closed"
          /\ conn[d].state = "Closed" => conn'[d].state = "Closed"
  BY <1>2, <1>3, <1>4
<1> QED
  BY <1>5, <1>6, QuietStreams, QuietPlaces, QuietFiles DEF Kept, SameWorkers

(* The connections are destroyed, and with them pending_writes_, the write    *)
(* buffers and the transfers in progress.                                     *)
LEMMA JoinedEnds ==
    ASSUME Settled, Settled', Kept, Joined
    PROVE  Streams' /\ Placed' /\ Abandoned'
<1> DEFINE files == UNION {FileOf(c, conn[c]) : c \in Clients}
<1>1. /\ UNCHANGED <<queue_, worker, peer>> /\ pending_writes_' = <<>> /\ lost' = lost \cup Unsent
      /\ pc \notin {"submit", "post"} /\ pc' \notin {"submit", "post"}
      /\ openFiles' = openFiles \ files
      /\ \A w \in Workers : worker[w].pc = "exited"
  BY DEF Joined, Goto, poolVars
<1>2. ASSUME NEW d \in Clients
      PROVE  IF conn[d].fd = NoFd THEN conn'[d] = conn[d]
             ELSE /\ conn'[d].write_buf = <<>> /\ conn'[d].sendfile_op = NoSendfile
                  /\ conn'[d].state = "Destroyed" /\ conn'[d].fd = NoFd
  <2>1. CASE conn[d].fd = NoFd
    BY <2>1 DEF Joined
  <2>2. CASE conn[d].fd # NoFd
    <3>1. conn'[d] = [NewConnection(NoFd) EXCEPT !.state = "Destroyed"]
      BY <2>2 DEF Joined
    <3>2. conn'[d] = [fd |-> NoFd, state |-> "Destroyed", keep_alive |-> TRUE,
                      write_buf |-> <<>>, sendfile_op |-> NoSendfile]
      BY <3>1 DEF NewConnection
    <3> HIDE DEF NoSendfile
    <3> QED
      BY <2>2, <3>2
  <2> QED
    BY <2>1, <2>2
<1>3. ASSUME NEW d \in Clients
      PROVE  /\ conn[d].fd # NoFd => conn[d].state \notin {"None", "Closed"}
             /\ conn'[d].sendfile_op.r = 0
             /\ conn'[d].write_buf = <<>> \/ conn'[d] = conn[d]
  <2>1. NoSendfile.r = 0 /\ (conn[d].fd = NoFd => conn[d].sendfile_op.r = 0)
    BY DEF NoSendfile, Kept, Streams
  <2> QED
    BY <1>2, <2>1 DEF Settled, TableInv, Lives
<1>4. Streams'
  <2>0. \A k \in DOMAIN <<>> : FALSE
    OBVIOUS
  <2> SUFFICES ASSUME NEW d \in Clients
               PROVE  /\ Queued(conn'[d], d) /\ Ordered(peer'[d].got) /\ Sending(conn'[d], d, peer'[d].got)
                      /\ conn'[d].state = "None" => conn'[d].write_buf = <<>>
                      /\ conn'[d].fd = NoFd => conn'[d].sendfile_op.r = 0
                      /\ conn'[d].fd = NoFd /\ conn'[d].state # "Closed" => conn'[d].write_buf = <<>>
    BY DEF Streams
  <2>1. Ordered(peer'[d].got) /\ Sending(conn'[d], d, peer'[d].got)
    BY <1>1, <1>3 DEF Kept, Streams, Sending
  <2>2. Queued(conn'[d], d)
    BY <1>3, <2>0 DEF Kept, Streams, Queued
  <2>3. /\ conn'[d].state = "None" => conn'[d].write_buf = <<>>
        /\ conn'[d].fd = NoFd /\ conn'[d].state # "Closed" => conn'[d].write_buf = <<>>
    BY <1>2 DEF Kept, Streams
  <2> QED
    BY <1>3, <2>1, <2>2, <2>3
<1>5. ASSUME NEW req \in Requests
      PROVE  /\ req \in Unsent <=>
                    \/ Count(pending_writes_, req) # 0
                    \/ conn[req[1]].fd # NoFd /\ Count(conn[req[1]].write_buf, Headers(req[2])) # 0
             /\ Count(pending_writes_, req)' = 0
             /\ Count(conn'[req[1]].write_buf, Headers(req[2]))
                  = IF conn[req[1]].fd = NoFd THEN Count(conn[req[1]].write_buf, Headers(req[2])) ELSE 0
             /\ Count(conn[req[1]].write_buf, Headers(req[2])) \in Nat
             /\ Count(peer[req[1]].got, Headers(req[2])) \in Nat
  <2>1. /\ req[1] \in Clients /\ pending_writes_ \in Seq(Requests)
        /\ conn[req[1]].write_buf \in Seq(Units) /\ peer[req[1]].got \in Seq(Units)
    BY RequestIsSome DEF Settled, TableInv, PoolTyped, ClientsTyped, Connected, Peer
  <2>2. \A x : Count(<<>>, x) = 0
    <3>1. <<>> \in Seq({}) /\ \A k \in DOMAIN <<>> : FALSE
      OBVIOUS
    <3> QED
      BY <3>1, CountFinite
  <2>3. req \in ToSet(pending_writes_) <=> Count(pending_writes_, req) # 0
    BY <2>1, CountFinite DEF ToSet
  <2>4. Headers(req[2]) \in ToSet(conn[req[1]].write_buf)
          <=> Count(conn[req[1]].write_buf, Headers(req[2])) # 0
    BY <2>1, CountFinite DEF ToSet
  <2>5. req \in Unsent <=> \/ req \in ToSet(pending_writes_)
                           \/ conn[req[1]].fd # NoFd /\ Headers(req[2]) \in ToSet(conn[req[1]].write_buf)
    BY DEF Unsent, Headers
  <2>6. /\ Count(conn[req[1]].write_buf, Headers(req[2])) \in Nat
        /\ Count(peer[req[1]].got, Headers(req[2])) \in Nat
    BY <2>1, CountFinite
  <2>7. Count(pending_writes_, req)' = 0
    <3>1. Count(pending_writes_, req)' = Count(pending_writes_', req)
      BY DEF Count
    <3> QED
      BY <1>1, <2>2, <3>1
  <2>8. Count(conn'[req[1]].write_buf, Headers(req[2]))
          = IF conn[req[1]].fd = NoFd THEN Count(conn[req[1]].write_buf, Headers(req[2])) ELSE 0
    BY <1>2, <2>1, <2>2
  <2> QED
    BY <2>3, <2>4, <2>5, <2>6, <2>7, <2>8
<1>6. ASSUME NEW req \in Requests PROVE PlacedAt(req)'
  <2> DEFINE pending == Count(pending_writes_, req)
             written == Count(conn[req[1]].write_buf, Headers(req[2]))
             got == Count(peer[req[1]].got, Headers(req[2]))
             rest == Arrived(req) + Count(queue_, req) + AtWorkers(req)
  <2>1. PlacedAt(req) /\ req[1] \in Clients
    BY RequestIsSome DEF Kept, Placed
  <2>2. /\ InHands(req) = 0 /\ InHands(req)' = 0 /\ Arrived(req)' = Arrived(req)
        /\ Count(queue_, req)' = Count(queue_, req) /\ AtWorkers(req)' = AtWorkers(req)
        /\ Answered(req) = written + got
        /\ Answered(req)' = Count(conn'[req[1]].write_buf, Headers(req[2])) + got
    BY <1>1 DEF InHands, Arrived, AtWorkers, Answered
  <2>3. /\ Arrived(req) \in Nat /\ Count(queue_, req) \in Nat /\ AtWorkers(req) \in Nat
        /\ pending \in Nat /\ written \in Nat /\ got \in Nat
    BY <1>5 DEF Settled, CopiesAdd
  <2>4. Copies(req) = Arrived(req) + InHands(req) + Count(queue_, req) + AtWorkers(req)
                      + pending + Answered(req)
    BY DEF Settled, CopiesAdd
  <2>5. Copies(req)' = Arrived(req)' + InHands(req)' + Count(queue_, req)' + AtWorkers(req)'
                       + pending' + Answered(req)'
    BY DEF Settled, CopiesAdd
  <2>6. pending' = 0 /\ Answered(req)' = (IF conn[req[1]].fd = NoFd THEN written ELSE 0) + got
    BY <1>5, <2>2
  <2>7. peer'[req[1]].asked = peer[req[1]].asked
        /\ (conn[req[1]].state = "Closed" => conn'[req[1]].state = "Closed")
    BY <1>1, <1>2, <1>3, <2>1
  <2>8. req \in Unsent <=> pending # 0 \/ (conn[req[1]].fd # NoFd /\ written # 0)
    BY <1>5
  <2>9. Copies(req) = 1 \/ Copies(req) = 0
    BY <2>1 DEF PlacedAt
  <2> HIDE DEF pending, written, got
  <2>10. /\ Copies(req) = rest + pending + (written + got) /\ rest \in Nat
         /\ Copies(req)' = rest + ((IF conn[req[1]].fd = NoFd THEN written ELSE 0) + got)
    BY <2>2, <2>3, <2>4, <2>5, <2>6
  <2> HIDE DEF rest
  <2>11. CASE req \in Unsent
    <3>1. Copies(req)' = 0 /\ Copies(req) # 0
      BY <2>3, <2>8, <2>9, <2>10, <2>11
    <3> QED
      BY <1>1, <2>1, <2>7, <2>11, <3>1, PlaceLeft
  <2>12. CASE req \notin Unsent
    <3>1. Copies(req)' = Copies(req)
      BY <2>3, <2>8, <2>10, <2>12
    <3> QED
      BY <1>1, <2>1, <2>7, <2>12, <3>1, PlaceStays
  <2> QED
    BY <2>11, <2>12
<1>7. ASSUME NEW req \in Requests, IsFile(req)
      PROVE  FileOwners(req)' = 0 /\ (req \in openFiles' => req \in lost')
  <2> DEFINE c == req[1]
             posting == Cardinality(Holders({"post"}, req))
             pending == Count(pending_writes_, req)
             sending == IF conn[c].sendfile_op.r = req[2] THEN 1 ELSE 0
  <2>1. /\ FileOwners(req) = posting + pending + sending /\ posting \in Nat /\ pending \in Nat
        /\ FileOwners(req)' = posting' + pending' + sending'
    BY DEF Settled, OwnersAdd
  <2>2. posting = 0 /\ posting' = 0 /\ pending' = 0
    <3>1. Holders({"post"}, req) = {} /\ Holders({"post"}, req)' = {}
      BY <1>1 DEF Holders
    <3> QED
      BY <1>5, <3>1, FS_EmptySet
  <2>3. FileOwners(req) = IF req \in openFiles THEN 1 ELSE 0
    BY <1>7 DEF Kept, Owned
  <2>4. req = <<req[1], req[2]>> /\ req[2] # 0 /\ req[1] \in Clients
    BY RequestIsSome
  <2>5. req \in files <=> sending = 1
    <3>1. \A d \in Clients : req \in FileOf(d, conn[d]) <=> d = c /\ conn[c].sendfile_op.r = req[2]
      BY <2>4 DEF FileOf
    <3> QED
      BY <2>4, <3>1
  <2>6. sending' = 0
    BY <1>3, <2>4
  <2>7. pending # 0 => req \in lost'
    BY <1>1, <1>5
  <2> HIDE DEF posting, pending, files
  <2>8. sending \in {0, 1}
    OBVIOUS
  <2> HIDE DEF sending
  <2> QED
    BY <1>1, <2>1, <2>2, <2>3, <2>5, <2>6, <2>7, <2>8
<1>8. Abandoned'
  BY <1>7 DEF Abandoned, IsFile
<1> QED
  BY <1>4, <1>6, <1>8 DEF Placed

-----------------------------------------------------------------------------
(* Steps that hand a request on *)

(* What is somewhere is there once, and nowhere else. *)
LEMMA OnlyThere ==
    ASSUME Settled, Placed, NEW req \in Requests,
           Arrived(req) + InHands(req) + Count(queue_, req) + AtWorkers(req)
               + Count(pending_writes_, req) + Answered(req) # 0
    PROVE  /\ Arrived(req) + InHands(req) + Count(queue_, req) + AtWorkers(req)
                  + Count(pending_writes_, req) + Answered(req) = 1
           /\ Copies(req) = 1 /\ req \notin lost /\ req[2] <= peer[req[1]].asked
<1>1. PlacedAt(req) /\ Copies(req) # 0
  BY DEF Placed, Settled, CopiesAdd
<1>2. req[2] \in Nat /\ peer[req[1]].asked \in Nat
  <2>1. req[1] \in Clients /\ req[2] \in 1 .. Len(Script[req[1]])
    BY RequestIsSome
  <2> QED
    BY <2>1 DEF Settled, TableInv, ClientsTyped, Peer
<1> QED
  BY <1>1, <1>2 DEF PlacedAt, Settled, CopiesAdd

(* A file's transfer comes with the headers of its answer. *)
LEMMA SendingIsAnswered ==
    ASSUME Settled, Streams, NEW req \in Requests, conn[req[1]].sendfile_op.r = req[2]
    PROVE  Answered(req) # 0
<1>1. req[1] \in Clients /\ req[2] # 0
  BY RequestIsSome
<1>2. Sending(conn[req[1]], req[1], peer[req[1]].got)
  BY <1>1 DEF Streams
<1>3. Count(conn[req[1]].write_buf, Headers(req[2])) + Count(peer[req[1]].got, Headers(req[2])) > 0
  BY <1>1, <1>2 DEF Sending
<1> QED
  BY <1>3 DEF Answered

LEMMA OthersAtNone ==
    ASSUME Settled, NEW req \in Requests, NEW w \in Workers, AtWorkers(req) = 1,
           worker[w].pc = "run", worker[w].req = req
    PROVE  Cardinality(Holders({"post"}, req)) = 0
<1> DEFINE H == Holders({"run", "post"}, req)
<1>1. IsFiniteSet(H) /\ Cardinality(H) = 1 /\ w \in H
  <2>1. H = {v \in Workers : worker[v].pc \in {"run", "post"} /\ worker[v].req = req}
    BY DEF Holders
  <2>2. IsFiniteSet(H)
    BY WorkersFinite
  <2> QED
    BY <2>1, <2>2 DEF AtWorkers
<1> HIDE DEF H
<1>2. PICK v : H = {v}
  BY <1>1, FS_Singleton
<1>3. Holders({"post"}, req) = {}
  BY <1>1, <1>2 DEF H, Holders
<1> QED
  BY <1>3, FS_EmptySet

LEMMA WorkersKept ==
    ASSUME Settled, Settled', Kept, NEW w \in Workers, WorkerStep(w)
    PROVE  Kept'
<1>1. /\ UNCHANGED <<pc, request, conn, peer, lost>>
      /\ worker[w].req \in Requests \cup {NoRequest}
      /\ worker[w].pc \in {"run", "post"} => worker[w].req \in Requests
      /\ worker[w].pc \notin {"run", "post"} => worker[w].req = NoRequest
      /\ queue_ \in Seq(Requests) /\ pending_writes_ \in Seq(Requests)
  BY DEF WorkerStep, WorkerTake, WorkerExit, HandlerThrows, HandlerReturns, WorkerPost, WorkerNotify,
         WorkerMoves, loopVars, Settled, TableInv, PoolTyped
<1>2. ASSUME NEW label, NEW r, WorkerMoves(w, label, r), NEW req \in Requests
      PROVE  /\ AtWorkers(req)' + (IF worker[w].pc \in {"run", "post"} /\ worker[w].req = req THEN 1 ELSE 0)
                = AtWorkers(req) + (IF label \in {"run", "post"} /\ r = req THEN 1 ELSE 0)
             /\ Cardinality(Holders({"post"}, req))'
                    + (IF worker[w].pc \in {"post"} /\ worker[w].req = req THEN 1 ELSE 0)
                = Cardinality(Holders({"post"}, req)) + (IF label \in {"post"} /\ r = req THEN 1 ELSE 0)
  <2>1. /\ worker'[w].pc = label /\ worker'[w].req = r
        /\ \A v \in Workers \ {w} : worker'[v] = worker[v]
    BY <1>2 DEF Settled, TableInv, PoolTyped, WorkerMoves
  <2>2. AtWorkers(req) = Cardinality(Holders({"run", "post"}, req))
        /\ AtWorkers(req)' = Cardinality(Holders({"run", "post"}, req))'
    BY DEF AtWorkers, Holders
  <2>3. Cardinality(Holders({"run", "post"}, req))'
            + (IF worker[w].pc \in {"run", "post"} /\ worker[w].req = req THEN 1 ELSE 0)
        = Cardinality(Holders({"run", "post"}, req)) + (IF label \in {"run", "post"} /\ r = req THEN 1 ELSE 0)
    BY <2>1, HolderMoves
  <2>4. Cardinality(Holders({"post"}, req))'
                    + (IF worker[w].pc \in {"post"} /\ worker[w].req = req THEN 1 ELSE 0)
                = Cardinality(Holders({"post"}, req)) + (IF label \in {"post"} /\ r = req THEN 1 ELSE 0)
    BY <2>1, HolderMoves
  <2> QED
    BY <2>2, <2>3, <2>4
<1>3. Streams'
  BY <1>1, QuietStreams DEF Kept
<1>4. ASSUME NEW req \in Requests
      PROVE  /\ Arrived(req)' = Arrived(req) /\ InHands(req)' = InHands(req) /\ Answered(req)' = Answered(req)
             /\ PlacedAt(req) /\ req[1] \in Clients
             /\ (Copies(req)' = Copies(req) => PlacedAt(req)')
  <2>1. PlacedAt(req) /\ req[1] \in Clients
    BY RequestIsSome DEF Kept, Placed
  <2> QED
    BY <1>1, <2>1, PlaceStays DEF Arrived, InHands, Answered
<1>5. ASSUME NEW req \in Requests
      PROVE  /\ Copies(req) = Arrived(req) + InHands(req) + Count(queue_, req) + AtWorkers(req)
                              + Count(pending_writes_, req) + Answered(req)
             /\ Arrived(req) \in Nat /\ InHands(req) \in {0, 1} /\ Count(queue_, req) \in Nat
             /\ AtWorkers(req) \in Nat /\ Count(pending_writes_, req) \in Nat /\ Answered(req) \in Nat
             /\ Copies(req)' = Arrived(req) + InHands(req) + Count(queue_, req)' + AtWorkers(req)'
                              + Count(pending_writes_, req)' + Answered(req)
             /\ Count(queue_, req)' \in Nat /\ AtWorkers(req)' \in Nat /\ Count(pending_writes_, req)' \in Nat
             /\ Cardinality(Holders({"post"}, req)) \in Nat /\ Cardinality(Holders({"post"}, req))' \in Nat
  BY <1>4 DEF Settled, CopiesAdd, OwnersAdd
<1>6. ASSUME NEW req \in Requests
      PROVE  /\ FileOwners(req) = Cardinality(Holders({"post"}, req)) + Count(pending_writes_, req)
                             + (IF conn[req[1]].sendfile_op.r = req[2] THEN 1 ELSE 0)
             /\ FileOwners(req)' = Cardinality(Holders({"post"}, req))' + Count(pending_writes_, req)'
                             + (IF conn[req[1]].sendfile_op.r = req[2] THEN 1 ELSE 0)
             /\ IsFile(req) => FileOwners(req) = IF req \in openFiles THEN 1 ELSE 0
  <2>1. FileOwners(req) = Cardinality(Holders({"post"}, req)) + Count(pending_writes_, req)
                             + (IF conn[req[1]].sendfile_op.r = req[2] THEN 1 ELSE 0)
    BY DEF Settled, OwnersAdd
  <2>2. FileOwners(req)' = Cardinality(Holders({"post"}, req))' + Count(pending_writes_, req)'
                             + (IF conn[req[1]].sendfile_op.r = req[2] THEN 1 ELSE 0)
    BY <1>1 DEF Settled, OwnersAdd
  <2>3. IsFile(req) => FileOwners(req) = IF req \in openFiles THEN 1 ELSE 0
    BY DEF Kept, Owned
  <2> QED
    BY <2>1, <2>2, <2>3
<1>7. CASE WorkerTake(w)
  <2>1. /\ worker[w].pc = "pop" /\ queue_ # <<>> /\ queue_' = Tail(queue_)
        /\ WorkerMoves(w, "run", Head(queue_)) /\ UNCHANGED <<pending_writes_, openFiles>>
    BY <1>7 DEF WorkerTake
  <2>2. ASSUME NEW req \in Requests PROVE PlacedAt(req)'
    <3>1. Count(queue_, req) = Count(queue_', req) + (IF Head(queue_) = req THEN 1 ELSE 0)
      BY <1>1, <2>1, CountTail
    <3>2. AtWorkers(req)' = AtWorkers(req) + (IF Head(queue_) = req THEN 1 ELSE 0)
      BY <1>2, <1>5, <2>1
    <3>3. Count(queue_, req)' = Count(queue_', req) /\ Count(pending_writes_, req)' = Count(pending_writes_, req)
      BY <2>1
    <3>4. Copies(req)' = Copies(req)
      BY <1>5, <3>1, <3>2, <3>3
    <3> QED
      BY <1>4, <3>4
  <2>3. ASSUME NEW req \in Requests, IsFile(req)
        PROVE  FileOwners(req)' = IF req \in openFiles' THEN 1 ELSE 0
    <3>1. Cardinality(Holders({"post"}, req))' = Cardinality(Holders({"post"}, req))
      BY <1>2, <1>5, <2>1
    <3> QED
      BY <1>6, <2>1, <2>3, <3>1
  <2> QED
    BY <1>3, <2>2, <2>3 DEF Kept, Placed, Owned, IsFile
<1>8. CASE WorkerExit(w) \/ WorkerNotify(w)
  <2>1. /\ worker[w].pc \in {"pop", "notify"} /\ UNCHANGED <<queue_, pending_writes_, openFiles>>
        /\ WorkerMoves(w, "exited", NoRequest) \/ WorkerMoves(w, "pop", NoRequest)
    BY <1>8 DEF WorkerExit, WorkerNotify
  <2>2. SameWorkers
    BY <2>1 DEF SameWorkers, WorkerMoves, Settled, TableInv, PoolTyped
  <2> QED
    BY <1>1, <2>1, <2>2, QuietKept
<1>9. CASE HandlerThrows(w)
  <2> DEFINE own == worker[w].req
  <2>1. /\ worker[w].pc = "run" /\ Kind(own) = "throw" /\ WorkerMoves(w, "pop", NoRequest)
        /\ UNCHANGED <<queue_, pending_writes_, openFiles>>
    BY <1>9 DEF HandlerThrows
  <2>2. own \in Requests
    BY <1>1, <2>1
  <2>3. ASSUME NEW req \in Requests PROVE PlacedAt(req)'
    <3>1. AtWorkers(req)' + (IF own = req THEN 1 ELSE 0) = AtWorkers(req)
      BY <1>2, <1>5, <2>1
    <3>2. CASE own # req
      <4>1. Copies(req)' = Copies(req)
        BY <1>5, <2>1, <3>1, <3>2
      <4> QED
        BY <1>4, <4>1
    <3>3. CASE own = req
      <4>1. Copies(req)' + 1 = Copies(req) /\ Copies(req)' \in Nat /\ Copies(req) \in Nat
        BY <1>5, <2>1, <3>1, <3>3
      <4>2. Copies(req) = 1 \/ Copies(req) = 0
        BY <1>4 DEF PlacedAt
      <4>3. Copies(req)' = 0 /\ Copies(req) # 0
        BY <4>1, <4>2
      <4> QED
        BY <1>1, <1>4, <2>1, <3>3, <4>3, PlaceLeft
    <3> QED
      BY <3>2, <3>3
  <2>4. ASSUME NEW req \in Requests, IsFile(req)
        PROVE  FileOwners(req)' = IF req \in openFiles' THEN 1 ELSE 0
    <3>1. Cardinality(Holders({"post"}, req))' = Cardinality(Holders({"post"}, req))
      BY <1>2, <1>5, <2>1
    <3> QED
      BY <1>6, <2>1, <2>4, <3>1
  <2> QED
    BY <1>3, <2>3, <2>4 DEF Kept, Placed, Owned, IsFile
<1>10. CASE HandlerReturns(w)
  <2> DEFINE own == worker[w].req
  <2>1. /\ worker[w].pc = "run" /\ WorkerMoves(w, "post", own)
        /\ UNCHANGED <<queue_, pending_writes_>>
        /\ openFiles' = IF IsFile(own) THEN openFiles \cup {own} ELSE openFiles
    BY <1>10 DEF HandlerReturns
  <2>2. own \in Requests
    BY <1>1, <2>1
  <2>3. ASSUME NEW req \in Requests PROVE PlacedAt(req)'
    <3>1. AtWorkers(req)' = AtWorkers(req)
      BY <1>2, <1>5, <2>1
    <3>2. Copies(req)' = Copies(req)
      BY <1>5, <2>1, <3>1
    <3> QED
      BY <1>4, <3>2
  <2>4. ASSUME NEW req \in Requests, IsFile(req)
        PROVE  FileOwners(req)' = IF req \in openFiles' THEN 1 ELSE 0
    <3>1. Cardinality(Holders({"post"}, req))' = Cardinality(Holders({"post"}, req)) + (IF own = req THEN 1 ELSE 0)
      BY <1>2, <1>5, <2>1
    <3>2. CASE own # req
      <4>1. FileOwners(req)' = FileOwners(req) /\ (req \in openFiles' <=> req \in openFiles)
        <5>1. Cardinality(Holders({"post"}, req))' = Cardinality(Holders({"post"}, req))
          BY <1>5, <3>1, <3>2
        <5> QED
          BY <1>6, <2>1, <3>2, <5>1
      <4> QED
        BY <1>6, <2>4, <4>1
    <3>3. CASE own = req
      <4>1. AtWorkers(req) > 0
        <5>1. w \in Holders({"run", "post"}, req)
          BY <2>1, <3>3 DEF Holders
        <5>2. Cardinality(Holders({"run", "post"}, req)) > 0
          BY <5>1, WorkersFinite
        <5> QED
          BY <5>2 DEF AtWorkers, Holders
      <4>2. AtWorkers(req) = 1 /\ Count(pending_writes_, req) = 0 /\ Answered(req) = 0
        <5>1. Arrived(req) + InHands(req) + Count(queue_, req) + AtWorkers(req)
                  + Count(pending_writes_, req) + Answered(req) = 1
          BY <1>5, <4>1, OnlyThere DEF Kept
        <5>2. /\ Arrived(req) \in Nat /\ InHands(req) \in {0, 1} /\ Count(queue_, req) \in Nat
              /\ AtWorkers(req) \in Nat /\ Count(pending_writes_, req) \in Nat /\ Answered(req) \in Nat
          BY <1>5
        <5> QED
          BY <4>1, <5>1, <5>2
      <4>3. Cardinality(Holders({"post"}, req)) = 0
        BY <2>1, <3>3, <4>2, OthersAtNone
      <4>4. conn[req[1]].sendfile_op.r # req[2]
        BY <4>2, SendingIsAnswered DEF Kept
      <4>5. FileOwners(req)' = 1
        BY <1>6, <2>1, <3>1, <3>3, <4>2, <4>3, <4>4
      <4>6. req \in openFiles'
        BY <2>1, <2>4, <3>3
      <4> QED
        BY <4>5, <4>6
    <3> QED
      BY <3>2, <3>3
  <2> QED
    BY <1>3, <2>3, <2>4 DEF Kept, Placed, Owned, IsFile
<1>11. CASE WorkerPost(w)
  <2> DEFINE own == worker[w].req
  <2>1. /\ worker[w].pc = "post" /\ WorkerMoves(w, "notify", NoRequest)
        /\ UNCHANGED <<queue_, openFiles>> /\ pending_writes_' = Append(pending_writes_, own)
    BY <1>11 DEF WorkerPost
  <2>2. own \in Requests
    BY <1>1, <2>1
  <2>3. ASSUME NEW req \in Requests
        PROVE  Count(pending_writes_, req)' = Count(pending_writes_, req) + (IF own = req THEN 1 ELSE 0)
    BY <1>1, <2>1, <2>2, CountAppend
  <2>4. ASSUME NEW req \in Requests PROVE PlacedAt(req)'
    <3>1. AtWorkers(req)' + (IF own = req THEN 1 ELSE 0) = AtWorkers(req)
      BY <1>2, <1>5, <2>1
    <3>2. Copies(req)' = Copies(req)
      <4>1. /\ Copies(req) = Arrived(req) + InHands(req) + Count(queue_, req) + AtWorkers(req)
                              + Count(pending_writes_, req) + Answered(req)
            /\ Arrived(req) \in Nat /\ InHands(req) \in {0, 1} /\ Count(queue_, req) \in Nat
            /\ AtWorkers(req) \in Nat /\ Count(pending_writes_, req) \in Nat /\ Answered(req) \in Nat
            /\ Copies(req)' = Arrived(req) + InHands(req) + Count(queue_, req)' + AtWorkers(req)'
                              + Count(pending_writes_, req)' + Answered(req)
            /\ AtWorkers(req)' \in Nat
        BY <1>5
      <4>2. Count(queue_, req)' = Count(queue_, req)
        BY <2>1
      <4>3. Count(pending_writes_, req)' = Count(pending_writes_, req) + (IF own = req THEN 1 ELSE 0)
        BY <2>3
      <4> HIDE DEF own
      <4> QED
        BY <3>1, <4>1, <4>2, <4>3
    <3> QED
      BY <1>4, <3>2
  <2>5. ASSUME NEW req \in Requests, IsFile(req)
        PROVE  FileOwners(req)' = IF req \in openFiles' THEN 1 ELSE 0
    <3>1. Cardinality(Holders({"post"}, req))' + (IF own = req THEN 1 ELSE 0) = Cardinality(Holders({"post"}, req))
      BY <1>2, <1>5, <2>1
    <3>2. FileOwners(req)' = FileOwners(req)
      BY <1>5, <1>6, <2>3, <3>1
    <3> QED
      BY <1>6, <2>1, <2>5, <3>2
  <2> QED
    BY <1>3, <2>4, <2>5 DEF Kept, Placed, Owned, IsFile
<1> QED
  BY <1>7, <1>8, <1>9, <1>10, <1>11 DEF WorkerStep

LEMMA SendRequestKept ==
    ASSUME Settled, Settled', Kept, NEW c \in Clients, SendRequest(c)
    PROVE  Kept'
<1> DEFINE n == peer[c].asked + 1
<1>1. /\ UNCHANGED <<pc, request, conn, queue_, worker, pending_writes_, openFiles, lost>>
      /\ peer[c].asked < Len(Script[c])
      /\ peer' = [peer EXCEPT ![c].asked = @ + 1, ![c].inbox = Append(@, peer[c].asked + 1)]
  BY DEF SendRequest, ServerUntouched, loopVars, poolVars
<1>2. /\ peer[c] \in Peer(c) /\ Script[c] \in Seq(Kinds) /\ n \in 1 .. Len(Script[c])
      /\ peer[c].inbox \in Seq(1 .. Len(Script[c]))
  BY <1>1, EventLoopAssumption DEF Settled, TableInv, ClientsTyped, Peer
<1>3. /\ peer'[c].asked = n /\ peer'[c].inbox = Append(peer[c].inbox, n) /\ peer'[c].got = peer[c].got
      /\ \A d \in Clients \ {c} : peer'[d] = peer[d]
  <2> DEFINE q == [peer[c] EXCEPT !.asked = n]
             later == Append(peer[c].inbox, n)
             p == [q EXCEPT !.inbox = later]
  <2>1. peer'[c] = p /\ \A d \in Clients \ {c} : peer'[d] = peer[d]
    BY <1>1 DEF Settled, TableInv, ClientsTyped
  <2> HIDE DEF n, later
  <2>2. q = [connected |-> peer[c].connected, asked |-> n, inbox |-> peer[c].inbox,
             room |-> peer[c].room, got |-> peer[c].got, fin |-> peer[c].fin, rst |-> peer[c].rst]
    BY <1>2, PeerFields
  <2> HIDE DEF q
  <2>3. p = [connected |-> peer[c].connected, asked |-> n, inbox |-> later,
             room |-> peer[c].room, got |-> peer[c].got, fin |-> peer[c].fin, rst |-> peer[c].rst]
    BY <2>2
  <2> HIDE DEF p
  <2> QED
    BY <2>1, <2>3 DEF later
<1>4. \A d \in Clients : peer'[d].got = peer[d].got
  BY <1>3
<1>5. Streams'
  BY <1>1, <1>4, QuietStreams DEF Kept
<1>6. Owned'
  BY <1>1, QuietFiles DEF Kept, SameWorkers
<1> HIDE DEF n
<1>7. ASSUME NEW req \in Requests PROVE PlacedAt(req)'
  <2>1. PlacedAt(req) /\ req[1] \in Clients /\ req[2] \in 1 .. Len(Script[req[1]]) /\ req = <<req[1], req[2]>>
    BY RequestIsSome DEF Kept, Placed
  <2>2. /\ Copies(req) = Arrived(req) + InHands(req) + Count(queue_, req) + AtWorkers(req)
                         + Count(pending_writes_, req) + Answered(req)
        /\ Arrived(req) \in Nat /\ InHands(req) \in {0, 1} /\ Count(queue_, req) \in Nat
        /\ AtWorkers(req) \in Nat /\ Count(pending_writes_, req) \in Nat /\ Answered(req) \in Nat
        /\ Copies(req)' = Arrived(req)' + InHands(req)' + Count(queue_, req)' + AtWorkers(req)'
                         + Count(pending_writes_, req)' + Answered(req)'
    BY DEF Settled, CopiesAdd
  <2>3. /\ InHands(req)' = InHands(req) /\ Count(queue_, req)' = Count(queue_, req)
        /\ AtWorkers(req)' = AtWorkers(req) /\ Count(pending_writes_, req)' = Count(pending_writes_, req)
        /\ Answered(req)' = Answered(req)
    BY <1>1, <1>4, <2>1 DEF InHands, AtWorkers, Answered
  <2>4. Arrived(req)' = Arrived(req) + (IF req[1] = c /\ req[2] = n THEN 1 ELSE 0)
    <3>1. CASE req[1] = c
      <4>1. Count(Append(peer[c].inbox, n), req[2]) = Count(peer[c].inbox, req[2]) + (IF n = req[2] THEN 1 ELSE 0)
        BY <1>2, CountAppend
      <4>2. Arrived(req)' = Count(Append(peer[c].inbox, n), req[2]) /\ Arrived(req) = Count(peer[c].inbox, req[2])
        BY <1>3, <3>1 DEF Arrived
      <4> QED
        BY <3>1, <4>1, <4>2
    <3>2. CASE req[1] # c
      <4>1. Arrived(req)' = Arrived(req)
        BY <1>3, <2>1, <3>2 DEF Arrived
      <4> QED
        BY <2>2, <3>2, <4>1
    <3> QED
      BY <3>1, <3>2
  <2>5. CASE req[1] = c /\ req[2] = n
    <3>1. req[2] > peer[req[1]].asked /\ ~(req[2] > peer'[req[1]].asked)
      BY <1>2, <1>3, <2>5 DEF n, Peer
    <3>2. Copies(req) = 0 /\ req \notin lost
      BY <2>1, <3>1 DEF PlacedAt
    <3>3. Copies(req)' = 1
      BY <2>2, <2>3, <2>4, <2>5, <3>2
    <3> QED
      BY <1>1, <3>1, <3>2, <3>3 DEF PlacedAt
  <2>6. CASE ~(req[1] = c /\ req[2] = n)
    <3>1. Copies(req)' = Copies(req)
      BY <2>2, <2>3, <2>4, <2>6
    <3>2. req[2] > peer'[req[1]].asked <=> req[2] > peer[req[1]].asked
      <4>1. CASE req[1] = c
        <5>1. req[2] # n /\ req[2] \in Nat /\ peer[c].asked \in Nat
          BY <1>2, <2>1, <2>6, <4>1 DEF Peer
        <5> QED
          BY <1>3, <4>1, <5>1 DEF n
      <4>2. CASE req[1] # c
        BY <1>3, <2>1, <4>2
      <4> QED
        BY <4>1, <4>2
    <3> QED
      BY <1>1, <2>1, <3>1, <3>2 DEF PlacedAt
  <2> QED
    BY <2>5, <2>6
<1> QED
  BY <1>5, <1>6, <1>7 DEF Kept, Placed

(* The loop hands its request to a queue. *)
LEMMA HandedKept ==
    ASSUME Settled, Settled', Kept, Submit \/ PostError
    PROVE  Kept'
<1>1. /\ UNCHANGED <<conn, worker, openFiles, peer, lost>>
      /\ pc \in {"submit", "post"} /\ pc' = "read" /\ request \in Requests
      /\ queue_ \in Seq(Requests) /\ pending_writes_ \in Seq(Requests)
      /\ \/ queue_' = Append(queue_, request) /\ pending_writes_' = pending_writes_
         \/ queue_' = queue_ /\ pending_writes_' = Append(pending_writes_, request) /\ pc = "post"
  BY DEF Submit, PostError, NextRecv, Goto, LoopKeeps, poolVars, Settled, TableInv, LoopTyped, PoolTyped
<1>2. Streams'
  BY <1>1, QuietStreams DEF Kept
<1>3. ASSUME NEW req \in Requests
      PROVE  /\ Count(Append(queue_, request), req) = Count(queue_, req) + (IF request = req THEN 1 ELSE 0)
             /\ Count(Append(pending_writes_, request), req)
                = Count(pending_writes_, req) + (IF request = req THEN 1 ELSE 0)
  BY <1>1, CountAppend
<1>4. ASSUME NEW req \in Requests PROVE PlacedAt(req)'
  <2>1. PlacedAt(req) /\ req[1] \in Clients
    BY RequestIsSome DEF Kept, Placed
  <2>2. /\ Copies(req) = Arrived(req) + InHands(req) + Count(queue_, req) + AtWorkers(req)
                         + Count(pending_writes_, req) + Answered(req)
        /\ Arrived(req) \in Nat /\ InHands(req) \in {0, 1} /\ Count(queue_, req) \in Nat
        /\ AtWorkers(req) \in Nat /\ Count(pending_writes_, req) \in Nat /\ Answered(req) \in Nat
        /\ Copies(req)' = Arrived(req)' + InHands(req)' + Count(queue_, req)' + AtWorkers(req)'
                         + Count(pending_writes_, req)' + Answered(req)'
    BY DEF Settled, CopiesAdd
  <2>3. /\ Arrived(req)' = Arrived(req) /\ AtWorkers(req)' = AtWorkers(req) /\ Answered(req)' = Answered(req)
        /\ InHands(req) = (IF request = req THEN 1 ELSE 0) /\ InHands(req)' = 0
    BY <1>1, <2>1 DEF Arrived, InHands, AtWorkers, Answered
  <2>4. \/ /\ Count(queue_, req)' = Count(queue_, req) + InHands(req)
           /\ Count(pending_writes_, req)' = Count(pending_writes_, req)
        \/ /\ Count(queue_, req)' = Count(queue_, req)
           /\ Count(pending_writes_, req)' = Count(pending_writes_, req) + InHands(req)
    BY <1>1, <1>3, <2>3
  <2>5. Copies(req)' = Copies(req)
    BY <2>2, <2>3, <2>4
  <2> QED
    BY <1>1, <2>1, <2>5, PlaceStays
<1>5. ASSUME NEW req \in Requests, IsFile(req)
      PROVE  FileOwners(req)' = IF req \in openFiles' THEN 1 ELSE 0
  <2>1. FileOwners(req) = Cardinality(Holders({"post"}, req)) + Count(pending_writes_, req)
                          + (IF conn[req[1]].sendfile_op.r = req[2] THEN 1 ELSE 0)
    BY DEF Settled, OwnersAdd
  <2>2. FileOwners(req)' = Cardinality(Holders({"post"}, req))' + Count(pending_writes_, req)'
                           + (IF conn[req[1]].sendfile_op.r = req[2] THEN 1 ELSE 0)
    BY <1>1 DEF Settled, OwnersAdd
  <2>3. Cardinality(Holders({"post"}, req))' = Cardinality(Holders({"post"}, req))
    BY <1>1 DEF Holders
  <2>4. Count(pending_writes_, req)' = Count(pending_writes_, req)
    <3>1. CASE pending_writes_' = pending_writes_
      BY <3>1
    <3>2. CASE pending_writes_' = Append(pending_writes_, request) /\ pc = "post"
      <4>1. request # req
        BY <1>5, <3>2 DEF IsFile, Settled, AnswersBad
      <4>2. Count(pending_writes_, req)' = Count(Append(pending_writes_, request), req)
        BY <3>2
      <4>3. Count(pending_writes_, req) \in Nat
        BY DEF Settled, OwnersAdd
      <4> QED
        BY <1>3, <4>1, <4>2, <4>3
    <3> QED
      BY <1>1, <3>1, <3>2
  <2>5. FileOwners(req) = IF req \in openFiles THEN 1 ELSE 0
    BY <1>5 DEF Kept, Owned
  <2> QED
    BY <1>1, <2>1, <2>2, <2>3, <2>4, <2>5
<1> QED
  BY <1>2, <1>4, <1>5 DEF Kept, Placed, Owned, IsFile

(* recv returns n requests: the first goes into the loop's hands, the others *)
(* are lost.                                                                 *)
LEMMA ReadRequestKept ==
    ASSUME Settled, Settled', Kept, NEW c \in Clients, ReadRequest(c)
    PROVE  Kept'
<1> DEFINE inbox == peer[c].inbox
<1>1. /\ pc = "read" /\ pc' \in {"post", "submit"} /\ inbox # <<>>
      /\ UNCHANGED <<queue_, worker, pending_writes_, openFiles>>
      /\ request' = <<c, Head(inbox)>>
      /\ \E k \in BOOLEAN : conn' = [conn EXCEPT ![c].keep_alive = k]
  BY DEF ReadRequest, Reading, Goto, poolVars
<1>2. peer[c] \in Peer(c) /\ inbox \in Seq(1 .. Len(Script[c])) /\ Connected(conn[c])
  BY DEF Settled, TableInv, ClientsTyped, Peer
<1>3. PICK n \in 1 .. Len(inbox) :
          /\ peer' = [peer EXCEPT ![c].inbox = SubSeq(@, n + 1, Len(@))]
          /\ lost' = lost \cup {<<c, inbox[k]>> : k \in 2 .. n}
  BY DEF ReadRequest
<1> DEFINE front == SubSeq(inbox, 1, n)
           left == SubSeq(inbox, n + 1, Len(inbox))
<1>4. \A d \in Clients :
          /\ conn'[d].write_buf = conn[d].write_buf /\ conn'[d].sendfile_op = conn[d].sendfile_op
          /\ conn'[d].state = conn[d].state /\ conn'[d].fd = conn[d].fd
  <2>1. PICK k \in BOOLEAN : conn' = [conn EXCEPT ![c].keep_alive = k]
    BY <1>1
  <2>2. conn'[c] = [conn[c] EXCEPT !.keep_alive = k] /\ \A d \in Clients \ {c} : conn'[d] = conn[d]
    BY <2>1 DEF Settled, TableInv, ClientsTyped
  <2> QED
    BY <1>2, <2>2 DEF Connected
<1>5. /\ peer'[c].inbox = left /\ peer'[c].asked = peer[c].asked /\ peer'[c].got = peer[c].got
      /\ \A d \in Clients \ {c} : peer'[d] = peer[d]
  <2> DEFINE p == [peer[c] EXCEPT !.inbox = left]
  <2>1. peer'[c] = p /\ \A d \in Clients \ {c} : peer'[d] = peer[d]
    BY <1>3 DEF Settled, TableInv, ClientsTyped
  <2> HIDE DEF left, inbox
  <2>2. peer[c] \in Peer(c)
    BY <1>2
  <2>3. p = [connected |-> peer[c].connected, asked |-> peer[c].asked, inbox |-> left,
             room |-> peer[c].room, got |-> peer[c].got, fin |-> peer[c].fin, rst |-> peer[c].rst]
    BY <2>2, PeerFields
  <2> HIDE DEF p
  <2> QED
    BY <2>1, <2>3
<1>6. Streams'
  <2>1. \A d \in Clients : peer'[d].got = peer[d].got
    BY <1>5
  <2> QED
    BY <1>4, <2>1, QuietStreams DEF Kept
<1>7. Owned'
  BY <1>1, <1>4, QuietFiles DEF Kept, SameWorkers
<1>8. /\ front \in Seq(1 .. Len(Script[c])) /\ Len(front) = n /\ (\A k \in 1 .. n : front[k] = inbox[k])
      /\ left \in Seq(1 .. Len(Script[c]))
      /\ n \in 1 .. Len(inbox) /\ n \in Nat /\ Head(inbox) = inbox[1]
      /\ \A i : Count(inbox, i) = Count(front, i) + Count(left, i)
  <2>1. n \in 0 .. Len(inbox) /\ n \in Nat /\ n \in 1 .. Len(inbox)
    BY <1>2, <1>3
  <2>2. Head(inbox) = inbox[1]
    BY <1>1, <1>2
  <2> HIDE DEF inbox
  <2>3. /\ front \in Seq(1 .. Len(Script[c])) /\ Len(front) = n /\ (\A k \in 1 .. n : front[k] = inbox[k])
        /\ left \in Seq(1 .. Len(Script[c]))
    BY <1>2, <2>1, SplitSeq
  <2>4. \A i : Count(inbox, i) = Count(front, i) + Count(left, i)
    BY <1>2, <2>1, CountSplit
  <2> QED
    BY <2>1, <2>2, <2>3, <2>4
<1> HIDE DEF front, left
<1>9. \A i : /\ Count(front, i) \in Nat /\ Count(left, i) \in Nat
             /\ Count(front, i) = 0 <=> \A k \in 1 .. n : inbox[k] # i
  <2>1. \A i : /\ Count(front, i) \in Nat /\ Count(left, i) \in Nat
               /\ Count(front, i) = 0 <=> \A k \in DOMAIN front : front[k] # i
    BY <1>8, CountFinite
  <2>2. DOMAIN front = 1 .. n
    BY <1>8
  <2> HIDE DEF inbox
  <2> QED
    BY <1>8, <2>1, <2>2
<1>10. ASSUME NEW req \in Requests PROVE PlacedAt(req)'
  <2>1. PlacedAt(req) /\ req[1] \in Clients /\ req = <<req[1], req[2]>>
    BY RequestIsSome DEF Kept, Placed
  <2>2. /\ Copies(req) = Arrived(req) + InHands(req) + Count(queue_, req) + AtWorkers(req)
                         + Count(pending_writes_, req) + Answered(req)
        /\ Arrived(req) \in Nat /\ InHands(req) \in {0, 1} /\ Count(queue_, req) \in Nat
        /\ AtWorkers(req) \in Nat /\ Count(pending_writes_, req) \in Nat /\ Answered(req) \in Nat
        /\ Copies(req)' = Arrived(req)' + InHands(req)' + Count(queue_, req)' + AtWorkers(req)'
                         + Count(pending_writes_, req)' + Answered(req)'
    BY DEF Settled, CopiesAdd
  <2>3. /\ Count(queue_, req)' = Count(queue_, req) /\ AtWorkers(req)' = AtWorkers(req)
        /\ Count(pending_writes_, req)' = Count(pending_writes_, req)
    BY <1>1 DEF AtWorkers
  <2>4. Answered(req)' = Answered(req)
    BY <1>4, <1>5, <2>1 DEF Answered
  <2>5. InHands(req) = 0 /\ InHands(req)' = IF request' = req THEN 1 ELSE 0
    BY <1>1 DEF InHands
  <2>6. /\ peer'[req[1]].asked = peer[req[1]].asked
        /\ conn'[req[1]].state = conn[req[1]].state
    BY <1>4, <1>5, <2>1
  <2>7. req \in lost' <=> req \in lost \/ (req[1] = c /\ \E k \in 2 .. n : inbox[k] = req[2])
    BY <1>3, <2>1
  <2>8. CASE req[1] # c
    <3>1. Arrived(req)' = Arrived(req)
      BY <1>5, <2>1, <2>8 DEF Arrived
    <3>2. InHands(req)' = 0
      BY <1>1, <2>5, <2>8
    <3>3. Copies(req)' = Copies(req)
      BY <2>2, <2>3, <2>4, <2>5, <3>1, <3>2
    <3> QED
      BY <2>1, <2>6, <2>7, <2>8, <3>3, PlaceStays
  <2>9. CASE req[1] = c
    <3> DEFINE i == req[2]
               taken == Count(front, i)
               rest == Count(left, i)
    <3>1. /\ Arrived(req) = taken + rest /\ Arrived(req)' = rest /\ taken \in Nat /\ rest \in Nat
          /\ taken = 0 <=> \A k \in 1 .. n : inbox[k] # i
      <4>1. Arrived(req) = Count(inbox, i) /\ Arrived(req)' = Count(left, i)
        BY <1>5, <2>9 DEF Arrived
      <4>2. Count(inbox, i) = Count(front, i) + Count(left, i)
        BY <1>8
      <4> HIDE DEF inbox, i
      <4> QED
        BY <1>9, <4>1, <4>2
    <3>2. InHands(req)' = IF i = inbox[1] THEN 1 ELSE 0
      BY <1>1, <1>8, <2>1, <2>5, <2>9
    <3> HIDE DEF taken, rest
    <3>3. CASE \E k \in 1 .. n : inbox[k] = i
      <4>1. taken > 0 /\ Arrived(req) # 0
        BY <3>1, <3>3
      <4>2. /\ Arrived(req) + InHands(req) + Count(queue_, req) + AtWorkers(req)
                  + Count(pending_writes_, req) + Answered(req) = 1
            /\ Copies(req) = 1 /\ req \notin lost /\ req[2] <= peer[req[1]].asked
        <5>1. Arrived(req) + InHands(req) + Count(queue_, req) + AtWorkers(req)
                  + Count(pending_writes_, req) + Answered(req) # 0
          BY <2>2, <4>1
        <5> QED
          BY <5>1, OnlyThere DEF Kept
      <4>3. /\ rest = 0 /\ taken = 1 /\ Count(queue_, req) = 0 /\ AtWorkers(req) = 0
            /\ Count(pending_writes_, req) = 0 /\ Answered(req) = 0
        BY <2>2, <3>1, <4>1, <4>2
      <4>4. Copies(req)' = InHands(req)'
        BY <2>2, <2>3, <2>4, <3>1, <3>2, <4>3
      <4>5. CASE i = inbox[1]
        <5>1. \A k \in 2 .. n : inbox[k] # i
          <6> SUFFICES ASSUME NEW k \in 2 .. n, inbox[k] = i PROVE FALSE
            OBVIOUS
          <6>1. k \in DOMAIN inbox /\ 1 \in DOMAIN inbox /\ 1 # k
            <7>1. inbox \in Seq(1 .. Len(Script[c])) /\ n \in 1 .. Len(inbox)
              BY <1>2, <1>8
            <7> HIDE DEF inbox
            <7>2. DOMAIN inbox = 1 .. Len(inbox) /\ Len(inbox) \in Nat
              BY <7>1
            <7> QED
              BY <7>1, <7>2
          <6>2. Count(inbox, inbox[1]) > 1
            BY <1>2, <4>5, <6>1, CountTwice
          <6>3. Arrived(req) = Count(inbox, i)
            BY <2>9 DEF Arrived
          <6> HIDE DEF inbox, i
          <6> QED
            BY <3>1, <4>3, <4>5, <6>2, <6>3
        <5>2. req \notin lost'
          BY <2>7, <4>2, <5>1
        <5>3. Copies(req)' = 1
          BY <3>2, <4>4, <4>5
        <5>4. ~(req[2] > peer'[req[1]].asked)
          <6>1. req[2] \in Nat /\ peer[c].asked \in Nat
            BY <1>2, <2>9, RequestIsSome DEF Peer
          <6> QED
            BY <2>6, <2>9, <4>2, <6>1
        <5> QED
          BY <5>2, <5>3, <5>4 DEF PlacedAt
      <4>6. CASE i # inbox[1]
        <5>1. \E k \in 2 .. n : inbox[k] = i
          BY <1>8, <3>3, <4>6
        <5>2. req \in lost'
          BY <2>7, <2>9, <5>1
        <5>3. Copies(req)' = 0 /\ Copies(req) # 0
          BY <3>2, <4>2, <4>4, <4>6
        <5> QED
          BY <2>1, <2>6, <5>2, <5>3, PlaceLeft
      <4> QED
        BY <4>5, <4>6
    <3>4. CASE \A k \in 1 .. n : inbox[k] # i
      <4>1. i # inbox[1] /\ ~\E k \in 2 .. n : inbox[k] = i
        BY <1>8, <3>4
      <4>2. InHands(req)' = 0 /\ (req \in lost' <=> req \in lost)
        BY <2>7, <3>2, <4>1
      <4>3. Copies(req)' = Copies(req)
        BY <2>2, <2>3, <2>4, <2>5, <3>1, <3>4, <4>2
      <4> QED
        BY <2>1, <2>6, <4>2, <4>3, PlaceStays
    <3> QED
      BY <3>3, <3>4
  <2> QED
    BY <2>8, <2>9
<1> QED
  BY <1>6, <1>7, <1>10 DEF Kept, Placed

(* A response whose connection has died: its file is closed. *)
LEMMA DrainDeadKept ==
    ASSUME Settled, Settled', Kept, NEW own \in Requests, DrainDead(own)
    PROVE  Kept'
<1>1. /\ pc = "drain" /\ UNCHANGED <<pc, request, conn, queue_, worker, peer, lost>>
      /\ pending_writes_ # <<>> /\ own = Head(pending_writes_) /\ pending_writes_' = Tail(pending_writes_)
      /\ openFiles' = openFiles \ {own} /\ conn[own[1]].state = "Closed"
  BY DEF DrainDead, Draining, TakePending, IsAlive, LoopKeeps, poolVars
<1>2. Streams'
  BY <1>1, QuietStreams DEF Kept
<1>3. ASSUME NEW req \in Requests
      PROVE  Count(pending_writes_, req) = Count(pending_writes_, req)' + (IF own = req THEN 1 ELSE 0)
  <2>1. pending_writes_ \in Seq(Requests)
    BY DEF Settled, TableInv, PoolTyped
  <2>2. Count(pending_writes_, req) = Count(Tail(pending_writes_), req)
                                      + (IF Head(pending_writes_) = req THEN 1 ELSE 0)
    BY <1>1, <2>1, CountTail
  <2> QED
    BY <1>1, <2>2
<1>4. ASSUME NEW req \in Requests PROVE PlacedAt(req)'
  <2>1. PlacedAt(req)
    BY DEF Kept, Placed
  <2>2. /\ Copies(req) = Arrived(req) + InHands(req) + Count(queue_, req) + AtWorkers(req)
                         + Count(pending_writes_, req) + Answered(req)
        /\ Arrived(req) \in Nat /\ InHands(req) \in {0, 1} /\ Count(queue_, req) \in Nat
        /\ AtWorkers(req) \in Nat /\ Count(pending_writes_, req) \in Nat /\ Answered(req) \in Nat
        /\ Copies(req)' = Arrived(req)' + InHands(req)' + Count(queue_, req)' + AtWorkers(req)'
                         + Count(pending_writes_, req)' + Answered(req)'
        /\ Count(pending_writes_, req)' \in Nat
    BY DEF Settled, CopiesAdd
  <2>3. /\ Arrived(req)' = Arrived(req) /\ InHands(req)' = InHands(req) /\ Answered(req)' = Answered(req)
        /\ AtWorkers(req)' = AtWorkers(req) /\ Count(queue_, req)' = Count(queue_, req)
    BY <1>1 DEF Arrived, InHands, AtWorkers, Answered
  <2>4. CASE own # req
    <3>1. Copies(req)' = Copies(req)
      BY <1>3, <2>2, <2>3, <2>4
    <3> QED
      BY <1>1, <2>1, <3>1, PlaceStays
  <2>5. CASE own = req
    <3>1. Copies(req)' + 1 = Copies(req) /\ Copies(req)' \in Nat
      BY <1>3, <2>2, <2>3, <2>5
    <3>2. Copies(req)' = 0 /\ Copies(req) # 0
      BY <2>1, <3>1 DEF PlacedAt
    <3> QED
      BY <1>1, <2>1, <2>5, <3>2, PlaceLeft
  <2> QED
    BY <2>4, <2>5
<1>5. ASSUME NEW req \in Requests, IsFile(req)
      PROVE  FileOwners(req)' = IF req \in openFiles' THEN 1 ELSE 0
  <2>1. /\ FileOwners(req) = Cardinality(Holders({"post"}, req)) + Count(pending_writes_, req)
                             + (IF conn[req[1]].sendfile_op.r = req[2] THEN 1 ELSE 0)
        /\ Cardinality(Holders({"post"}, req)) \in Nat /\ Count(pending_writes_, req) \in Nat
        /\ Count(pending_writes_, req)' \in Nat
    BY DEF Settled, OwnersAdd
  <2>2. FileOwners(req)' = Cardinality(Holders({"post"}, req)) + Count(pending_writes_, req)'
                             + (IF conn[req[1]].sendfile_op.r = req[2] THEN 1 ELSE 0)
    <3>1. FileOwners(req)' = Cardinality(Holders({"post"}, req))' + Count(pending_writes_, req)'
                             + (IF conn'[req[1]].sendfile_op.r = req[2] THEN 1 ELSE 0)
      BY DEF Settled, OwnersAdd
    <3>2. Cardinality(Holders({"post"}, req))' = Cardinality(Holders({"post"}, req))
      BY <1>1 DEF Holders
    <3> QED
      BY <1>1, <3>1, <3>2
  <2>3. FileOwners(req) = IF req \in openFiles THEN 1 ELSE 0
    BY <1>5 DEF Kept, Owned
  <2>4. req \in openFiles' <=> req \in openFiles /\ req # own
    BY <1>1
  <2>5. CASE own # req
    <3>1. Count(pending_writes_, req)' = Count(pending_writes_, req)
      BY <1>3, <2>1, <2>5
    <3> QED
      BY <2>1, <2>2, <2>3, <2>4, <2>5, <3>1
  <2>6. CASE own = req
    <3>1. Count(pending_writes_, req) = Count(pending_writes_, req)' + 1 /\ req \notin openFiles'
      BY <1>3, <2>1, <2>4, <2>6
    <3>2. FileOwners(req) = FileOwners(req)' + 1 /\ FileOwners(req)' \in Nat
      BY <2>1, <2>2, <3>1
    <3> QED
      BY <2>3, <3>1, <3>2
  <2> QED
    BY <2>5, <2>6
<1> QED
  BY <1>2, <1>4, <1>5 DEF Kept, Placed, Owned, IsFile

-----------------------------------------------------------------------------
(* flush_write() on a connection, with or without a new response on it *)

LEMMA FlushKeepsStreams ==
    ASSUME Settled, Streams, NEW c \in Clients, NEW cn, NEW left, NEW done,
           Connected(cn), cn.fd = conn[c].fd, conn[c].state # "None",
           cn.state \notin {"None", "Destroyed"} \/ conn[c].fd = NoFd,
           conn[c].fd = NoFd => HasUnsent(cn) /\ (cn.sendfile_op.r = 0 \/ cn.state # "Closed"),
           cn.state = "Closed" => cn.fd = NoFd,
           Queued(cn, c), Sending(cn, c, peer[c].got), Once(cn, c, peer[c].got),
           Flush(c, cn, left, done), UNCHANGED connections_, left # "top", done # "top"
    PROVE  /\ Streams'
           /\ \A d \in Clients \ {c} : conn'[d] = conn[d] /\ peer'[d] = peer[d]
           /\ peer'[c].inbox = peer[c].inbox /\ peer'[c].asked = peer[c].asked
           /\ \A r : Count(conn'[c].write_buf, Headers(r)) + Count(peer'[c].got, Headers(r))
                     = Count(cn.write_buf, Headers(r)) + Count(peer[c].got, Headers(r))
           /\ conn'[c].sendfile_op.r \in {0, cn.sendfile_op.r}
           /\ openFiles' = openFiles \ ((FileOf(c, conn[c]) \cup FileOf(c, cn)) \ FileOf(c, conn'[c]))
           /\ cn.state = "Closed" => conn'[c].state = "Closed"
           /\ conn'[c].fd = NoFd => conn'[c].state = "Closed"
<1> DEFINE f == FlushWrite(cn, Room(c), Broken(c))
           fails == Broken(c) /\ HasUnsent(cn)
           got == peer[c].got \o f.sent
           room == peer[c].room - Len(f.sent)
           p == [peer[c] EXCEPT !.got = got, !.room = room]
<1>1. /\ conn'[c] = f.conn /\ peer'[c] = p
      /\ openFiles' = openFiles \ ((FileOf(c, conn[c]) \ FileOf(c, f.conn))
                                     \cup (FileOf(c, cn) \ FileOf(c, f.conn)))
  BY DEF Flush, ConnBecomes, Settled, TableInv, ClientsTyped
<1>2. /\ \A d \in Clients \ {c} : conn'[d] = conn[d] /\ peer'[d] = peer[d]
      /\ conn'[c].state # "None"
  BY FlushTable DEF Settled
<1>3. peer[c] \in Peer(c) /\ peer[c].got \in Seq(Units) /\ Room(c) \in Nat
  BY EventLoopAssumption DEF Settled, TableInv, ClientsTyped, Peer, Room
<1>4. Ordered(peer[c].got) /\ Wanted(c) \subseteq Nat
  BY DEF Streams, Wanted
<1>5. /\ Queued(f.conn, c) /\ Ordered(got) /\ Sending(f.conn, c, got)
      /\ \A r : Count(f.conn.write_buf, Headers(r)) + Count(got, Headers(r))
                = Count(cn.write_buf, Headers(r)) + Count(peer[c].got, Headers(r))
      /\ f.conn.sendfile_op.r \in {0, cn.sendfile_op.r}
  BY <1>3, <1>4, FlushUnits
<1>6. /\ fails => f.conn = OnClosed(cn)
      /\ ~fails => f.conn.fd = cn.fd
  <2>1. CASE fails
    BY <2>1, FlushFails
  <2>2. CASE ~fails
    BY <1>3, <2>2, FlushSends
  <2> QED
    BY <2>1, <2>2
<1>7. cn.fd = NoFd => fails
  BY DEF Broken
<1>8. cn.state = "Closed" => OnClosed(cn) = cn
  BY OnClosedTyped
<1>9. cn.state # "Closed" => OnClosed(cn).sendfile_op.r = 0
  <2>1. cn.state # "Closed" => OnClosed(cn).sendfile_op = NoSendfile
    BY OnClosedTyped
  <2> QED
    BY <2>1 DEF NoSendfile
<1> HIDE DEF f, fails
<1>10. cn.state = "Closed" => f.conn = cn
  BY <1>6, <1>7, <1>8
<1>11. f.conn.fd = NoFd => f.conn.sendfile_op.r = 0
  <2>1. CASE fails /\ cn.state # "Closed"
    BY <1>6, <1>9, <2>1
  <2>2. CASE ~fails /\ cn.state # "Closed"
    BY <1>6, <1>7, <2>2
  <2>3. CASE cn.state = "Closed"
    BY <1>10, <2>3
  <2> QED
    BY <2>1, <2>2, <2>3
<1>16. f.conn.fd = NoFd => f.conn.state = "Closed"
  <2>1. OnClosed(cn).state = "Closed"
    BY OnClosedTyped
  <2> QED
    BY <1>6, <1>7, <2>1
<1>12. p.got = got /\ p.inbox = peer[c].inbox /\ p.asked = peer[c].asked
  <2> DEFINE q == [peer[c] EXCEPT !.got = got]
  <2> HIDE DEF got, room
  <2>1. p = [q EXCEPT !.room = room]
    OBVIOUS
  <2>2. q = [connected |-> peer[c].connected, asked |-> peer[c].asked, inbox |-> peer[c].inbox,
             room |-> peer[c].room, got |-> got, fin |-> peer[c].fin, rst |-> peer[c].rst]
    BY <1>3, PeerFields
  <2> HIDE DEF q, p
  <2>3. p = [connected |-> peer[c].connected, asked |-> peer[c].asked, inbox |-> peer[c].inbox,
             room |-> room, got |-> got, fin |-> peer[c].fin, rst |-> peer[c].rst]
    BY <2>1, <2>2
  <2> QED
    BY <2>3
<1> HIDE DEF p, got
<1>13. Streams'
  <2> SUFFICES ASSUME NEW d \in Clients
               PROVE  /\ Queued(conn'[d], d) /\ Ordered(peer'[d].got) /\ Sending(conn'[d], d, peer'[d].got)
                      /\ conn'[d].state = "None" => conn'[d].write_buf = <<>>
                      /\ conn'[d].fd = NoFd => conn'[d].sendfile_op.r = 0
                      /\ conn'[d].fd = NoFd /\ conn'[d].state # "Closed" => conn'[d].write_buf = <<>>
    BY DEF Streams
  <2>1. CASE d = c
    <3>1. peer'[c].got = got
      BY <1>1, <1>12
    <3> QED
      BY <1>1, <1>2, <1>5, <1>11, <1>16, <2>1, <3>1
  <2>2. CASE d # c
    BY <1>2, <2>2 DEF Streams
  <2> QED
    BY <2>1, <2>2
<1>14. \A r : Count(conn'[c].write_buf, Headers(r)) + Count(peer'[c].got, Headers(r))
              = Count(cn.write_buf, Headers(r)) + Count(peer[c].got, Headers(r))
  <2>1. conn'[c] = f.conn /\ peer'[c].got = got
    BY <1>1, <1>12
  <2> QED
    BY <1>5, <2>1
<1>15. openFiles' = openFiles \ ((FileOf(c, conn[c]) \cup FileOf(c, cn)) \ FileOf(c, conn'[c]))
  BY <1>1
<1> QED
  BY <1>1, <1>2, <1>5, <1>10, <1>12, <1>13, <1>14, <1>15, <1>16

(* A file that stays with whom it is, or whose transfer ends. *)
LEMMA FileStays ==
    ASSUME Settled, Settled', Owned, NEW req \in Requests, IsFile(req), UNCHANGED worker,
           Count(pending_writes_, req)' = Count(pending_writes_, req),
           conn'[req[1]].sendfile_op.r = req[2] => conn[req[1]].sendfile_op.r = req[2],
           req \in openFiles' <=> req \in openFiles
                  /\ (conn[req[1]].sendfile_op.r = req[2] => conn'[req[1]].sendfile_op.r = req[2])
    PROVE  FileOwners(req)' = IF req \in openFiles' THEN 1 ELSE 0
<1>1. FileOwners(req) = Cardinality(Holders({"post"}, req)) + Count(pending_writes_, req)
                        + (IF conn[req[1]].sendfile_op.r = req[2] THEN 1 ELSE 0)
      /\ Cardinality(Holders({"post"}, req)) \in Nat /\ Count(pending_writes_, req) \in Nat
  BY DEF Settled, OwnersAdd
<1>2. FileOwners(req)' = Cardinality(Holders({"post"}, req)) + Count(pending_writes_, req)
                         + (IF conn'[req[1]].sendfile_op.r = req[2] THEN 1 ELSE 0)
  <2>1. FileOwners(req)' = Cardinality(Holders({"post"}, req))' + Count(pending_writes_, req)'
                           + (IF conn'[req[1]].sendfile_op.r = req[2] THEN 1 ELSE 0)
    BY DEF Settled, OwnersAdd
  <2>2. Cardinality(Holders({"post"}, req))' = Cardinality(Holders({"post"}, req))
    BY DEF Holders
  <2> QED
    BY <2>1, <2>2
<1>3. FileOwners(req) = IF req \in openFiles THEN 1 ELSE 0
  BY DEF Owned
<1>4. CASE conn'[req[1]].sendfile_op.r = req[2] <=> conn[req[1]].sendfile_op.r = req[2]
  BY <1>1, <1>2, <1>3, <1>4
<1>5. CASE conn'[req[1]].sendfile_op.r # req[2] /\ conn[req[1]].sendfile_op.r = req[2]
  <2>1. FileOwners(req) = FileOwners(req)' + 1 /\ FileOwners(req)' \in Nat
    BY <1>1, <1>2, <1>5
  <2> QED
    BY <1>3, <1>5, <2>1
<1> QED
  BY <1>4, <1>5

(* A request is in a buffer or with its client once. *)
LEMMA AnsweredOnce ==
    ASSUME Settled, Placed, NEW req \in Requests
    PROVE  /\ Answered(req) \in {0, 1}
           /\ Count(pending_writes_, req) # 0 => Answered(req) = 0
<1>1. PlacedAt(req) /\ (Copies(req) = 1 \/ Copies(req) = 0)
  BY DEF Placed, PlacedAt
<1>2. /\ Copies(req) = Arrived(req) + InHands(req) + Count(queue_, req) + AtWorkers(req)
                       + Count(pending_writes_, req) + Answered(req)
      /\ Arrived(req) \in Nat /\ InHands(req) \in {0, 1} /\ Count(queue_, req) \in Nat
      /\ AtWorkers(req) \in Nat /\ Count(pending_writes_, req) \in Nat /\ Answered(req) \in Nat
  BY DEF Settled, CopiesAdd
<1> QED
  BY <1>1, <1>2

(* The EPOLLOUT half of an event. *)
LEMMA WriteKept ==
    ASSUME Settled, Settled', Kept, NEW c \in Clients, Write(c)
    PROVE  Kept'
<1> DEFINE cn == conn[c]
<1>1. /\ pc = "write" /\ c = connections_[event.fd] /\ Flush(c, conn[c], "batch", "disarm")
      /\ UNCHANGED <<request, connections_, queue_, worker, pending_writes_, lost>>
      /\ pc' \notin {"submit", "post"}
  BY DEF Write, Flush, Goto, IfUnsent, LoopKeeps, poolVars
<1>2. /\ Sealed(c) /\ conn[c].state # "None"
      /\ conn[c].fd = event.fd \/ conn[c].state = "Closed"
      /\ event.fd # NoFd
  <2>1. event.fd \in DOMAIN connections_ /\ Sealed(c) /\ conn[c].state # "None"
        /\ (conn[c].fd = event.fd \/ conn[c].state = "Closed")
    BY <1>1 DEF Settled, TableInv, Control, Handling, Lives, Table
  <2> QED
    BY <2>1, FdsApart DEF Settled, TableInv, LoopTyped
<1>3. Connected(conn[c])
  BY DEF Settled, TableInv, ClientsTyped
<1>4. /\ conn[c].fd = NoFd => HasUnsent(conn[c])
      /\ conn[c].state = "Closed" => conn[c].fd = NoFd
      /\ conn[c].state \notin {"None", "Destroyed"} \/ conn[c].fd = NoFd
  BY <1>2, <1>3 DEF Settled, TableInv, Lives, Sealed, HasUnsent
<1>5. /\ Queued(conn[c], c) /\ Sending(conn[c], c, peer[c].got)
      /\ conn[c].fd = NoFd => conn[c].sendfile_op.r = 0
  BY DEF Kept, Streams
<1>6. Once(conn[c], c, peer[c].got)
  <2> SUFFICES ASSUME NEW r \in Wanted(c)
               PROVE  Count(conn[c].write_buf, Headers(r)) + Count(peer[c].got, Headers(r)) <= 1
    BY DEF Once
  <2>1. <<c, r>> \in Requests
    BY DEF Requests, Wanted
  <2>2. Answered(<<c, r>>) \in {0, 1}
    BY <2>1, AnsweredOnce DEF Kept
  <2> QED
    BY <2>2 DEF Answered
<1>7. /\ Streams'
      /\ \A d \in Clients \ {c} : conn'[d] = conn[d] /\ peer'[d] = peer[d]
      /\ peer'[c].inbox = peer[c].inbox /\ peer'[c].asked = peer[c].asked
      /\ \A r : Count(conn'[c].write_buf, Headers(r)) + Count(peer'[c].got, Headers(r))
                = Count(conn[c].write_buf, Headers(r)) + Count(peer[c].got, Headers(r))
      /\ conn'[c].sendfile_op.r \in {0, conn[c].sendfile_op.r}
      /\ openFiles' = openFiles \ ((FileOf(c, conn[c]) \cup FileOf(c, conn[c])) \ FileOf(c, conn'[c]))
      /\ conn[c].state = "Closed" => conn'[c].state = "Closed"
  BY <1>1, <1>2, <1>3, <1>4, <1>5, <1>6, FlushKeepsStreams DEF Kept
<1>8. ASSUME NEW req \in Requests PROVE PlacedAt(req)'
  <2>1. PlacedAt(req) /\ req[1] \in Clients
    BY RequestIsSome DEF Kept, Placed
  <2>2. /\ Copies(req) = Arrived(req) + InHands(req) + Count(queue_, req) + AtWorkers(req)
                         + Count(pending_writes_, req) + Answered(req)
        /\ Copies(req)' = Arrived(req)' + InHands(req)' + Count(queue_, req)' + AtWorkers(req)'
                         + Count(pending_writes_, req)' + Answered(req)'
    BY DEF Settled, CopiesAdd
  <2>3. /\ Arrived(req)' = Arrived(req) /\ InHands(req)' = InHands(req)
        /\ AtWorkers(req)' = AtWorkers(req) /\ Count(queue_, req)' = Count(queue_, req)
        /\ Count(pending_writes_, req)' = Count(pending_writes_, req)
    BY <1>1, <1>7, <2>1 DEF Arrived, InHands, AtWorkers
  <2>4. Answered(req)' = Answered(req)
    BY <1>7, <2>1 DEF Answered
  <2>5. /\ peer'[req[1]].asked = peer[req[1]].asked
        /\ conn[req[1]].state = "Closed" => conn'[req[1]].state = "Closed"
    BY <1>7, <2>1
  <2>6. Copies(req)' = Copies(req)
    BY <2>2, <2>3, <2>4
  <2> QED
    BY <1>1, <2>1, <2>5, <2>6, PlaceStays
<1>9. ASSUME NEW req \in Requests, IsFile(req)
      PROVE  FileOwners(req)' = IF req \in openFiles' THEN 1 ELSE 0
  <2>1. req[1] \in Clients /\ req = <<req[1], req[2]>> /\ req[2] # 0
    BY RequestIsSome
  <2>2. conn'[req[1]].sendfile_op.r = req[2] => conn[req[1]].sendfile_op.r = req[2]
    BY <1>7, <2>1
  <2>3. \A other : req \in FileOf(c, other) <=> req[1] = c /\ other.sendfile_op.r = req[2]
    BY <2>1 DEF FileOf
  <2>4. req \in openFiles' <=> req \in openFiles
            /\ (conn[req[1]].sendfile_op.r = req[2] => conn'[req[1]].sendfile_op.r = req[2])
    BY <1>7, <2>1, <2>3
  <2> QED
    BY <1>1, <1>9, <2>2, <2>4, FileStays DEF Kept
<1> QED
  BY <1>7, <1>8, <1>9 DEF Kept, Placed, Owned, IsFile

(* A response goes on its connection. *)
LEMMA PreparedUnits ==
    ASSUME Settled, Streams, Placed, NEW own \in Requests, Connected(conn[own[1]]),
           Count(pending_writes_, own) # 0
    PROVE  LET c == own[1]
               cn == Prepared(own)
           IN  /\ Queued(cn, c) /\ Sending(cn, c, peer[c].got) /\ Once(cn, c, peer[c].got)
               /\ \A r : Count(cn.write_buf, Headers(r))
                         = Count(conn[c].write_buf, Headers(r)) + (IF r = own[2] THEN 1 ELSE 0)
<1> DEFINE c == own[1]
           cn == Prepared(own)
           buf == conn[c].write_buf
           got == peer[c].got
<1>1. c \in Clients /\ own = <<c, own[2]>> /\ own[2] \in Wanted(c) /\ own[2] # 0
  BY RequestIsSome DEF Wanted
<1>2. /\ cn.write_buf = Append(buf, Headers(own[2]))
      /\ IF IsFile(own) THEN cn.sendfile_op.r = own[2] /\ cn.sendfile_op.offset = 0
         ELSE cn.sendfile_op = conn[c].sendfile_op
  <2>1. /\ cn.write_buf = Append(buf, <<own[2], 0>>)
        /\ cn.sendfile_op =
               IF IsFile(own) THEN [r |-> own[2], offset |-> 0, remaining |-> Size(own), length |-> Length(own)]
                              ELSE conn[c].sendfile_op
    BY PreparedTyped
  <2> HIDE DEF cn, buf
  <2> QED
    BY <2>1 DEF Headers
<1>3. buf \in Seq(Units) /\ got \in Seq(Units) /\ Headers(own[2]) \in Units /\ peer[c] \in Peer(c)
  <2>1. buf \in Seq(Units) /\ peer[c] \in Peer(c)
    BY <1>1 DEF Connected, Settled, TableInv, ClientsTyped
  <2>2. Headers(own[2]) \in Units
    BY <1>1 DEF Wanted, Headers, Units
  <2> QED
    BY <2>1, <2>2, PeerFields
<1>4. \A r : /\ Count(buf, Headers(r)) \in Nat /\ Count(got, Headers(r)) \in Nat
             /\ Count(got, Headers(r)) = 0 <=> \A p \in DOMAIN got : got[p] # Headers(r)
  BY <1>3, CountFinite
<1>5. \A r : Count(Append(buf, Headers(own[2])), Headers(r))
             = Count(buf, Headers(r)) + (IF r = own[2] THEN 1 ELSE 0)
  <2> SUFFICES ASSUME NEW r
               PROVE  Count(Append(buf, Headers(own[2])), Headers(r))
                      = Count(buf, Headers(r)) + (IF r = own[2] THEN 1 ELSE 0)
    OBVIOUS
  <2>1. Count(Append(buf, Headers(own[2])), Headers(r))
        = Count(buf, Headers(r)) + (IF Headers(own[2]) = Headers(r) THEN 1 ELSE 0)
    BY <1>3, CountAppend
  <2>2. Headers(own[2]) = Headers(r) <=> r = own[2]
    BY DEF Headers
  <2> QED
    BY <2>1, <2>2
<1>6. \A r \in Wanted(c) : Count(buf, Headers(r)) + Count(got, Headers(r)) \in {0, 1}
  <2> SUFFICES ASSUME NEW r \in Wanted(c)
               PROVE  Count(buf, Headers(r)) + Count(got, Headers(r)) \in {0, 1}
    OBVIOUS
  <2>1. <<c, r>> \in Requests
    BY <1>1 DEF Requests, Wanted
  <2>2. Answered(<<c, r>>) \in {0, 1}
    BY <2>1, AnsweredOnce
  <2> QED
    BY <2>2 DEF Answered
<1>7. Count(buf, Headers(own[2])) = 0 /\ Count(got, Headers(own[2])) = 0
  <2>1. Answered(own) = 0
    BY AnsweredOnce
  <2>2. Count(buf, Headers(own[2])) + Count(got, Headers(own[2])) = 0
    BY <2>1 DEF Answered
  <2>3. Count(buf, Headers(own[2])) \in Nat /\ Count(got, Headers(own[2])) \in Nat
    BY <1>4
  <2> HIDE DEF buf, got
  <2> QED
    BY <2>2, <2>3
<1>8. Queued(conn[c], c) /\ Ordered(got) /\ Sending(conn[c], c, got)
  BY <1>1 DEF Streams
<1> HIDE DEF cn, c
<1>9. Queued(cn, c)
  <2>1. \A k \in DOMAIN Append(buf, Headers(own[2])) :
            (k \in DOMAIN buf /\ Append(buf, Headers(own[2]))[k] = buf[k])
                \/ Append(buf, Headers(own[2]))[k] = Headers(own[2])
    <3> HIDE DEF buf
    <3> QED
      BY <1>3
  <2>2. \A k \in DOMAIN buf : \E r \in Wanted(c) : buf[k] = Headers(r)
    BY <1>8 DEF Queued
  <2> HIDE DEF buf
  <2> QED
    BY <1>1, <1>2, <2>1, <2>2 DEF Queued
<1>10. Once(cn, c, got)
  <2> SUFFICES ASSUME NEW r \in Wanted(c)
               PROVE  Count(cn.write_buf, Headers(r)) + Count(got, Headers(r)) <= 1
    BY DEF Once
  <2>1. /\ Count(cn.write_buf, Headers(r)) = Count(buf, Headers(r)) + (IF r = own[2] THEN 1 ELSE 0)
        /\ Count(buf, Headers(r)) \in Nat /\ Count(got, Headers(r)) \in Nat
        /\ Count(buf, Headers(r)) + Count(got, Headers(r)) \in {0, 1}
    BY <1>2, <1>4, <1>5, <1>6
  <2> HIDE DEF buf, got
  <2>2. CASE r = own[2]
    BY <1>7, <2>1, <2>2
  <2>3. CASE r # own[2]
    BY <2>1, <2>3
  <2> QED
    BY <2>2, <2>3
<1>11. Sending(cn, c, got)
  <2>1. CASE IsFile(own)
    <3>1. cn.sendfile_op.r = own[2]
      BY <1>2, <2>1
    <3>2. IsFile(<<c, own[2]>>)
      BY <1>1, <2>1
    <3>3. Count(cn.write_buf, Headers(own[2])) + Count(got, Headers(own[2])) > 0
      <4>1. Count(cn.write_buf, Headers(own[2])) = Count(buf, Headers(own[2])) + 1
        BY <1>2, <1>5
      <4> HIDE DEF buf, got
      <4> QED
        BY <1>7, <4>1
    <3>4. \A p \in DOMAIN got : got[p][1] # own[2]
      <4> SUFFICES ASSUME NEW p \in DOMAIN got, got[p][1] = own[2] PROVE FALSE
        OBVIOUS
      <4>1. \E q \in DOMAIN got : got[q] = Headers(own[2])
        BY <1>8 DEF Ordered
      <4> HIDE DEF got
      <4> QED
        BY <1>4, <1>7, <4>1
    <3> QED
      BY <1>1, <3>1, <3>2, <3>3, <3>4 DEF Sending
  <2>2. CASE ~IsFile(own)
    <3> DEFINE r == conn[c].sendfile_op.r
    <3>1. cn.sendfile_op = conn[c].sendfile_op
      BY <1>2, <2>2
    <3>2. Count(cn.write_buf, Headers(r)) = Count(buf, Headers(r)) + (IF r = own[2] THEN 1 ELSE 0)
      BY <1>2, <1>5
    <3>3. Count(buf, Headers(r)) \in Nat /\ Count(got, Headers(r)) \in Nat
      BY <1>4
    <3>4. r # 0 => /\ r \in Wanted(c) /\ IsFile(<<c, r>>)
                   /\ Count(buf, Headers(r)) + Count(got, Headers(r)) > 0
                   /\ \A p \in DOMAIN got : got[p][1] = r => got[p][2] <= conn[c].sendfile_op.offset
      BY <1>8 DEF Sending
    <3>5. r # 0 => Count(cn.write_buf, Headers(r)) + Count(got, Headers(r)) > 0
      <4> HIDE DEF buf, got, r
      <4> QED
        BY <3>2, <3>3, <3>4
    <3> QED
      BY <3>1, <3>4, <3>5 DEF Sending
  <2> QED
    BY <2>1, <2>2
<1>12. \A r : Count(cn.write_buf, Headers(r)) = Count(buf, Headers(r)) + (IF r = own[2] THEN 1 ELSE 0)
  BY <1>2, <1>5
<1> HIDE DEF buf, got
<1> QED
  BY <1>9, <1>10, <1>11, <1>12 DEF buf, got, c, cn

LEMMA DrainWriteKept ==
    ASSUME Settled, Settled', Kept, NEW own \in Requests, DrainWrite(own)
    PROVE  Kept'
<1> DEFINE c == own[1]
           cn == Prepared(own)
<1>1. /\ pc = "drain" /\ pc' \notin {"submit", "post"} /\ Flush(c, cn, "arm", "drain")
      /\ UNCHANGED <<connections_, queue_, worker, lost>>
      /\ pending_writes_ # <<>> /\ own = Head(pending_writes_) /\ pending_writes_' = Tail(pending_writes_)
      /\ conn[c].state # "Closed"
  BY DEF DrainWrite, Draining, TakePending, IsAlive, Flush, Goto, NextPending, LoopKeeps, poolVars
<1>2. pending_writes_ \in Seq(Requests) /\ c \in Clients /\ Connected(conn[c])
  BY RequestIsSome DEF Settled, TableInv, PoolTyped, ClientsTyped
<1>3. ASSUME NEW req \in Requests
      PROVE  Count(pending_writes_, req) = Count(pending_writes_, req)' + (IF own = req THEN 1 ELSE 0)
  <2>1. Count(pending_writes_, req) = Count(Tail(pending_writes_), req)
                                      + (IF Head(pending_writes_) = req THEN 1 ELSE 0)
    BY <1>1, <1>2, CountTail
  <2> QED
    BY <1>1, <2>1
<1>4. Count(pending_writes_, own) # 0
  <2>1. Count(pending_writes_, own) = Count(pending_writes_, own)' + 1 /\ Count(pending_writes_, own)' \in Nat
    BY <1>3 DEF Settled, CopiesAdd
  <2> QED
    BY <2>1
<1>5. /\ Queued(cn, c) /\ Sending(cn, c, peer[c].got) /\ Once(cn, c, peer[c].got)
      /\ \A r : Count(cn.write_buf, Headers(r))
                = Count(conn[c].write_buf, Headers(r)) + (IF r = own[2] THEN 1 ELSE 0)
  BY <1>2, <1>4, PreparedUnits DEF Kept
<1>6. /\ Connected(cn) /\ cn.fd = conn[c].fd /\ cn.state = "Writing" /\ HasUnsent(cn)
      /\ cn.sendfile_op.r = IF IsFile(own) THEN own[2] ELSE conn[c].sendfile_op.r
  <2>1. /\ Connected(cn) /\ cn.fd = conn[c].fd /\ cn.state = "Writing" /\ HasUnsent(cn)
        /\ cn.sendfile_op =
               IF IsFile(own) THEN [r |-> own[2], offset |-> 0, remaining |-> Size(own), length |-> Length(own)]
                              ELSE conn[c].sendfile_op
    BY <1>2, PreparedTyped
  <2> HIDE DEF cn
  <2> QED
    BY <2>1
<1>7. conn[c].state # "None"
  <2>1. pending_writes_[1] = own /\ 1 \in DOMAIN pending_writes_
    BY <1>1, <1>2
  <2> QED
    BY <2>1 DEF Settled, TableInv, Known, Opened
<1>8. /\ Streams'
      /\ \A d \in Clients \ {c} : conn'[d] = conn[d] /\ peer'[d] = peer[d]
      /\ peer'[c].inbox = peer[c].inbox /\ peer'[c].asked = peer[c].asked
      /\ \A r : Count(conn'[c].write_buf, Headers(r)) + Count(peer'[c].got, Headers(r))
                = Count(cn.write_buf, Headers(r)) + Count(peer[c].got, Headers(r))
      /\ conn'[c].sendfile_op.r \in {0, cn.sendfile_op.r}
      /\ openFiles' = openFiles \ ((FileOf(c, conn[c]) \cup FileOf(c, cn)) \ FileOf(c, conn'[c]))
  <2> HIDE DEF cn, c
  <2>1. /\ cn.state \notin {"None", "Destroyed"} /\ cn.state # "Closed"
    BY <1>6
  <2> QED
    BY <1>1, <1>2, <1>5, <1>6, <1>7, <2>1, FlushKeepsStreams DEF Kept
<1> HIDE DEF cn
<1>9. ASSUME NEW req \in Requests PROVE PlacedAt(req)'
  <2>1. PlacedAt(req) /\ req[1] \in Clients /\ req = <<req[1], req[2]>> /\ own = <<c, own[2]>>
    BY RequestIsSome DEF Kept, Placed
  <2>2. /\ Copies(req) = Arrived(req) + InHands(req) + Count(queue_, req) + AtWorkers(req)
                         + Count(pending_writes_, req) + Answered(req)
        /\ Arrived(req) \in Nat /\ InHands(req) \in {0, 1} /\ Count(queue_, req) \in Nat
        /\ AtWorkers(req) \in Nat /\ Count(pending_writes_, req) \in Nat /\ Answered(req) \in Nat
        /\ Copies(req)' = Arrived(req)' + InHands(req)' + Count(queue_, req)' + AtWorkers(req)'
                         + Count(pending_writes_, req)' + Answered(req)'
        /\ Count(pending_writes_, req)' \in Nat
    BY DEF Settled, CopiesAdd
  <2>3. /\ Arrived(req)' = Arrived(req) /\ InHands(req) = 0 /\ InHands(req)' = 0
        /\ AtWorkers(req)' = AtWorkers(req) /\ Count(queue_, req)' = Count(queue_, req)
    BY <1>1, <1>8, <2>1 DEF Arrived, InHands, AtWorkers
  <2>4. Answered(req)' = Answered(req) + (IF own = req THEN 1 ELSE 0)
    <3>1. CASE req[1] = c
      <4> DEFINE r == req[2]
      <4>1. Answered(req)' = Count(conn'[c].write_buf, Headers(r)) + Count(peer'[c].got, Headers(r))
            /\ Answered(req) = Count(conn[c].write_buf, Headers(r)) + Count(peer[c].got, Headers(r))
        BY <3>1 DEF Answered
      <4>2. Count(conn[c].write_buf, Headers(r)) \in Nat /\ Count(peer[c].got, Headers(r)) \in Nat
        BY <3>1, CopiesSum DEF Settled
      <4>3. r = own[2] <=> own = req
        BY <2>1, <3>1
      <4>4. Count(conn'[c].write_buf, Headers(r)) + Count(peer'[c].got, Headers(r))
            = Count(cn.write_buf, Headers(r)) + Count(peer[c].got, Headers(r))
        BY <1>8
      <4>5. Count(cn.write_buf, Headers(r)) = Count(conn[c].write_buf, Headers(r)) + (IF r = own[2] THEN 1 ELSE 0)
        BY <1>5
      <4> HIDE DEF r, c
      <4> QED
        BY <4>1, <4>2, <4>3, <4>4, <4>5
    <3>2. CASE req[1] # c
      <4>1. Answered(req)' = Answered(req)
        BY <1>8, <2>1, <3>2 DEF Answered
      <4> QED
        BY <2>2, <3>2, <4>1
    <3> QED
      BY <3>1, <3>2
  <2>5. /\ peer'[req[1]].asked = peer[req[1]].asked
        /\ conn[req[1]].state = "Closed" => conn'[req[1]].state = "Closed"
    BY <1>1, <1>8, <2>1
  <2>6. Count(pending_writes_, req) = Count(pending_writes_, req)' + (IF own = req THEN 1 ELSE 0)
    BY <1>3
  <2>7. Copies(req)' = Copies(req)
    BY <2>2, <2>3, <2>4, <2>6
  <2> QED
    BY <1>1, <2>1, <2>5, <2>7, PlaceStays
<1>10. ASSUME NEW req \in Requests, IsFile(req)
       PROVE  FileOwners(req)' = IF req \in openFiles' THEN 1 ELSE 0
  <2>1. req[1] \in Clients /\ req = <<req[1], req[2]>> /\ req[2] # 0 /\ own = <<c, own[2]>>
    BY RequestIsSome
  <2>2. \A other : req \in FileOf(c, other) <=> req[1] = c /\ other.sendfile_op.r = req[2]
    BY <2>1 DEF FileOf
  <2>3. Count(pending_writes_, req) = Count(pending_writes_, req)' + (IF own = req THEN 1 ELSE 0)
        /\ Count(pending_writes_, req)' \in Nat
    BY <1>3 DEF Settled, CopiesAdd
  <2>4. CASE own = req
    <3>1. FileOwners(req) = Cardinality(Holders({"post"}, req)) + Count(pending_writes_, req)
                             + (IF conn[req[1]].sendfile_op.r = req[2] THEN 1 ELSE 0)
          /\ Cardinality(Holders({"post"}, req)) \in Nat /\ Count(pending_writes_, req) \in Nat
      BY DEF Settled, OwnersAdd
    <3>2. FileOwners(req)' = Cardinality(Holders({"post"}, req)) + Count(pending_writes_, req)'
                             + (IF conn'[req[1]].sendfile_op.r = req[2] THEN 1 ELSE 0)
      <4>1. FileOwners(req)' = Cardinality(Holders({"post"}, req))' + Count(pending_writes_, req)'
                             + (IF conn'[req[1]].sendfile_op.r = req[2] THEN 1 ELSE 0)
        BY DEF Settled, OwnersAdd
      <4>2. Cardinality(Holders({"post"}, req))' = Cardinality(Holders({"post"}, req))
        BY <1>1 DEF Holders
      <4> QED
        BY <4>1, <4>2
    <3>3. FileOwners(req) = IF req \in openFiles THEN 1 ELSE 0
      BY <1>10 DEF Kept, Owned
    <3>4. Count(pending_writes_, req) = Count(pending_writes_, req)' + 1
      BY <2>3, <2>4
    <3>5. /\ Cardinality(Holders({"post"}, req)) = 0 /\ Count(pending_writes_, req)' = 0
          /\ conn[req[1]].sendfile_op.r # req[2] /\ req \in openFiles
      BY <2>3, <3>1, <3>3, <3>4
    <3>6. FileOwners(req)' = IF conn'[req[1]].sendfile_op.r = req[2] THEN 1 ELSE 0
      BY <3>2, <3>5
    <3>7. cn.sendfile_op.r = req[2] /\ req[1] = c
      BY <1>6, <1>10, <2>4
    <3>8. req \in openFiles' <=> conn'[req[1]].sendfile_op.r = req[2]
      BY <1>8, <2>2, <3>5, <3>7
    <3> QED
      BY <3>6, <3>8
  <2>5. CASE own # req
    <3>1. Count(pending_writes_, req)' = Count(pending_writes_, req)
      BY <2>3, <2>5
    <3>2. req[1] = c => (cn.sendfile_op.r = req[2] => conn[c].sendfile_op.r = req[2])
      BY <1>6, <2>1, <2>5
    <3>3. conn'[req[1]].sendfile_op.r = req[2] => conn[req[1]].sendfile_op.r = req[2]
      BY <1>8, <2>1, <3>2
    <3>4. req \in openFiles' <=> req \in openFiles
              /\ (conn[req[1]].sendfile_op.r = req[2] => conn'[req[1]].sendfile_op.r = req[2])
      BY <1>8, <2>1, <2>2, <3>2
    <3> QED
      BY <1>1, <1>10, <3>1, <3>3, <3>4, FileStays DEF Kept
  <2> QED
    BY <2>4, <2>5
<1> QED
  BY <1>8, <1>9, <1>10 DEF Kept, Placed, Owned, IsFile

-----------------------------------------------------------------------------
(* The invariant *)

LEMMA NextKept ==
    ASSUME Settled, Settled', Kept, [Next]_vars, ~Joined
    PROVE  Kept'
<1>1. CASE LoopStep
  <2>1. CASE StartUp
    BY <2>1, StartUpKept
  <2>2. CASE \/ Poll \/ Reap \/ AcceptNothing \/ AcceptThrows \/ DrainEnds \/ Arm \/ Disarm \/ Leave
             \/ \E c \in Clients : ReadAgain(c)
             \/ \E e \in batch : HandleListen(e) \/ HandleWakeup(e) \/ HandleIo(e)
    BY <2>2, LoopKept
  <2>3. CASE (\E e \in batch : HandleClosed(e)) \/ \E c \in Clients : ReadEnds(c)
    BY <2>3, ShutKept
  <2>4. CASE AcceptOne
    BY <2>4, AcceptKept
  <2>5. ASSUME NEW c \in Clients, ReadRequest(c) PROVE Kept'
    BY <2>5, ReadRequestKept
  <2>6. ASSUME NEW c \in Clients, Write(c) PROVE Kept'
    BY <2>6, WriteKept
  <2>7. CASE Submit \/ PostError
    BY <2>7, HandedKept
  <2>8. ASSUME NEW req \in Requests, DrainDead(req) PROVE Kept'
    BY <2>8, DrainDeadKept
  <2>9. ASSUME NEW req \in Requests, DrainWrite(req) PROVE Kept'
    BY <2>9, DrainWriteKept
  <2> QED
    BY <1>1, <2>1, <2>2, <2>3, <2>4, <2>5, <2>6, <2>7, <2>8, <2>9 DEF LoopStep
<1>2. ASSUME NEW w \in Workers, WorkerStep(w) PROVE Kept'
  BY <1>2, WorkersKept
<1>3. CASE Environment
  <2>1. ASSUME NEW c \in Clients, SendRequest(c) PROVE Kept'
    BY <2>1, SendRequestKept
  <2>2. CASE Signal \/ \E c \in Clients : Connect(c) \/ ReadResponse(c) \/ Fin(c) \/ Rst(c)
    BY <2>2, ClientsKept
  <2> QED
    BY <1>3, <2>1, <2>2 DEF Environment
<1>4. CASE UNCHANGED vars
  BY <1>4, QuietKept DEF SameWorkers, vars, loopVars, poolVars
<1> QED
  BY <1>1, <1>2, <1>3, <1>4 DEF Next, Terminated

LEMMA InitEnds == Init => Ends /\ AnswersBad
<1> SUFFICES ASSUME Init PROVE Ends /\ AnswersBad
  OBVIOUS
<1>1. pc = "socket" /\ queue_ = <<>> /\ ~closed_ /\ \A w \in Workers : worker[w].pc = "unborn"
  BY DEF Init
<1> QED
  BY <1>1 DEF Ends, Ended, AnswersBad

LEMMA InitKept ==
    ASSUME Init, Settled
    PROVE  Kept
<1>0. \A k \in DOMAIN <<>> : FALSE
  OBVIOUS
<1>1. ASSUME NEW c \in Clients
      PROVE  /\ conn[c].write_buf = <<>> /\ conn[c].sendfile_op.r = 0
             /\ peer[c].inbox = <<>> /\ peer[c].got = <<>> /\ peer[c].asked = 0
  <2>1. conn[c] = [NewConnection(NoFd) EXCEPT !.state = "None"]
    BY DEF Init
  <2>2. conn[c].write_buf = <<>> /\ conn[c].sendfile_op.r = 0
    BY <2>1 DEF NewConnection, NoSendfile
  <2> QED
    BY <2>2 DEF Init
<1>2. /\ pc = "socket" /\ queue_ = <<>> /\ pending_writes_ = <<>> /\ openFiles = {} /\ lost = {}
      /\ \A w \in Workers : worker[w].pc = "unborn"
  BY DEF Init
<1>3. Streams
  BY <1>0, <1>1 DEF Streams, Queued, Ordered, Sending
<1>4. ASSUME NEW labels, "unborn" \notin labels, NEW req PROVE Cardinality(Holders(labels, req)) = 0
  <2>1. Holders(labels, req) = {}
    BY <1>2, <1>4 DEF Holders
  <2> QED
    BY <2>1, FS_EmptySet
<1>5. \A x : Count(<<>>, x) = 0
  <2>1. \A x : {k \in DOMAIN <<>> : <<>>[k] = x} = {}
    BY <1>0
  <2> QED
    BY <2>1, FS_EmptySet DEF Count
<1>6. ASSUME NEW req \in Requests PROVE PlacedAt(req)
  <2>1. req[1] \in Clients /\ req[2] \in Nat /\ req[2] > 0
    BY RequestIsSome
  <2>2. AtWorkers(req) = 0
    <3>1. Cardinality(Holders({"run", "post"}, req)) = 0
      BY <1>4
    <3> QED
      BY <3>1 DEF AtWorkers, Holders
  <2>3. Arrived(req) = 0 /\ Answered(req) = 0
    <3>1. Arrived(req) = Count(<<>>, req[2])
          /\ Answered(req) = Count(<<>>, Headers(req[2])) + Count(<<>>, Headers(req[2]))
      BY <1>1, <2>1 DEF Arrived, Answered
    <3> QED
      BY <1>5, <3>1
  <2>4. InHands(req) = 0 /\ Count(queue_, req) = 0 /\ Count(pending_writes_, req) = 0
    BY <1>2, <1>5 DEF InHands
  <2>5. Copies(req) = 0
    BY <2>2, <2>3, <2>4 DEF Settled, CopiesAdd
  <2>6. req[2] > peer[req[1]].asked /\ req \notin lost
    BY <1>1, <1>2, <2>1
  <2> QED
    BY <2>5, <2>6 DEF PlacedAt
<1>7. ASSUME NEW req \in Requests, IsFile(req)
      PROVE  FileOwners(req) = IF req \in openFiles THEN 1 ELSE 0
  <2>1. req[1] \in Clients /\ req[2] # 0
    BY RequestIsSome
  <2>2. conn[req[1]].sendfile_op.r # req[2]
    BY <1>1, <2>1
  <2>3. Cardinality(Holders({"post"}, req)) = 0
    BY <1>4
  <2>4. FileOwners(req) = 0
    BY <1>2, <1>5, <2>2, <2>3 DEF Settled, OwnersAdd
  <2> QED
    BY <1>2, <2>4
<1> QED
  BY <1>3, <1>6, <1>7 DEF Kept, Placed, Owned

LEMMA LoopEnds ==
    ASSUME [Next]_vars, ~Ended, Ended', ~Joined
    PROVE  StartFails /\ Early
<1>1. CASE LoopStep
  BY <1>1, LoopPhases
<1>2. CASE Environment \/ (\E w \in Workers : WorkerStep(w)) \/ UNCHANGED vars
  <2>1. UNCHANGED pc
    BY <1>2 DEF Environment, Connect, SendRequest, ReadResponse, Fin, Rst, Signal, ServerUntouched,
                WorkerStep, WorkerTake, WorkerExit, HandlerThrows, HandlerReturns, WorkerPost,
                WorkerNotify, WorkerMoves, vars, loopVars
  <2> QED
    BY <2>1 DEF Ended
<1> QED
  BY <1>1, <1>2 DEF Next, Terminated

LEMMA RequestInvariant == Spec => [](TableInv /\ RequestInv)
<1>1. Init => TableInv /\ RequestInv
  <2> SUFFICES ASSUME Init PROVE TableInv /\ RequestInv
    OBVIOUS
  <2>1. TableInv /\ Ends /\ AnswersBad
    BY InitTable, InitEnds
  <2>2. Settled
    BY <2>1, Sums DEF Settled
  <2>3. Kept
    BY <2>2, InitKept
  <2>4. ~Ended
    BY DEF Init, Ended
  <2> QED
    BY <2>1, <2>3, <2>4 DEF RequestInv, Kept
<1>2. TableInv /\ EndInv /\ EndInv' /\ RequestInv /\ [Next]_vars => (TableInv /\ RequestInv)'
  <2> SUFFICES ASSUME TableInv, EndInv, EndInv', RequestInv, [Next]_vars
               PROVE  TableInv' /\ RequestInv'
    OBVIOUS
  <2>1. Settled /\ Settled'
    BY SettledNext DEF RequestInv
  <2>2. CASE Ended
    <3>1. UNCHANGED vars
      BY <2>2, NothingAfterTheEnd
    <3>2. Streams' /\ Placed'
      BY <2>1, <3>1, QuietStreams, QuietPlaces DEF RequestInv, SameWorkers, vars, loopVars, poolVars
    <3>3. Ended' /\ Abandoned'
      BY <2>2, <3>1 DEF RequestInv, Ended, Abandoned, FileOwners, vars, loopVars, poolVars
    <3> QED
      BY <2>1, <3>2, <3>3 DEF Settled, RequestInv
  <2>3. CASE ~Ended /\ Joined
    <3>1. Streams' /\ Placed' /\ Abandoned' /\ Ended'
      BY <2>1, <2>3, JoinedEnds DEF RequestInv, Kept, Joined, Goto, Ended
    <3> QED
      BY <2>1, <3>1 DEF Settled, RequestInv
  <2>4. CASE ~Ended /\ ~Joined
    <3>1. Kept'
      BY <2>1, <2>4, NextKept DEF RequestInv, Kept
    <3>2. ASSUME Ended' PROVE openFiles' = {}
      <4>1. StartFails /\ Early
        BY <2>4, <3>2, LoopEnds
      <4> QED
        BY <4>1 DEF StartFails, EndInv
    <3>3. Ended' => Abandoned'
      BY <3>1, <3>2 DEF Kept, Owned, Abandoned
    <3> QED
      BY <2>1, <3>1, <3>3 DEF Settled, Kept, RequestInv
  <2> QED
    BY <2>2, <2>3, <2>4
<1> QED
  BY <1>1, <1>2, EndInvariant, PTL DEF Spec

(* A request that a client has sent is at one place, on its way from the     *)
(* socket through the loop's hands, the task queue, a worker,                *)
(* pending_writes_ and the write buffer to the client, never at two, and it  *)
(* leaves that way only because its socket was closed before it was read,    *)
(* consume_all() discarded it, its handler threw, its connection died, or    *)
(* the loop was destroyed with its response unsent; the task queue loses     *)
(* nothing, since the workers drain it before they are joined                *)
(* (main.cpp:91-136, thread_pool.cpp:54-68, event_loop.cpp:39-136).          *)
THEOREM RequestNeverTwice == Spec => []RequestInOnePlace
<1>1. ASSUME TableInv, RequestInv, NEW req \in Requests
      PROVE  \/ Places(req) = 1 /\ req \notin lost /\ ~ClosedUnread(req)
             \/ /\ \/ req[2] > peer[req[1]].asked \/ ClosedUnread(req) \/ req \in lost
                   \/ Kind(req) = "throw" \/ conn[req[1]].state = "Closed"
                /\ Places(req) = 0
  <2> DEFINE c == req[1]
             inbox == Count(peer[c].inbox, req[2])
             written == Count(conn[c].write_buf, Headers(req[2]))
             arrived == IF Reachable(c) THEN inbox ELSE 0
             queued == IF conn[c].fd # NoFd THEN written ELSE 0
             rest == InHands(req) + Count(queue_, req) + AtWorkers(req)
                     + Count(pending_writes_, req) + Count(peer[c].got, Headers(req[2]))
  <2>1. /\ PlacedAt(req) /\ Ends /\ Streams /\ c \in Clients
        /\ (Copies(req) = 1 /\ req \notin lost) \/ Copies(req) = 0
    BY <1>1, RequestIsSome DEF RequestInv, Placed, PlacedAt
  <2>2. /\ Copies(req) = Arrived(req) + InHands(req) + Count(queue_, req) + AtWorkers(req)
                         + Count(pending_writes_, req) + Answered(req)
        /\ Arrived(req) \in Nat /\ InHands(req) \in Nat /\ Count(queue_, req) \in Nat
        /\ AtWorkers(req) \in Nat /\ Count(pending_writes_, req) \in Nat
        /\ written \in Nat /\ Count(peer[c].got, Headers(req[2])) \in Nat
    BY <1>1, <2>1, CopiesSum
  <2>3. Arrived(req) = inbox /\ Answered(req) = written + Count(peer[c].got, Headers(req[2]))
    BY DEF Arrived, Answered
  <2>4. Places(req) = arrived + InHands(req) + (IF Ended THEN 0 ELSE Count(queue_, req))
                      + AtWorkers(req) + Count(pending_writes_, req) + queued
                      + Count(peer[c].got, Headers(req[2]))
    BY DEF Places, InHands, AtWorkers, Headers
  <2>5. (IF Ended THEN 0 ELSE Count(queue_, req)) = Count(queue_, req)
    <3>1. queue_ = <<>> => Count(queue_, req) = 0
      <4>1. \A k \in DOMAIN <<>> : FALSE
        OBVIOUS
      <4> QED
        BY <1>1, <4>1, CountFinite DEF TableInv, PoolTyped
    <3> QED
      BY <2>1, <3>1 DEF Ends
  <2>6. ClosedUnread(req) <=> ~Reachable(c) /\ inbox # 0
    <3>1. peer[c].inbox \in Seq(1 .. Len(Script[c]))
      BY <1>1, <2>1 DEF TableInv, ClientsTyped, Peer
    <3>2. req[2] \in ToSet(peer[c].inbox) <=> inbox # 0
      BY <3>1, CountFinite DEF ToSet
    <3> QED
      BY <3>2 DEF ClosedUnread
  <2>7. conn[c].fd = NoFd /\ written # 0 => conn[c].state = "Closed"
    <3>1. conn[c].write_buf = <<>> => written = 0
      <4>1. \A k \in DOMAIN <<>> : FALSE
        OBVIOUS
      <4>2. conn[c].write_buf \in Seq(Units)
        BY <1>1, <2>1 DEF TableInv, ClientsTyped, Connected
      <4> QED
        BY <4>1, <4>2, CountFinite
    <3> QED
      BY <2>1, <3>1 DEF Streams
  <2> HIDE DEF inbox, written
  <2>8. inbox \in Nat
    BY <2>2, <2>3
  <2>9. /\ Copies(req) = inbox + written + rest /\ rest \in Nat
        /\ Places(req) = arrived + queued + rest
        /\ arrived \in Nat /\ queued \in Nat
    BY <2>2, <2>3, <2>4, <2>5, <2>8
  <2> HIDE DEF rest
  <2>10. CASE Copies(req) = 0
    <3>1. Places(req) = 0 /\ inbox = 0
      BY <2>2, <2>8, <2>9, <2>10
    <3> QED
      BY <2>1, <2>10, <3>1 DEF PlacedAt
  <2>11. CASE Copies(req) = 1 /\ req \notin lost
    <3>1. CASE arrived = inbox /\ queued = written
      <4>1. Places(req) = 1
        BY <2>9, <2>11, <3>1
      <4>2. ~ClosedUnread(req)
        BY <2>6, <3>1
      <4> QED
        BY <2>11, <4>1, <4>2
    <3>2. CASE arrived # inbox
      <4>1. ClosedUnread(req) /\ arrived = 0 /\ inbox # 0
        BY <2>6, <3>2
      <4>2. Places(req) = 0
        BY <2>2, <2>8, <2>9, <2>11, <4>1
      <4> QED
        BY <4>1, <4>2
    <3>3. CASE queued # written
      <4>1. conn[c].state = "Closed" /\ queued = 0 /\ written # 0
        BY <2>7, <3>3
      <4>2. Places(req) = 0
        BY <2>2, <2>8, <2>9, <2>11, <4>1
      <4> QED
        BY <4>1, <4>2
    <3> QED
      BY <3>1, <3>2, <3>3
  <2> QED
    BY <2>1, <2>10, <2>11
<1>2. TableInv /\ RequestInv => RequestInOnePlace
  BY <1>1 DEF RequestInOnePlace
<1> QED
  BY <1>2, RequestInvariant, PTL

(* As long as the loop lives, the descriptor of a served file is neither     *)
(* leaked nor closed under somebody who still uses it: from dispatch() to    *)
(* the end of its transfer it has one owner, a worker, pending_writes_ or    *)
(* the connection's SendfileOp, also when the connection dies, when          *)
(* drain_pending_writes() finds it dead and when begin_sendfile() replaces a *)
(* transfer in progress.  When the loop is gone nobody owns a file, and one  *)
(* that is still open belongs to a response destroyed unsent                 *)
(* (pending_write.hpp:14-29, event_loop.cpp:63-129, connection.cpp:16-37).   *)
THEOREM FileNeverLeaked == Spec => []FileOwnedOnce
<1>1. RequestInv => FileOwnedOnce
  BY DEF RequestInv, Owned, Abandoned, FileOwnedOnce
<1> QED
  BY <1>1, RequestInvariant, PTL

(* flush_write() and the responses that drain_pending_writes() queues on a   *)
(* connection: whatever is pipelined, sent in part, resumed or replaced, no  *)
(* unit of a response reaches the client twice or before an earlier one      *)
(* (connection.cpp:16-98, event_loop.cpp:109-136).                           *)
THEOREM UnitsNeverTwice == Spec => []UnitsInOrder
<1>1. RequestInv => UnitsInOrder
  BY DEF RequestInv, Streams, Ordered, UnitsInOrder
<1> QED
  BY <1>1, RequestInvariant, PTL

=============================================================================
